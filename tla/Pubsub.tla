------------------------------- MODULE Pubsub -------------------------------
(***************************************************************************)
(* The local bus of internal/pubsub: pubsub-actor, which holds the client  *)
(* of the local MQTT broker and the map of subscriptions, and Subscribe,   *)
(* which StatusActor and EventsActor call from their own goroutines when   *)
(* they start, each with a topic of its own.                               *)
(*                                                                         *)
(* A connect that failed panics pubsub-actor 3 s later and a Subscribe that*)
(* failed panics the collector; both start again.  The object and its map  *)
(* stay, the client is replaced and not disconnected.                      *)
(*                                                                         *)
(* The MQTT clients and the broker are external.  All clients have one id, *)
(* so the broker drops the connection there is when another one comes;     *)
(* with AutoReconnect the dropped client comes back, with a clean session  *)
(* and therefore without the subscriptions it had.                         *)
(***************************************************************************)
EXTENDS Naturals, FiniteSets

CONSTANTS
  Collectors,     \* the actors that subscribe
  Clients,        \* MQTT clients
  Nil,            \* no client
  MaxFaults       \* bound on what the broker and the links do wrong

ASSUME PubsubAssumption == Nil \notin Clients /\ MaxFaults \in Nat

VARIABLES
  pc,             \* of pubsub-actor
  client,         \* its field client
  subscriptions,  \* its map: the collectors that have an entry
  todo,           \* the entries that Started has not come to
  link,           \* what each client does
  asked, topics,  \* SUBSCRIBEs on their way, subscriptions of the session
  collector,      \* where each collector is in its Started
  intact,         \* history: since the client connected its link has lasted
                  \* and every SUBSCRIBE was granted
  dead,           \* the runtime found the map written while Started ranged over it
  faults

vars == <<pc, client, subscriptions, todo, link, asked, topics, collector, intact, dead, faults>>

Down == {"down", "connecting"}

(* Type invariant (pubsub.go:31-38).                                       *)
TypeOK ==
  /\ pc \in {"starting", "connecting", "subscribing", "running"}
  /\ client \in Clients \cup {Nil}
  /\ subscriptions \subseteq Collectors /\ todo \subseteq subscriptions
  /\ link \in [Clients -> {"down", "connecting", "up", "reconnecting"}]
  /\ asked \in [Clients -> SUBSET Collectors] /\ topics \in [Clients -> SUBSET Collectors]
  /\ collector \in [Collectors -> {"none", "starting", "stored", "checked", "failed", "accepted"}]
  /\ intact \in BOOLEAN /\ dead \in BOOLEAN /\ faults \in 0 .. MaxFaults
  /\ Cardinality({c \in Clients : link[c] = "up"}) <= 1
  /\ pc \in {"subscribing", "running"} => link[client] \notin Down

Init ==
  /\ pc = "starting" /\ client = Nil
  /\ subscriptions = {} /\ todo = {}
  /\ link = [c \in Clients |-> "down"]
  /\ asked = [c \in Clients |-> {}] /\ topics = [c \in Clients |-> {}]
  /\ collector = [x \in Collectors |-> "none"]
  /\ intact = FALSE /\ dead = FALSE /\ faults = 0

Fault == faults < MaxFaults /\ faults' = faults + 1

-----------------------------------------------------------------------------
(* The clients and the broker.                                             *)

\* c comes up: the broker drops the client that is, with what it subscribed
ComesUp(c) ==
  LET dropped == {d \in Clients : link[d] = "up"}
  IN  /\ link' = [d \in Clients |-> IF d = c THEN "up"
                                    ELSE IF d \in dropped THEN "reconnecting" ELSE link[d]]
      /\ asked' = [d \in Clients |-> IF d \in dropped THEN {} ELSE asked[d]]
      /\ topics' = [d \in Clients |-> IF d \in dropped THEN {} ELSE topics[d]]
      /\ intact' = ((c = client /\ link[c] = "connecting") \/ (intact /\ client \notin dropped))

Connected(c) ==
  /\ link[c] = "connecting"
  /\ ComesUp(c)
  /\ UNCHANGED <<pc, client, subscriptions, todo, collector, dead, faults>>

Refused(c) ==
  /\ link[c] = "connecting"
  /\ Fault
  /\ link' = [link EXCEPT ![c] = "down"]
  /\ UNCHANGED <<pc, client, subscriptions, todo, asked, topics, collector, intact, dead>>

Loses(c) ==
  /\ link[c] = "up"
  /\ Fault
  /\ link' = [link EXCEPT ![c] = "reconnecting"]
  /\ asked' = [asked EXCEPT ![c] = {}]
  /\ topics' = [topics EXCEPT ![c] = {}]
  /\ intact' = (intact /\ c # client)
  /\ UNCHANGED <<pc, client, subscriptions, todo, collector, dead>>

Reconnects(c) ==
  /\ link[c] = "reconnecting"
  /\ ComesUp(c)
  /\ UNCHANGED <<pc, client, subscriptions, todo, collector, dead, faults>>

Grants(c, x) ==
  /\ x \in asked[c]
  /\ asked' = [asked EXCEPT ![c] = @ \ {x}]
  /\ topics' = [topics EXCEPT ![c] = @ \cup {x}]
  /\ UNCHANGED <<pc, client, subscriptions, todo, link, collector, intact, dead, faults>>

Refuses(c, x) ==
  /\ x \in asked[c]
  /\ Fault
  /\ asked' = [asked EXCEPT ![c] = @ \ {x}]
  /\ intact' = (intact /\ c # client)
  /\ UNCHANGED <<pc, client, subscriptions, todo, link, topics, collector, dead>>

-----------------------------------------------------------------------------
(* pubsub-actor.                                                           *)

\* instance.subscribe: a client whose link is not open refuses at once; the
\* error is looked at only when the token is NOT done within 3 s, and then
\* there is none
subscribe(x) ==
  IF client # Nil /\ link[client] = "up"
  THEN asked' = [asked EXCEPT ![client] = @ \cup {x}] /\ UNCHANGED intact
  ELSE intact' = FALSE /\ UNCHANGED asked

\* a client nothing is known of
New == CHOOSE c \in Clients : link[c] = "down"

\* Clients bounds how often the actor starts
OnStarted ==
  /\ pc = "starting"
  /\ \E c \in Clients : link[c] = "down"
  /\ client' = New
  /\ link' = [link EXCEPT ![New] = "connecting"]
  /\ intact' = FALSE
  /\ pc' = "connecting"
  /\ UNCHANGED <<subscriptions, todo, asked, topics, collector, dead, faults>>

\* mutant: only who calls Subscribe is subscribed
ConnectReturnsForgets ==
  /\ pc = "connecting" /\ link[client] \notin Down
  /\ pc' = "running" /\ todo' = {}
  /\ UNCHANGED <<client, subscriptions, link, asked, topics, collector, intact, dead, faults>>

ConnectReturns ==
  /\ pc = "connecting" /\ link[client] \notin Down
  /\ pc' = "subscribing" /\ todo' = subscriptions
  /\ UNCHANGED <<client, subscriptions, link, asked, topics, collector, intact, dead, faults>>

\* mutant: the actor goes on without a connection
ConnectFailsQuietly ==
  /\ pc = "connecting" /\ link[client] \in Down
  /\ IF link[client] = "connecting" THEN Fault ELSE UNCHANGED faults
  /\ pc' = "running"
  /\ UNCHANGED <<client, subscriptions, todo, link, asked, topics, collector, intact, dead>>

\* an error, or 10 s without an answer; the client is left to itself
ConnectFails ==
  /\ pc = "connecting" /\ link[client] \in Down
  /\ IF link[client] = "connecting" THEN Fault ELSE UNCHANGED faults
  /\ pc' = "starting"
  /\ UNCHANGED <<client, subscriptions, todo, link, asked, topics, collector, intact, dead>>

SubscribesAgain(x) ==
  /\ pc = "subscribing" /\ x \in todo
  /\ subscribe(x)
  /\ todo' = todo \ {x}
  /\ UNCHANGED <<pc, client, subscriptions, link, topics, collector, dead, faults>>

StartedReturns ==
  /\ pc = "subscribing" /\ todo = {}
  /\ pc' = "running"
  /\ UNCHANGED <<client, subscriptions, todo, link, asked, topics, collector, intact, dead, faults>>

-----------------------------------------------------------------------------
(* Subscribe, in the goroutine of collector x.                             *)

\* the mutex does not keep Started from ranging over the map: it comes to the
\* new entry or not, or the runtime ends the process
Store(x) ==
  /\ collector[x] = "starting"
  /\ collector' = [collector EXCEPT ![x] = "stored"]
  /\ subscriptions' = subscriptions \cup {x}
  /\ IF pc = "subscribing" THEN todo' \in {todo, todo \cup {x}} /\ dead' \in BOOLEAN
                           ELSE UNCHANGED <<todo, dead>>
  /\ UNCHANGED <<pc, client, link, asked, topics, intact, faults>>

\* IsConnected of the client is true also while it reconnects
Check(x) ==
  /\ collector[x] = "stored"
  /\ collector' = [collector EXCEPT ![x] = IF link[client] \in Down THEN "failed" ELSE "checked"]
  /\ UNCHANGED <<pc, client, subscriptions, todo, link, asked, topics, intact, dead, faults>>

\* nil is returned whatever became of the SUBSCRIBE
Call(x) ==
  /\ collector[x] = "checked"
  /\ subscribe(x)
  /\ collector' = [collector EXCEPT ![x] = "accepted"]
  /\ UNCHANGED <<pc, client, subscriptions, todo, link, topics, dead, faults>>

\* after 3 s
Panics(x) ==
  /\ collector[x] = "failed"
  /\ collector' = [collector EXCEPT ![x] = "starting"]
  /\ UNCHANGED <<pc, client, subscriptions, todo, link, asked, topics, intact, dead, faults>>

\* a panic of its own
Restarts(x) ==
  /\ collector[x] = "accepted"
  /\ collector' = [collector EXCEPT ![x] = "starting"]
  /\ UNCHANGED <<pc, client, subscriptions, todo, link, asked, topics, intact, dead, faults>>

\* App starts, 3 s after pubsub-actor: that one has a client; or App starts
\* again, when its collectors are in no handler
AppStarts ==
  /\ client # Nil
  /\ \A x \in Collectors : collector[x] \in {"none", "accepted"}
  /\ collector' = [x \in Collectors |-> "starting"]
  /\ UNCHANGED <<pc, client, subscriptions, todo, link, asked, topics, intact, dead, faults>>

-----------------------------------------------------------------------------
ActorStep ==
  \/ OnStarted \/ ConnectReturns \/ ConnectFails \/ StartedReturns
  \/ \E x \in Collectors : SubscribesAgain(x)

Subscribes(x) == Store(x) \/ Check(x) \/ Call(x) \/ Panics(x)

Environment ==
  \/ \E c \in Clients : Connected(c) \/ Refused(c) \/ Loses(c) \/ Reconnects(c)
  \/ \E c \in Clients, x \in Collectors : Grants(c, x) \/ Refuses(c, x)
  \/ AppStarts \/ \E x \in Collectors : Restarts(x)

Next == ~dead /\ (ActorStep \/ Environment \/ \E x \in Collectors : Subscribes(x))

Spec == Init /\ [][Next]_vars

\* goroutines run, main starts App, and the broker, when it does nothing wrong,
\* answers a CONNECT; links need not recover
FairSpec ==
  /\ Spec
  /\ WF_vars(~dead /\ ActorStep)
  /\ WF_vars(~dead /\ AppStarts /\ \A x \in Collectors : collector[x] = "none")
  /\ \A x \in Collectors : WF_vars(~dead /\ Subscribes(x))
  /\ \A c \in Clients : WF_vars(~dead /\ Connected(c))

-----------------------------------------------------------------------------
(* Properties.                                                             *)

(* Whoever is in the map is heard of by the broker once Started is done     *)
(* (pubsub.go:132-134), as long as the link lasts and no SUBSCRIBE fails:   *)
(* also who subscribed with a client that was given up, who found no        *)
(* connection, or who came while the map was read.                          *)
NoSubscriberMissed ==
  (pc = "running" /\ intact) =>
    \A x \in subscriptions :
      x \in asked[client] \cup topics[client] \/ collector[x] \in {"stored", "checked"}

(* A collector that starts is let through in the end, past connects that    *)
(* fail and its own panics (pubsub.go:93, status-actor.go:31,               *)
(* events-actor.go:53), unless the runtime ended the process.               *)
LetThrough == \A x \in Collectors : collector[x] # "accepted" ~> (collector[x] = "accepted" \/ dead)
=============================================================================
