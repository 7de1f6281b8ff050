-------------------------------- MODULE Nats --------------------------------
(***************************************************************************)
(* The remote actor of internal/remote-natsio, composed with the token     *)
(* actor and App (Keycloak).  It stands where internal/remote stands in the*)
(* shipped program (main.go:70-102); it sends each message itself, at most *)
(* ten times, and keeps nothing: its field db is never set.                *)
(*                                                                         *)
(* To connect it asks App for the address of the token actor, asks that one*)
(* for a token unless it has a valid one, and dials, all in one handler.   *)
(* The nats connections are external: one that is lost goes on by itself,  *)
(* buffers what is published meanwhile, and is given up after two minutes. *)
(* What was put in a socket is in flight until the server stores it, also  *)
(* after the socket was closed or lost, or until it is lost with it.       *)
(*                                                                         *)
(* Time is the age of lastReconnect, in the intervals the code tells apart:*)
(* 0 is below 30 s, 1 below 40 s, 2 below 60 s, 3 anything older.          *)
(***************************************************************************)
EXTENDS Keycloak, FiniteSets

CONSTANTS
  Conns,          \* nats connections
  MaxMessages,    \* bound on messages of the App
  Attempts,       \* of sendMSG to publish a message; 10 in the code
  MaxNotes        \* bound on reconnectRemote in the mailbox

ASSUME NatsAssumption ==
  /\ Nil \notin Conns \cup {"valid", "expired"}
  /\ MaxMessages \in Nat /\ Attempts \in Nat \ {0} /\ MaxNotes \in Nat \ {0}

VARIABLES
  box,            \* mailbox of the remote actor
  pc,             \* what its handler waits for
  handler,        \* the handler that is in connect
  conn, token,    \* its fields
  link,           \* what each connection does
  flight,         \* copies not yet at the server: in the socket of an open
                  \* connection, the buffer of a lost one, or a socket that is gone
  age,            \* of lastReconnect
  cur, try, acked, \* the message in sendMSG, the attempt, its ack is there
  arrived,        \* messages sent by the App so far
  stream,         \* history: what the server stored, the attempt included
  sent            \* history: messages sendMSG reported as sent

natsVars == <<box, pc, handler, conn, token, link, flight, age, cur, try, acked, arrived,
              stream, sent>>
vars == <<keycloakVars, natsVars>>

Messages == 1 .. MaxMessages
Copies   == [m : Messages, try : 1 .. Attempts]

reconnectRemote == [t |-> "reconnectRemote", m |-> 0]
Started         == [t |-> "Started", m |-> 0]
RemoteMSG2(m)   == [t |-> "RemoteMSG2", m |-> m]

IsConnected == conn # Nil /\ link[conn] = "open"

(* Type invariant (remote-actor.go:30-42): what is dialled with is a token. *)
NatsTypeOK ==
  /\ KeycloakTypeOK
  /\ box \in Seq({reconnectRemote, Started} \cup {RemoteMSG2(m) : m \in Messages})
  /\ pc \in {"idle", "address", "token", "dial", "publish", "ack"}
  /\ handler \in {"Started", "reconnectRemote", Nil}
  /\ conn \in Conns \cup {Nil} /\ token \in {"valid", "expired", Nil}
  /\ link \in [Conns -> {"closed", "open", "lost"}]
  /\ flight \subseteq [copy : Copies, on : Conns \cup {Nil}]
  /\ age \in 0 .. 3
  /\ cur \in Messages \cup {0} /\ try \in 0 .. Attempts /\ acked \in BOOLEAN
  /\ arrived \in 0 .. MaxMessages
  /\ stream \in Seq(Copies) /\ sent \subseteq Messages
  /\ pc = "dial" => token # Nil
  /\ \A e \in flight : e.on # Nil => link[e.on] # "closed"

Init ==
  /\ KeycloakInit
  /\ box = <<Started>> /\ pc = "idle" /\ handler = Nil
  /\ conn = Nil /\ token = Nil
  /\ link = [c \in Conns |-> "closed"] /\ flight = {}
  /\ age = 3
  /\ cur = 0 /\ try = 0 /\ acked = FALSE
  /\ arrived = 0 /\ stream = <<>> /\ sent = {}

-----------------------------------------------------------------------------
(* Time, the tickers and the App.                                          *)

Clock ==
  /\ age < 3
  /\ age' = age + 1
  /\ UNCHANGED <<keycloakVars, box, pc, handler, conn, token, link, flight, cur, try, acked,
                 arrived, stream, sent>>

Notes == Len(SelectSeq(box, LAMBDA l : l = reconnectRemote))

\* every 30 s, when the last attempt is older than 60 s
Tick ==
  /\ ~IsConnected /\ age = 3
  /\ Notes < MaxNotes
  /\ box' = Append(box, reconnectRemote)
  /\ UNCHANGED <<keycloakVars, pc, handler, conn, token, link, flight, age, cur, try, acked,
                 arrived, stream, sent>>

Arrive ==
  /\ arrived < MaxMessages
  /\ arrived' = arrived + 1
  /\ box' = Append(box, RemoteMSG2(arrived + 1))
  /\ UNCHANGED <<keycloakVars, pc, handler, conn, token, link, flight, age, cur, try, acked,
                 stream, sent>>

-----------------------------------------------------------------------------
(* The connections.                                                        *)

\* the socket of c is gone, and what it held is in flight all the same
Adrift(c) == {IF e.on = c THEN [e EXCEPT !.on = Nil] ELSE e : e \in flight}

Unsent(c) == {e \in flight : e.on # c}

Loses(c) ==
  /\ link[c] = "open"
  /\ Fault
  /\ link' = [link EXCEPT ![c] = "lost"]
  /\ flight' = Adrift(c)
  /\ UNCHANGED <<abox, forward, kbox, serving, keyc, tokenSource, future, groupID,
                 box, pc, handler, conn, token, age, cur, try, acked,
                 arrived, stream, sent>>

\* what was buffered goes into the new socket
Resumes(c) ==
  /\ link[c] = "lost"
  /\ link' = [link EXCEPT ![c] = "open"]
  /\ UNCHANGED <<keycloakVars, box, pc, handler, conn, token, flight, age, cur, try, acked,
                 arrived, stream, sent>>

\* after 60 attempts; the buffer goes with it
GivesUp(c) ==
  /\ link[c] = "lost"
  /\ link' = [link EXCEPT ![c] = "closed"]
  /\ flight' = Unsent(c)
  /\ UNCHANGED <<keycloakVars, box, pc, handler, conn, token, age, cur, try, acked,
                 arrived, stream, sent>>

\* conn.Close() drops what was buffered, and recalls nothing from the socket
Close(c) ==
  /\ link' = IF c = Nil THEN link ELSE [link EXCEPT ![c] = "closed"]
  /\ flight' = IF c = Nil THEN flight ELSE IF link[c] = "open" THEN Adrift(c) ELSE Unsent(c)

\* a socket keeps the order in which copies were put into it
Reaches(e) ==
  /\ e.on # Nil => link[e.on] = "open"
  /\ e.on # Nil => \A d \in flight : d.on = e.on =>
       \/ d.copy.m > e.copy.m
       \/ d.copy.m = e.copy.m /\ d.copy.try >= e.copy.try

\* the attempt that waits, and no other, has its own inbox for the ack
Awaited(e) == pc = "ack" /\ link[conn] = "open" /\ e.copy = [m |-> cur, try |-> try]

Stores(e) ==
  /\ Reaches(e)
  /\ flight' = flight \ {e}
  /\ stream' = Append(stream, e.copy)
  /\ acked' = (acked \/ Awaited(e))
  /\ UNCHANGED <<keycloakVars, box, pc, handler, conn, token, link, age, cur, try, arrived, sent>>

\* the server does not store it; a copy that is lost with its socket stays in flight
Vanishes(e) ==
  /\ e.on # Nil
  /\ Reaches(e)
  /\ Fault
  /\ flight' = flight \ {e}
  /\ UNCHANGED <<abox, forward, kbox, serving, keyc, tokenSource, future, groupID,
                 box, pc, handler, conn, token, link, age, cur, try, acked,
                 arrived, stream, sent>>

-----------------------------------------------------------------------------
(* connect().                                                              *)

Takes(l) == pc = "idle" /\ box # <<>> /\ Head(box) = l /\ box' = Tail(box)

\* a connection that is up is closed, then App is asked for the token actor
AsksAddress(h) ==
  /\ IF IsConnected THEN Close(conn) ELSE UNCHANGED <<link, flight>>
  /\ pc' = "address" /\ handler' = h
  /\ abox' = Append(abox, Letter("KeycloakAddressRequest", "Remote"))
  /\ future' = [future EXCEPT !["Remote"] = "waiting"]

\* what the handler does with an error of connect(); a failed dial leaves no
\* connection to close, and the one before it to itself
Fails(c) ==
  /\ pc' = "idle" /\ handler' = Nil
  /\ IF handler = "reconnectRemote" THEN Close(c) ELSE UNCHANGED <<link, flight>>

OnStarted ==
  /\ Takes(Started)
  /\ AsksAddress("Started")
  /\ UNCHANGED <<forward, kbox, serving, keyc, tokenSource, groupID, faults,
                 conn, token, age, cur, try, acked, arrived, stream, sent>>

\* mutant: a failed connect is not tried again later
OnReconnectRemoteOnce ==
  /\ Takes(reconnectRemote)
  /\ IF IsConnected \/ age = 0 \/ token = Nil
     THEN UNCHANGED <<abox, future, pc, handler, link, flight, age>>
     ELSE AsksAddress("reconnectRemote") /\ age' = 0
  /\ UNCHANGED <<forward, kbox, serving, keyc, tokenSource, groupID, faults,
                 conn, token, cur, try, acked, arrived, stream, sent>>

\* lastReconnect is set before the attempt
OnReconnectRemote ==
  /\ Takes(reconnectRemote)
  /\ IF IsConnected \/ age = 0
     THEN UNCHANGED <<abox, future, pc, handler, link, flight, age>>
     ELSE AsksAddress("reconnectRemote") /\ age' = 0
  /\ UNCHANGED <<forward, kbox, serving, keyc, tokenSource, groupID, faults,
                 conn, token, cur, try, acked, arrived, stream, sent>>

\* a token is asked for anew when there is none or its time is over, which only
\* shows here
HasAddress ==
  /\ pc = "address" /\ future["Remote"] = "address"
  /\ \/ /\ token = "valid"
        /\ pc' = "dial"
        /\ future' = [future EXCEPT !["Remote"] = "none"]
        /\ UNCHANGED <<token, kbox>>
     \/ /\ pc' = "token"
        /\ token' = IF token = Nil THEN Nil ELSE "expired"
        /\ future' = [future EXCEPT !["Remote"] = "waiting"]
        /\ kbox' = Append(kbox, Letter("TokenRequest", "Remote"))
  /\ UNCHANGED <<abox, forward, serving, keyc, tokenSource, groupID, faults,
                 box, handler, conn, link, flight, age, cur, try, acked, arrived,
                 stream, sent>>

\* mutant: the nil token is not noticed
HasTokenUnchecked ==
  /\ pc = "token" /\ future["Remote"] \in {"token", "nilToken"}
  /\ token' = IF future["Remote"] = "token" THEN "valid" ELSE Nil
  /\ future' = [future EXCEPT !["Remote"] = "none"]
  /\ pc' = "dial" /\ UNCHANGED <<handler, link, flight>>
  /\ UNCHANGED <<abox, forward, kbox, serving, keyc, tokenSource, groupID, faults,
                 box, conn, age, cur, try, acked, arrived, stream, sent>>

\* the nil token is stored, and is an error
HasToken ==
  /\ pc = "token" /\ future["Remote"] \in {"token", "nilToken"}
  /\ token' = IF future["Remote"] = "token" THEN "valid" ELSE Nil
  /\ future' = [future EXCEPT !["Remote"] = "none"]
  /\ IF token' = Nil THEN Fails(conn) ELSE pc' = "dial" /\ UNCHANGED <<handler, link, flight>>
  /\ UNCHANGED <<abox, forward, kbox, serving, keyc, tokenSource, groupID, faults,
                 box, conn, age, cur, try, acked, arrived, stream, sent>>

\* the 6 s future of either request
RequestExpires ==
  /\ pc \in {"address", "token"}
  /\ Expires("Remote")
  /\ Fails(conn)
  /\ UNCHANGED <<forward, keyc, tokenSource, groupID,
                 box, conn, token, age, cur, try, acked, arrived, stream, sent>>

\* a connection nothing is known of; Conns bounds those that are up or lost at a time
Fresh == CHOOSE c \in Conns : link[c] = "closed"

\* nats.Connect: what it returns replaces the connection there was, which is
\* closed only by an error that came earlier
Dial(ok) ==
  /\ pc = "dial"
  /\ IF ok THEN /\ \E c \in Conns : link[c] = "closed"
                /\ conn' = Fresh
                /\ link' = [link EXCEPT ![Fresh] = "open"]
                /\ pc' = "idle" /\ handler' = Nil
                /\ UNCHANGED <<flight, faults>>
           ELSE Fault /\ conn' = Nil /\ Fails(Nil)
  /\ UNCHANGED <<abox, forward, kbox, serving, keyc, tokenSource, future, groupID,
                 box, token, age, cur, try, acked, arrived, stream, sent>>

-----------------------------------------------------------------------------
(* RemoteMSG2 and sendMSG.                                                 *)

\* nothing is kept of the message; a reconnect is asked for when the last is old enough
SendError ==
  /\ pc' = "idle" /\ cur' = 0 /\ try' = 0

AskedAgain(b) == IF age >= 2 THEN Append(b, reconnectRemote) ELSE b

OnRemoteMSG2(m) ==
  /\ pc = "idle" /\ box # <<>> /\ Head(box) = RemoteMSG2(m)
  /\ IF IsConnected
     THEN /\ pc' = "publish" /\ cur' = m /\ try' = 1
          /\ box' = Tail(box)
     ELSE SendError /\ box' = AskedAgain(Tail(box))
  /\ UNCHANGED <<keycloakVars, handler, conn, token, link, flight, age, acked, arrived,
                 stream, sent>>

\* sendMSG looks at the connection again, and reconnects as for any error
SendRefused ==
  /\ pc = "publish" /\ try = 1 /\ link[conn] # "open"
  /\ Close(conn)
  /\ SendError
  /\ box' = AskedAgain(box)
  /\ UNCHANGED <<keycloakVars, handler, conn, token, age, acked, arrived, stream, sent>>

\* mutant: published without waiting for the ack
PublishAsync ==
  /\ pc = "publish"
  /\ sent' = sent \cup {cur}
  /\ pc' = "idle" /\ cur' = 0 /\ try' = 0
  /\ flight' = IF link[conn] = "closed" THEN flight
               ELSE flight \cup {[copy |-> [m |-> cur, try |-> try], on |-> conn]}
  /\ UNCHANGED <<keycloakVars, box, handler, conn, token, link, age, acked, arrived, stream>>

\* into the socket, or the buffer of a connection that was lost meanwhile; one
\* that was given up refuses it
Publish ==
  /\ pc = "publish"
  /\ pc' = "ack"
  /\ flight' = IF link[conn] = "closed" THEN flight
               ELSE flight \cup {[copy |-> [m |-> cur, try |-> try], on |-> conn]}
  /\ UNCHANGED <<keycloakVars, box, handler, conn, token, link, age, cur, try, acked, arrived,
                 stream, sent>>

PublishAcked ==
  /\ pc = "ack" /\ acked
  /\ sent' = sent \cup {cur}
  /\ pc' = "idle" /\ cur' = 0 /\ try' = 0 /\ acked' = FALSE
  /\ UNCHANGED <<keycloakVars, box, handler, conn, token, link, flight, age, arrived,
                 stream>>

\* no ack within 5 s: it was late or lost, the socket holds the copy that long, or
\* there is nothing to acknowledge
NoAck ==
  /\ pc = "ack" /\ acked' = FALSE
  /\ IF acked \/ \E e \in flight : Awaited(e) THEN Fault ELSE UNCHANGED faults

\* mutant: attempts are not counted
PublishAgainUncounted ==
  /\ NoAck
  /\ try < Attempts
  /\ pc' = "publish"
  /\ UNCHANGED <<abox, forward, kbox, serving, keyc, tokenSource, future, groupID, try,
                 box, handler, conn, token, link, flight, age, cur, arrived, stream, sent>>

PublishAgain ==
  /\ NoAck
  /\ try < Attempts
  /\ try' = try + 1 /\ pc' = "publish"
  /\ UNCHANGED <<abox, forward, kbox, serving, keyc, tokenSource, future, groupID,
                 box, handler, conn, token, link, flight, age, cur, arrived, stream, sent>>

\* mutant: the error of the last attempt is not looked at
PublishFailsSilently ==
  /\ NoAck
  /\ try = Attempts
  /\ sent' = sent \cup {cur}
  /\ pc' = "idle" /\ cur' = 0 /\ try' = 0
  /\ UNCHANGED <<abox, forward, kbox, serving, keyc, tokenSource, future, groupID,
                 box, handler, conn, token, link, flight, age, arrived, stream>>

\* the last attempt failed: the connection is closed
PublishFails ==
  /\ NoAck
  /\ try = Attempts
  /\ Close(conn)
  /\ SendError
  /\ box' = AskedAgain(box)
  /\ UNCHANGED <<abox, forward, kbox, serving, keyc, tokenSource, future, groupID,
                 handler, conn, token, age, arrived, stream, sent>>

-----------------------------------------------------------------------------
RemoteStep ==
  \/ OnStarted \/ OnReconnectRemote \/ HasAddress \/ HasToken \/ RequestExpires
  \/ \E ok \in BOOLEAN : Dial(ok)
  \/ \E m \in Messages : OnRemoteMSG2(m)
  \/ SendRefused \/ Publish \/ PublishAcked \/ PublishAgain \/ PublishFails

Environment ==
  \/ Clock \/ Tick \/ Arrive
  \/ \E c \in Conns : Loses(c) \/ Resumes(c) \/ GivesUp(c)
  \/ \E e \in flight : Stores(e) \/ Vanishes(e)

Next == RemoteStep \/ Environment \/ (KeycloakNext /\ UNCHANGED natsVars)

Spec == Init /\ [][Next]_vars

\* actors take what is in their mailboxes, futures expire, tickers tick, a
\* status comes while the group is not known, what is in an open socket arrives;
\* links need not recover
FairSpec ==
  /\ Spec
  /\ WF_vars(RemoteStep) /\ WF_vars(Clock) /\ WF_vars(Tick)
  /\ WF_vars(\E e \in flight : e.on # Nil /\ Stores(e))
  /\ WF_vars(AppStep /\ UNCHANGED natsVars)
  /\ WF_vars(KeycStep /\ UNCHANGED natsVars)
  /\ WF_vars(StatusStep /\ UNCHANGED natsVars)

-----------------------------------------------------------------------------
(* Properties.                                                             *)

(* Before anything of a later message, the stream has a message that sendMSG*)
(* reported as sent: the ack it went by was of that message and not of an   *)
(* earlier one, whose copies may still come out of a stalled or a closed    *)
(* socket, behind later messages (client-nats.go:83-92,                     *)
(* remote-actor.go:173-174).                                                *)
SentPrecedesLater ==
  \A m \in sent : \A i \in DOMAIN stream : stream[i].m > m =>
    \E j \in DOMAIN stream : j < i /\ stream[j].m = m

(* However often a message is published, buffered, held up in a socket and  *)
(* acknowledged too late, the stream has at most one copy of it per attempt *)
(* (client-nats.go:83-92).                                                  *)
CopiesBounded ==
  \A m \in Messages : Cardinality({i \in DOMAIN stream : stream[i].m = m}) <= Attempts

(* A message sendMSG reported as sent is in the stream: there is no other   *)
(* copy of it (client-nats.go:94-98).                                       *)
SentIsStored == \A m \in sent : \E i \in DOMAIN stream : stream[i].m = m

(* Whatever was lost, refused, answered too late or with a nil token, the   *)
(* remote gets a connection again (remote-actor.go:196, 243).               *)
EventuallyConnected == ~IsConnected ~> IsConnected

(* StatusActor gets its group in the end, through App, which may be waiting *)
(* for the token actor while StatusActor has left (status-actor.go:59-78).  *)
GroupLearned == <>(groupID # Nil)

(* App is never blocked for good by the token actor (app-actor.go:137): it  *)
(* takes its other messages again.                                          *)
AppFreed == forward # Nil ~> forward = Nil
=============================================================================
