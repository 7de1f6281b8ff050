----------------------------- MODULE MqttClient -----------------------------
(***************************************************************************)
(* The client actor of internal/remote-mqtt: how it gets and keeps a       *)
(* connection, and what its parent, RemoteActor of internal/remote, knows  *)
(* of it.                                                                  *)
(*                                                                         *)
(* The paho clients are external: connect waits 10 s for one that goes on  *)
(* trying for ever (SetConnectRetry(true)) until it is disconnected; a     *)
(* connection that is lost stays down (SetAutoReconnect(false)).  A 30 s   *)
(* tick asks for a new client when the present one is not open.  MsgSendData*)
(* changes nothing here; it is in Remote.  Nothing sets the actor's own    *)
(* retryFlag, so its verifyRetry does nothing.                             *)
(***************************************************************************)
EXTENDS Naturals, Sequences, FiniteSets

CONSTANTS
  Clients,        \* paho clients
  Nil,            \* no client
  MaxFaults,      \* bound on connects that take too long and tokens refused
  MaxRestarts     \* bound on restarts of the actor with its parent

ASSUME ClientsAssumption == Nil \notin Clients
ASSUME BoundsAssumption  == MaxFaults \in Nat /\ MaxRestarts \in Nat

VARIABLES
  link,           \* what each paho client does
  client,         \* field client
  tokenSource,    \* field tokenSource: "stale" when its refresh is refused
  box,            \* mailbox of the actor, without MsgSendData
  wait,           \* the handler that is inside connect
  done,           \* the token of Connect is complete
  note,           \* MsgReconnect is in the mailbox of the parent
  isConnected,    \* field of the parent
  faults, restarts

vars == <<link, client, tokenSource, box, wait, done, note, isConnected, faults, restarts>>

(* Type invariant (remote-actor.go:33-44).                                 *)
TypeOK ==
  /\ link \in [Clients -> {"down", "trying", "open"}]
  /\ client \in Clients \cup {Nil} /\ tokenSource \in {"good", "stale", Nil}
  /\ box \in Seq({"Started", "MsgTick", "reconnectRemote"})
  /\ wait \in {"none", "Started", "reconnectRemote"}
  /\ done \in BOOLEAN /\ note \in BOOLEAN /\ isConnected \in BOOLEAN
  /\ faults \in 0 .. MaxFaults /\ restarts \in 0 .. MaxRestarts

Init ==
  /\ link = [c \in Clients |-> "down"]
  /\ client = Nil /\ tokenSource = Nil
  /\ box = <<"Started">> /\ wait = "none" /\ done = FALSE
  /\ note = FALSE /\ isConnected = FALSE
  /\ faults = 0 /\ restarts = 0

IsConnectionOpen == client # Nil /\ link[client] = "open"

LeftBehind == {c \in Clients \ {client} : link[c] # "down"}

-----------------------------------------------------------------------------
(* The paho clients.                                                       *)

PahoConnects(c) ==
  /\ link[c] = "trying"
  /\ link' = [link EXCEPT ![c] = "open"]
  /\ done' = (done \/ c = client)
  /\ UNCHANGED <<client, tokenSource, box, wait, note, isConnected, faults, restarts>>

PahoLoses(c) ==
  /\ link[c] = "open"
  /\ link' = [link EXCEPT ![c] = "down"]
  /\ UNCHANGED <<client, tokenSource, box, wait, done, note, isConnected, faults, restarts>>

-----------------------------------------------------------------------------
(* The actor.                                                              *)

Fault == faults < MaxFaults /\ faults' = faults + 1

Takes(t) == wait = "none" /\ box # <<>> /\ Head(box) = t

\* a new client, on which the handler calls connect
Connect(handler) ==
  \E c \in Clients \ {client} :
    /\ link[c] = "down"
    /\ link' = [link EXCEPT ![c] = "trying"]
    /\ client' = c
    /\ wait' = handler
    /\ done' = FALSE

\* mutant: Disconnect is called on a client that may be nil
DisconnectUnchecked == link' = [c \in Clients \cup {client} |-> IF c = client THEN "down" ELSE link[c]]

\* ps.client.Disconnect(300), unless nil
Disconnect == link' = [c \in Clients |-> IF c = client THEN "down" ELSE link[c]]

\* the tick goroutine runs once Started is being handled
Tick ==
  /\ \A i \in DOMAIN box : box[i] \notin {"Started", "MsgTick"}
  /\ box' = Append(box, "MsgTick")
  /\ UNCHANGED <<link, client, tokenSource, wait, done, note, isConnected, faults, restarts>>

\* a login makes a source, and its first token
TokenSource == tokenSource' = "good" /\ UNCHANGED faults

\* the source there was is kept
NoToken == Fault /\ UNCHANGED tokenSource

\* mutant: only a missing source is replaced
TokenNilOnly ==
  \/ tokenSource = "good" /\ UNCHANGED <<tokenSource, faults>>
  \/ tokenSource = Nil /\ TokenSource

\* of the source there is, unless it refuses
Token ==
  \/ tokenSource = "good" /\ UNCHANGED <<tokenSource, faults>>
  \/ tokenSource # "good" /\ TokenSource

\* the refresh token of the source expired
TokenExpires ==
  /\ tokenSource = "good"
  /\ tokenSource' = "stale"
  /\ UNCHANGED <<link, client, box, wait, done, note, isConnected, faults, restarts>>

\* Started logs in anyway; without a token the client stays as it is
OnStarted ==
  /\ Takes("Started")
  /\ box' = Tail(box)
  /\ \/ TokenSource /\ Connect("Started")
     \/ NoToken /\ UNCHANGED <<link, client, wait, done>>
  /\ UNCHANGED <<note, isConnected, restarts>>

\* mutant: only a missing client is replaced
OnMsgTickNilOnly ==
  /\ Takes("MsgTick")
  /\ box' = IF client # Nil THEN Tail(box) ELSE Append(Tail(box), "reconnectRemote")
  /\ UNCHANGED <<link, client, tokenSource, wait, done, note, isConnected, faults, restarts>>

OnMsgTick ==
  /\ Takes("MsgTick")
  /\ box' = IF IsConnectionOpen THEN Tail(box) ELSE Append(Tail(box), "reconnectRemote")
  /\ UNCHANGED <<link, client, tokenSource, wait, done, note, isConnected, faults, restarts>>

\* without a token the client there is is disconnected
OnReconnectRemote ==
  /\ Takes("reconnectRemote")
  /\ box' = Tail(box)
  /\ \/ IsConnectionOpen /\ UNCHANGED <<link, client, tokenSource, wait, done, faults>>
     \/ ~IsConnectionOpen /\ Token /\ Connect("reconnectRemote")
     \/ ~IsConnectionOpen /\ NoToken /\ Disconnect /\ UNCHANGED <<client, wait, done>>
  /\ UNCHANGED <<note, isConnected, restarts>>

\* mutant: only the first connection is announced
ConnectReturnsOnce ==
  /\ wait # "none" /\ done
  /\ note' = (note \/ wait = "Started")
  /\ wait' = "none"
  /\ UNCHANGED <<link, client, tokenSource, box, done, isConnected, faults, restarts>>

\* connect saw the token complete: MsgReconnect goes to the parent
ConnectReturns ==
  /\ wait # "none" /\ done
  /\ note' = TRUE
  /\ wait' = "none"
  /\ UNCHANGED <<link, client, tokenSource, box, done, isConnected, faults, restarts>>

\* mutant: the client is not disconnected
ConnectTimesOutKeeps ==
  /\ wait # "none" /\ ~done
  /\ Fault
  /\ wait' = "none"
  /\ UNCHANGED <<link, client, tokenSource, box, done, note, isConnected, restarts>>

\* after 10 s: Started leaves its client trying, reconnectRemote disconnects it
ConnectTimesOut ==
  /\ wait # "none" /\ ~done
  /\ Fault
  /\ wait' = "none"
  /\ IF wait = "reconnectRemote" THEN Disconnect ELSE UNCHANGED link
  /\ UNCHANGED <<client, tokenSource, box, done, note, isConnected, restarts>>

\* the parent, or the App above it, is restarted: the producers return the same
\* two objects, with their fields; the App's restart loses the parent's mailbox
Restart ==
  /\ restarts < MaxRestarts
  /\ restarts' = restarts + 1
  /\ wait = "none"
  /\ box' = <<"Started">>
  /\ note' \in {note, FALSE}
  /\ UNCHANGED <<link, client, tokenSource, wait, done, isConnected, faults>>

-----------------------------------------------------------------------------
(* The parent.                                                             *)

OnMsgReconnect ==
  /\ note
  /\ note' = FALSE
  /\ isConnected' = TRUE
  /\ UNCHANGED <<link, client, tokenSource, box, wait, done, faults, restarts>>

ActorStep ==
  \/ OnStarted
  \/ OnReconnectRemote
  \/ OnMsgTick
  \/ ConnectReturns

Next ==
  \/ \E c \in Clients : PahoConnects(c) \/ PahoLoses(c)
  \/ Tick \/ TokenExpires
  \/ ActorStep
  \/ ConnectTimesOut
  \/ Restart
  \/ OnMsgReconnect

Spec == Init /\ [][Next]_vars

(* Fairness: actors and the ticker are scheduled, and a paho client that is *)
(* left to try connects in the end.  Connections may be lost at any time.   *)
FairSpec ==
  /\ Spec
  /\ WF_vars(ActorStep)
  /\ WF_vars(Tick)
  /\ WF_vars(OnMsgReconnect)
  /\ \A c \in Clients : WF_vars(PahoConnects(c))

-----------------------------------------------------------------------------
(* Safety.                                                                 *)

(* Clients are not piled up at the broker however often connections fail:   *)
(* an incarnation leaves behind at most the client of its Started, and one  *)
(* that ends the client it had (remote-actor.go:100-102, 110-114, 167-170). *)
LeftBehindBounded == Cardinality(LeftBehind) <= 1 + 2 * restarts

(* What RemoteActor reports (internal/remote/remote-actor.go:155, 189), that*)
(* the client is not connected, is so.  Violated: a connection that comes   *)
(* after Started stopped waiting and before the tick is never announced.    *)
NotConnectedIsTrue == wait = "none" /\ ~note /\ ~isConnected => ~IsConnectionOpen

-----------------------------------------------------------------------------
(* Liveness.                                                               *)

(* A client that is not connected is connected in the end, also after       *)
(* connects that took too long, refused tokens and restarts.                *)
EventuallyOpen == ~IsConnectionOpen ~> IsConnectionOpen

(* Once a connection was lost or given up, RemoteActor comes to know of the *)
(* next one, and replays, unless it is restarted before: a connection missed*)
(* at the start is missed no longer than it lasts (remote-actor.go:116,     *)
(* 155-163).                                                                *)
LostIsLearned ==
  \A n \in 0 .. MaxRestarts :
    (client # Nil /\ link[client] = "down" /\ box # <<"Started">> /\ restarts = n)
      ~> (isConnected \/ restarts > n)
=============================================================================
