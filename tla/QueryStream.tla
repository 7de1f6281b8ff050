---------------------------- MODULE QueryStream ----------------------------
(***************************************************************************)
(* The streaming query of internal/database: svc.Query (service.go) asks   *)
(* the database actor for the entries of one collection and runs a         *)
(* callback on each.  Four processes take part, for every query q:         *)
(*                                                                         *)
(*   the caller    blocked in svc.Query until it is answered or times out; *)
(*   the child     an actor spawned by svc.Query that runs the callback;   *)
(*   the db actor  inside db.View, walking the collection with a cursor and*)
(*                 handing each entry over an unbuffered channel (QueryData*)
(*                 in repo.go);                                            *)
(*   the forwarder a goroutine of the db actor that takes the entries from *)
(*                 the channel and sends them, one future at a time, to    *)
(*                 the child (actor.go).                                   *)
(*                                                                         *)
(* The db actor also serves MsgUpdateData and MsgDeleteData, strictly in   *)
(* mailbox order and never while it is inside a scan.  Keys are the ids of *)
(* the entries in cursor (byte) order.                                     *)
(***************************************************************************)
EXTENDS Integers, Sequences, FiniteSets

CONSTANTS
  Keys,            \* ids of entries, ordered as bbolt's cursor orders them
  Queries,         \* identities of concurrent calls of svc.Query
  Nobody,          \* no query / no key
  Collections,     \* buckets of the database
  Scanned,         \* the collection the queries read
  Prefixes,        \* sets of keys that share a prefix; Keys for PrefixID = ""
  Directions,      \* values of the argument `reverse`
  ServingAtStart   \* whether the db actor may start in CloseState

Convex(P) == \A i, j \in P, k \in Keys : i <= k /\ k <= j => k \in P

ASSUME KeysAssumption     == Keys \subseteq Nat /\ Nobody \notin Keys
ASSUME QueriesAssumption  == Nobody \notin Queries
ASSUME ScannedAssumption  == Scanned \in Collections
ASSUME ArgumentAssumption == /\ Prefixes \subseteq SUBSET Keys
                             /\ \A P \in Prefixes : Convex(P)
                             /\ Directions \subseteq BOOLEAN
                             /\ ServingAtStart \subseteq BOOLEAN

VARIABLES
  dbox,     \* mailbox of the db actor
  serving,  \* the db actor runs WaitState (else CloseState, which drops data messages)
  store,    \* [Collections -> SUBSET Keys], the committed contents of the file
  scan,     \* the db.View in progress: its query and the keys not yet handed over
  fwd,      \* forwarder of each query and the entry it holds
  child,    \* child actor of each query and the entry its callback runs on
  kbox,     \* mailbox of each child
  caller,   \* caller of each query
  args,     \* prefix and direction captured by each call
  left      \* history: entries of the scan that the callback may still get

streamVars == <<dbox, serving, store, scan, fwd, child, kbox, caller, args, left>>

NoScan == [q |-> Nobody, rest |-> {}]

MsgUpdateData(c, k) == [op |-> "MsgUpdateData", coll |-> c, key |-> k]
MsgDeleteData(c, k) == [op |-> "MsgDeleteData", coll |-> c, key |-> k]
MsgQueryData(q)     == [op |-> "MsgQueryData", q |-> q]

DbMessages == [op : {"MsgUpdateData", "MsgDeleteData"}, coll : Collections, key : Keys]
                \cup [op : {"MsgQueryData"}, q : Queries]

ToChild(t)          == [t |-> t, key |-> Nobody]
MsgQueryResponse(k) == [t |-> "MsgQueryResponse", key |-> k]

ChildMessages == [t : {"start", "MsgAckGetData", "MsgNoAckGetData", "PoisonPill"}, key : {Nobody}]
                   \cup [t : {"MsgQueryResponse"}, key : Keys]

(* Type invariant of the whole query machinery (service.go, actor.go).     *)
StreamTypeOK ==
  /\ dbox \in Seq(DbMessages)
  /\ serving \in BOOLEAN
  /\ store \in [Collections -> SUBSET Keys]
  /\ scan \in [q : Queries \cup {Nobody}, rest : SUBSET Keys]
  /\ fwd \in [Queries -> [st : {"off", "range", "got", "await", "gone", "stuck"},
                          key : Keys \cup {Nobody}]]
  /\ child \in [Queries -> [st : {"stopped", "ready", "busy"}, key : Keys \cup {Nobody}]]
  /\ kbox \in [Queries -> Seq(ChildMessages)]
  /\ caller \in [Queries -> {"idle", "waiting", "returned", "poisoned"}]
  /\ args \in [Queries -> [prefix : SUBSET Keys, reverse : BOOLEAN]]
  /\ left \in [Queries -> SUBSET Keys]

\* what a process starts with, whatever the file holds
StreamFresh ==
  /\ dbox = <<>>
  /\ serving \in ServingAtStart
  /\ scan = NoScan
  /\ fwd = [q \in Queries |-> [st |-> "off", key |-> Nobody]]
  /\ child = [q \in Queries |-> [st |-> "stopped", key |-> Nobody]]
  /\ kbox = [q \in Queries |-> <<>>]
  /\ caller = [q \in Queries |-> "idle"]
  /\ args = [q \in Queries |-> [prefix |-> Keys, reverse |-> FALSE]]
  /\ left = [q \in Queries |-> {}]

StreamInit == StreamFresh /\ store \in [Collections -> SUBSET Keys]

-----------------------------------------------------------------------------
(* The cursor of QueryData.  Forward it seeks the prefix and stops at the  *)
(* first key without it; backward it starts from the last key of the       *)
(* bucket, whatever the prefix (the position of Seek is overwritten by     *)
(* Last), and also stops at the first key without the prefix.              *)

CursorRun(S, a) ==
  IF a.reverse
  THEN {k \in S : \A j \in S : j >= k => j \in a.prefix}
  ELSE S \cap a.prefix

Precedes(q, j, k) == IF args[q].reverse THEN j > k ELSE j < k

IsFirst(q, k, S) == k \in S /\ \A j \in S \ {k} : Precedes(q, k, j)

-----------------------------------------------------------------------------
(* The caller.                                                             *)

\* an identity can name a new call once nothing of an older one is running; a
\* forwarder that is stuck stays for ever and takes part in nothing
Free(q) ==
  /\ child[q].st = "stopped"
  /\ fwd[q].st \in {"off", "gone", "stuck"}
  /\ caller[q] \in {"idle", "poisoned"}
  /\ scan.q # q
  /\ \A i \in DOMAIN dbox : dbox[i] # MsgQueryData(q)

\* svc.Query spawns the child and sends it start with a future
QueryCall(q, a) ==
  /\ Free(q)
  /\ args' = [args EXCEPT ![q] = a]
  /\ child' = [child EXCEPT ![q] = [st |-> "ready", key |-> Nobody]]
  /\ kbox' = [kbox EXCEPT ![q] = <<ToChild("start")>>]
  /\ caller' = [caller EXCEPT ![q] = "waiting"]
  /\ fwd' = [fwd EXCEPT ![q] = [st |-> "off", key |-> Nobody]]
  /\ left' = [left EXCEPT ![q] = {}]
  /\ UNCHANGED <<dbox, serving, store, scan>>

\* the future of start expires; the child is not told
QueryTimeout(q) ==
  /\ caller[q] = "waiting"
  /\ caller' = [caller EXCEPT ![q] = "returned"]
  /\ UNCHANGED <<dbox, serving, store, scan, fwd, child, kbox, args, left>>

\* mutant: the child is never told to stop
SendNoPoison(q) ==
  /\ caller[q] = "returned"
  /\ caller' = [caller EXCEPT ![q] = "poisoned"]
  /\ UNCHANGED <<dbox, serving, store, scan, fwd, child, kbox, args, left>>

\* the deferred `go PoisonFuture(pid)` of svc.Query
SendPoison(q) ==
  /\ caller[q] = "returned"
  /\ caller' = [caller EXCEPT ![q] = "poisoned"]
  /\ kbox' = [kbox EXCEPT ![q] = Append(@, ToChild("PoisonPill"))]
  /\ UNCHANGED <<dbox, serving, store, scan, fwd, child, args, left>>

-----------------------------------------------------------------------------
(* The child actor.                                                        *)

\* an answer to the future of start returns from svc.Query, a late one is lost
AnswerCaller(q) ==
  caller' = [caller EXCEPT ![q] = IF @ = "waiting" THEN "returned" ELSE @]

ChildTakes(q, t) ==
  /\ child[q].st = "ready"
  /\ kbox[q] # <<>>
  /\ Head(kbox[q]).t = t
  /\ kbox' = [kbox EXCEPT ![q] = Tail(@)]

ChildStart(q) ==
  /\ ChildTakes(q, "start")
  /\ dbox' = Append(dbox, MsgQueryData(q))
  /\ UNCHANGED <<serving, store, scan, fwd, child, caller, args, left>>

\* MsgQueryNext goes back before the callback runs
ChildItem(q) ==
  /\ ChildTakes(q, "MsgQueryResponse")
  /\ LET k == Head(kbox[q]).key IN
       /\ child' = [child EXCEPT ![q] = [st |-> "busy", key |-> k]]
       /\ left' = [left EXCEPT ![q] = @ \ {k}]
  /\ fwd' = [fwd EXCEPT ![q].st = IF @ = "await" THEN "range" ELSE @]
  /\ UNCHANGED <<dbox, serving, store, scan, caller, args>>

\* the callback returns: true goes on, false answers the caller with stop
CallbackReturns(q, more) ==
  /\ child[q].st = "busy"
  /\ child' = [child EXCEPT ![q] = [st |-> "ready", key |-> Nobody]]
  /\ IF more THEN UNCHANGED caller ELSE AnswerCaller(q)
  /\ UNCHANGED <<serving, store, scan, fwd, kbox, args, left>>

\* mutant: the end of the data is not passed on to the caller
ChildAckSilent(q) ==
  /\ ChildTakes(q, "MsgAckGetData") \/ ChildTakes(q, "MsgNoAckGetData")
  /\ UNCHANGED <<dbox, serving, store, scan, fwd, child, caller, args, left>>

\* the end of the data, or the error of db.View; either answers the caller
ChildAck(q) ==
  /\ ChildTakes(q, "MsgAckGetData") \/ ChildTakes(q, "MsgNoAckGetData")
  /\ AnswerCaller(q)
  /\ UNCHANGED <<dbox, serving, store, scan, fwd, child, args, left>>

\* a stopped actor's remaining messages are discarded
ChildPoison(q) ==
  /\ child[q].st = "ready"
  /\ kbox[q] # <<>>
  /\ Head(kbox[q]).t = "PoisonPill"
  /\ child' = [child EXCEPT ![q].st = "stopped"]
  /\ kbox' = [kbox EXCEPT ![q] = <<>>]
  /\ left' = [left EXCEPT ![q] = {}]
  /\ UNCHANGED <<dbox, serving, store, scan, fwd, caller, args>>

-----------------------------------------------------------------------------
(* The db actor.                                                           *)

DbReady(op) == scan = NoScan /\ dbox # <<>> /\ Head(dbox).op = op

\* CloseState ignores every data message
DbDrops ==
  /\ ~serving
  /\ dbox # <<>>
  /\ dbox' = Tail(dbox)
  /\ UNCHANGED <<serving, store, scan, fwd, child, kbox, caller, args, left>>

\* CloseState takes MsgOpenedDB and becomes WaitState
DbServes ==
  /\ ~serving
  /\ serving' = TRUE
  /\ UNCHANGED <<dbox, store, scan, fwd, child, kbox, caller, args, left>>

\* PersistData with update = true; ok = FALSE when the transaction fails
DbUpdate(ok) ==
  /\ serving
  /\ DbReady("MsgUpdateData")
  /\ dbox' = Tail(dbox)
  /\ store' = IF ok THEN [store EXCEPT ![Head(dbox).coll] = @ \cup {Head(dbox).key}]
                    ELSE store
  /\ UNCHANGED <<serving, scan, fwd, child, kbox, caller, args, left>>

\* RemoveData
DbDelete(ok) ==
  /\ serving
  /\ DbReady("MsgDeleteData")
  /\ dbox' = Tail(dbox)
  /\ store' = IF ok THEN [store EXCEPT ![Head(dbox).coll] = @ \ {Head(dbox).key}]
                    ELSE store
  /\ UNCHANGED <<serving, scan, fwd, child, kbox, caller, args, left>>

\* MsgQueryData: start the forwarder and open the read transaction
ScanStart ==
  /\ serving
  /\ DbReady("MsgQueryData")
  /\ dbox' = Tail(dbox)
  /\ LET q == Head(dbox).q
         S == CursorRun(store[Scanned], args[q]) IN
       /\ scan' = [q |-> q, rest |-> S]
       /\ left' = [left EXCEPT ![q] = S]
       /\ fwd' = [fwd EXCEPT ![q] = [st |-> "range", key |-> Nobody]]
  /\ UNCHANGED <<serving, store, child, kbox, caller, args>>

\* a message to a child that has stopped is a dead letter
Sent(q, m) == IF child[q].st = "stopped" THEN kbox ELSE [kbox EXCEPT ![q] = Append(@, m)]

\* db.View fails before it runs QueryData, so that data is never closed and the
\* forwarder stays in its range.  Of the errors of bbolt the one that the
\* machine takes for eError, a handle that is not open, can not come while the
\* actor serves (ServingMeansOpen of DbActor).
ScanFails ==
  /\ serving
  /\ DbReady("MsgQueryData")
  /\ dbox' = Tail(dbox)
  /\ LET q == Head(dbox).q IN
       /\ fwd' = [fwd EXCEPT ![q] = [st |-> "stuck", key |-> Nobody]]
       /\ kbox' = Sent(q, ToChild("MsgNoAckGetData"))
  /\ UNCHANGED <<serving, store, scan, child, caller, args, left>>

\* mutant: the cursor always goes forward
ScanHandOffForward ==
  /\ scan.q \in Queries
  /\ fwd[scan.q].st = "range"
  /\ \E k \in scan.rest :
       /\ \A j \in scan.rest : k <= j
       /\ scan' = [scan EXCEPT !.rest = @ \ {k}]
       /\ fwd' = [fwd EXCEPT ![scan.q] = [st |-> "got", key |-> k]]
  /\ UNCHANGED <<dbox, serving, store, child, kbox, caller, args, left>>

\* mutant: an entry is lost on the way to the forwarder
ScanHandOffSkips ==
  /\ scan.q \in Queries
  /\ fwd[scan.q].st = "range"
  /\ \E k \in scan.rest :
       /\ scan' = [scan EXCEPT !.rest = {j \in @ : Precedes(scan.q, k, j)}]
       /\ fwd' = [fwd EXCEPT ![scan.q] = [st |-> "got", key |-> k]]
  /\ UNCHANGED <<dbox, serving, store, child, kbox, caller, args, left>>

\* data <- entry: the unbuffered channel needs the forwarder at its receive
ScanHandOff ==
  /\ scan.q \in Queries
  /\ fwd[scan.q].st = "range"
  /\ \E k \in scan.rest :
       /\ IsFirst(scan.q, k, scan.rest)
       /\ scan' = [scan EXCEPT !.rest = @ \ {k}]
       /\ fwd' = [fwd EXCEPT ![scan.q] = [st |-> "got", key |-> k]]
  /\ UNCHANGED <<dbox, serving, store, child, kbox, caller, args, left>>

\* <-time.After(10 * time.Second): nobody received the entry, and the cursor
\* goes on with the next
ScanSkip ==
  /\ scan.q \in Queries
  /\ \E k \in scan.rest :
       /\ IsFirst(scan.q, k, scan.rest)
       /\ scan' = [scan EXCEPT !.rest = @ \ {k}]
       /\ left' = [left EXCEPT ![scan.q] = @ \ {k}]
  /\ UNCHANGED <<dbox, serving, store, fwd, child, kbox, caller, args>>

\* mutant: the scan also ends while an entry waits for a slow forwarder
ScanEndImpatient ==
  /\ scan.q \in Queries
  /\ scan' = NoScan
  /\ kbox' = Sent(scan.q, ToChild("MsgAckGetData"))
  /\ UNCHANGED <<dbox, serving, store, fwd, child, caller, args, left>>

\* mutant: past its last entry the cursor is back at the first, and only stop ends
\* the walk
ScanEndWraps ==
  /\ scan.q \in Queries
  /\ IF fwd[scan.q].st = "gone"
     THEN scan' = NoScan /\ kbox' = Sent(scan.q, ToChild("MsgAckGetData"))
     ELSE /\ scan.rest = {}
          /\ scan' = [scan EXCEPT !.rest = CursorRun(store[Scanned], args[scan.q])]
          /\ UNCHANGED kbox
  /\ UNCHANGED <<dbox, serving, store, fwd, child, caller, args, left>>

\* end of the cursor or <-stop; data is closed and the child told
ScanEnd ==
  /\ scan.q \in Queries
  /\ scan.rest = {} \/ fwd[scan.q].st = "gone"
  /\ scan' = NoScan
  /\ kbox' = Sent(scan.q, ToChild("MsgAckGetData"))
  /\ UNCHANGED <<dbox, serving, store, fwd, child, caller, args, left>>

-----------------------------------------------------------------------------
(* The forwarder.                                                          *)

\* mutant: Request instead of RequestFuture, nothing waits for MsgQueryNext
ForwarderSendNoWait(q) ==
  /\ fwd[q].st = "got"
  /\ fwd' = [fwd EXCEPT ![q] = [st |-> "range", key |-> Nobody]]
  /\ kbox' = Sent(q, MsgQueryResponse(fwd[q].key))
  /\ UNCHANGED <<dbox, serving, store, scan, child, caller, args, left>>

\* mutant: the message is built after the entry was cleared
ForwarderSendCleared(q) ==
  /\ fwd[q].st = "got"
  /\ fwd' = [fwd EXCEPT ![q] = [st |-> "await", key |-> Nobody]]
  /\ kbox' = [kbox EXCEPT ![q] = Append(@, MsgQueryResponse(fwd'[q].key))]
  /\ UNCHANGED <<dbox, serving, store, scan, child, caller, args, left>>

\* RequestFuture to the child; a dead letter ends the forwarder
ForwarderSend(q) ==
  /\ fwd[q].st = "got"
  /\ IF child[q].st = "stopped"
     THEN /\ fwd' = [fwd EXCEPT ![q] = [st |-> "gone", key |-> Nobody]]
          /\ UNCHANGED kbox
     ELSE /\ fwd' = [fwd EXCEPT ![q] = [st |-> "await", key |-> Nobody]]
          /\ kbox' = [kbox EXCEPT ![q] = Append(@, MsgQueryResponse(fwd[q].key))]
  /\ UNCHANGED <<dbox, serving, store, scan, child, caller, args, left>>

\* the future expires: the deferred function closes stop
ForwarderTimeout(q) ==
  /\ fwd[q].st = "await"
  /\ fwd' = [fwd EXCEPT ![q].st = "gone"]
  /\ UNCHANGED <<dbox, serving, store, scan, child, kbox, caller, args, left>>

\* data is closed: the range loop ends
ForwarderDone(q) ==
  /\ fwd[q].st = "range"
  /\ scan.q # q
  /\ fwd' = [fwd EXCEPT ![q].st = "off"]
  /\ UNCHANGED <<dbox, serving, store, scan, child, kbox, caller, args, left>>

-----------------------------------------------------------------------------
(* The service with any client: writes and deletes may be requested and    *)
(* queries called at any time, and a callback may answer either way.       *)
(* MaxDbox bounds the requests of the clients, not those of the children.  *)

CONSTANT MaxDbox

ASSUME MaxDboxAssumption == MaxDbox \in Nat

Request ==
  /\ Len(dbox) < MaxDbox
  /\ \E k \in Keys : \/ dbox' = Append(dbox, MsgUpdateData(Scanned, k))
                     \/ dbox' = Append(dbox, MsgDeleteData(Scanned, k))
  /\ UNCHANGED <<serving, store, scan, fwd, child, kbox, caller, args, left>>

\* what the goroutines of a query do by themselves, the callback apart
QueryProcesses(q) ==
  \/ SendPoison(q)
  \/ ChildStart(q) \/ ChildItem(q) \/ ChildAck(q) \/ ChildPoison(q)
  \/ ForwarderSend(q) \/ ForwarderTimeout(q) \/ ForwarderDone(q)

AnyCallback(q) == \E more \in BOOLEAN : CallbackReturns(q, more) /\ UNCHANGED dbox

StreamNext ==
  \/ Request
  \/ DbDrops
  \/ DbServes
  \/ \E ok \in BOOLEAN : DbUpdate(ok) \/ DbDelete(ok)
  \/ ScanStart
  \/ ScanFails
  \/ ScanHandOff
  \/ ScanSkip
  \/ ScanEnd
  \/ \E q \in Queries :
       \/ \E P \in Prefixes, r \in Directions :
            QueryCall(q, [prefix |-> P, reverse |-> r])
       \/ QueryTimeout(q)
       \/ QueryProcesses(q)
       \/ AnyCallback(q)

StreamSpec == StreamInit /\ [][StreamNext]_streamVars

\* the db actor dropped MsgQueryData, so only the timeout ends the query
QueryLost(q) ==
  /\ caller[q] = "waiting"
  /\ child[q].st = "ready" /\ kbox[q] = <<>> /\ fwd[q].st = "off"
  /\ scan.q # q
  /\ \A i \in DOMAIN dbox : dbox[i] # MsgQueryData(q)

(* Fairness.  The db actor is scheduled, comes to serve, and its 10 s timer *)
(* fires; of what is left to do for a call, the callback included, which a  *)
(* 5 s future bounds, some is done: a call has finitely many steps.  Neither*)
(* requests nor timeouts of calls that can still be answered are fair.      *)
Scheduled ==
  /\ WF_streamVars(DbServes)
  /\ WF_streamVars(\/ \E ok \in BOOLEAN : DbUpdate(ok) \/ DbDelete(ok)
                   \/ DbDrops \/ ScanStart \/ ScanHandOff \/ ScanSkip \/ ScanEnd)
  /\ \A q \in Queries :
       WF_streamVars(QueryProcesses(q) \/ AnyCallback(q) \/ (QueryLost(q) /\ QueryTimeout(q)))

StreamFairSpec == StreamSpec /\ Scheduled

-----------------------------------------------------------------------------
(* Safety.                                                                 *)

(* The callback sees the entries of the snapshot in cursor order, each at   *)
(* most once and with none passed over but those whose 10 s in the select   *)
(* ran out (repo.go:227): whatever waits in the child's mailbox is the first*)
(* entry it may still get, even after the caller has gone, the forwarder has*)
(* given up or the query was poisoned (actor.go:291-304).                   *)
DeliveredInOrder ==
  \A q \in Queries : \A i \in DOMAIN kbox[q] :
    kbox[q][i].t = "MsgQueryResponse" => IsFirst(q, kbox[q][i].key, left[q])

(* When the end of the scan is the next thing the child reads and the       *)
(* forwarder did not give up, at most one entry, besides those whose 10 s   *)
(* ran out, has not reached the callback: MsgAckGetData can overtake the    *)
(* entry in flight (actor.go:311 against 295), never two.                   *)
AtMostOneOvertaken ==
  \A q \in Queries :
    /\ kbox[q] # <<>>
    /\ Head(kbox[q]).t = "MsgAckGetData"
    /\ fwd[q].st # "gone"
    => \A j, k \in left[q] : j = k

(* Flow control: one entry at a time is in a child's mailbox, because the   *)
(* forwarder waits for MsgQueryNext; a slow callback makes it give up, not  *)
(* pile entries up (actor.go:295-303, service.go:200-202).                  *)
OneEntryInFlight ==
  \A q \in Queries :
    Cardinality({i \in DOMAIN kbox[q] : kbox[q][i].t = "MsgQueryResponse"}) <= 1

-----------------------------------------------------------------------------
(* Liveness.                                                               *)

(* The db actor always comes out of a scan, so the writes queued behind it  *)
(* are served: neither a slow callback, nor a caller that timed out, nor a  *)
(* child poisoned with entries unread can hold the rendezvous for ever,     *)
(* since the forwarder receives, closes stop or lets 10 s go by for each    *)
(* entry, and the end of the cursor waits for nobody (repo.go:216-229).     *)
ScanReleased == \A q \in Queries : scan.q = q ~> scan.q # q

(* svc.Query returns even if its own timeout never fires, unless CloseState *)
(* dropped MsgQueryData: the child is always told of the end of the data or *)
(* of an error, past a callback that outlasts the forwarder's 3 s, a scan   *)
(* that fails and entries nobody received (service.go:206-210).             *)
QueryReturns == \A q \in Queries : caller[q] = "waiting" ~> caller[q] # "waiting"

(* No call leaks its child actor: the deferred PoisonFuture always finds a  *)
(* child that comes back to its mailbox (service.go:217-219).               *)
ChildCollected == \A q \in Queries : child[q].st # "stopped" ~> child[q].st = "stopped"
=============================================================================
