------------------------------- MODULE Remote -------------------------------
(***************************************************************************)
(* The store-and-forward actor of internal/remote, composed with the       *)
(* database service it stores into (QueryStream).                          *)
(*                                                                         *)
(* A RemoteMSG2 is sent to the client actor at once; when that fails it is *)
(* written under the current time as id.  A replay walks the stored entries*)
(* with svc.Query and sends each to the client; the callback runs in the   *)
(* child actor of the query, concurrently with RemoteActor once the query  *)
(* has returned.  Replays start from a ticker, from MsgReconnect and, when *)
(* one stopped at its count limit, from a retry ticker.                    *)
(*                                                                         *)
(* A message is named by the id it is, or would be, stored under: ids come *)
(* from the clock, so they grow in the order in which messages arrive.     *)
(* The MQTT client is external here: it takes one MsgSendData at a time and*)
(* answers MsgAck or MsgError, or answers too late for the 5 s future.     *)
(***************************************************************************)
EXTENDS QueryStream

CONSTANTS
  Direct,         \* the request of RemoteActor itself, beside those of queries
  Dated,          \* the collection of expired entries ("events_20060102")
  Limit,          \* entries of one replay; 30 in the code
  DisableReplay,  \* flag -disableRetransmission
  RetryDays,      \* flag -retryDays; 0 keeps every entry replayable
  Legacy,         \* entries already in the file when the program starts
  BadIds,         \* those of them whose id is not a number
  MaxFaults,      \* bound on timeouts, refusals and failed transactions
  MaxCrashes      \* bound on restarts of the process

ASSUME RemoteAssumption ==
  /\ Dated \in Collections /\ Dated # Scanned
  /\ Direct \notin Queries /\ Direct # Nobody
  /\ Limit \in Nat /\ RetryDays \in Nat /\ DisableReplay \in BOOLEAN
  /\ Legacy \subseteq Keys /\ BadIds \subseteq Legacy
  /\ \A k \in Legacy, m \in Keys \ Legacy : k < m
  /\ MaxFaults \in Nat /\ MaxCrashes \in Nat

VARIABLES
  mbox,            \* mailbox of RemoteActor
  pc,              \* what the handler of RemoteMSG2 waits for
  cur,             \* the message it works on
  isConnected, retryFlag, isDatabaseOpen,   \* fields of RemoteActor
  count,           \* count captured by the callback of each query
  calling,         \* the callback waits for the client
  cbox,            \* mailbox of the client actor
  old,             \* ids older than RetryDays
  arrived,         \* messages the App has sent so far
  published,       \* history: messages the client published
  refused,         \* history: direct sends answered MsgError, not published
  dropped,         \* history: messages that were neither sent nor stored
  unarchived,      \* history: expired entries whose copy could not be written
  faults, crashes

remoteVars == <<mbox, pc, cur, isConnected, retryFlag, isDatabaseOpen, count, calling,
                cbox, old, arrived, published, refused, dropped, unarchived, faults, crashes>>
vars == <<streamVars, remoteVars>>

Messages == Keys \ Legacy

Note(t)       == [t |-> t, m |-> Nobody]
RemoteMSG2(m) == [t |-> "RemoteMSG2", m |-> m]
MsgSendData(m, from) == [m |-> m, from |-> from]

Senders == Queries \cup {Direct, Nobody}

(* Type invariant of RemoteActor and its client (remote-actor.go:33-47).   *)
RemoteTypeOK ==
  /\ StreamTypeOK
  /\ mbox \in Seq([t : {"verifyReplay", "verifyRetry", "MsgReconnect"}, m : {Nobody}]
                    \cup [t : {"RemoteMSG2"}, m : Messages])
  /\ pc \in {"idle", "sending", "saving"}
  /\ cur \in Messages \cup {Nobody}
  /\ isConnected \in BOOLEAN /\ retryFlag \in BOOLEAN /\ isDatabaseOpen \in BOOLEAN
  /\ count \in [Queries -> 0 .. Limit + 1]
  /\ calling \in [Queries -> BOOLEAN]
  /\ cbox \in Seq([m : Keys, from : Senders])
  /\ old \subseteq Keys /\ published \subseteq Keys /\ unarchived \subseteq Keys
  /\ arrived \subseteq Messages /\ refused \subseteq Messages /\ dropped \subseteq Messages
  /\ faults \in 0 .. MaxFaults /\ crashes \in 0 .. MaxCrashes

\* what a process starts with, first or again
Fresh ==
  /\ mbox = <<>> /\ pc = "idle" /\ cur = Nobody
  /\ isConnected = FALSE /\ retryFlag = FALSE
  /\ isDatabaseOpen \in BOOLEAN
  /\ serving => isDatabaseOpen
  /\ count = [q \in Queries |-> 0]
  /\ calling = [q \in Queries |-> FALSE]
  /\ cbox = <<>>

Init ==
  /\ StreamFresh
  /\ store = [c \in Collections |-> IF c = Scanned THEN Legacy ELSE {}]
  /\ Fresh
  /\ old = {} /\ arrived = {} /\ published = {} /\ refused = {} /\ dropped = {} /\ unarchived = {}
  /\ faults = 0 /\ crashes = 0

-----------------------------------------------------------------------------
(* What reaches the mailbox of RemoteActor.  The tickers and the client add *)
(* a note only when none waits, which bounds the mailbox; once connected, a *)
(* further MsgReconnect does what verifyReplay does and is left out.        *)

Idle == pc = "idle" /\ \A q \in Queries : caller[q] # "waiting"

NoteWaits == \E i \in DOMAIN mbox : mbox[i].t # "RemoteMSG2"

\* the App forwards the next message
Arrive ==
  /\ \E m \in Messages \ arrived :
       /\ \A n \in Messages \ arrived : m <= n
       /\ arrived' = arrived \cup {m}
       /\ mbox' = Append(mbox, RemoteMSG2(m))
  /\ UNCHANGED <<streamVars, pc, cur, isConnected, retryFlag, isDatabaseOpen, count, calling,
                 cbox, old, published, refused, dropped, unarchived, faults, crashes>>

Notify(t) ==
  /\ ~NoteWaits
  /\ mbox' = Append(mbox, Note(t))
  /\ UNCHANGED <<streamVars, pc, cur, isConnected, retryFlag, isDatabaseOpen, count, calling,
                 cbox, old, arrived, published, refused, dropped, unarchived, faults, crashes>>

TickReplay == Notify("verifyReplay")
TickRetry  == Notify("verifyRetry")
Reconnect  == ~isConnected /\ Notify("MsgReconnect")

\* an id grows older than RetryDays
Age(k) ==
  /\ RetryDays > 0 /\ k \notin old
  /\ \A j \in Keys : j < k => j \in old
  /\ old' = old \cup {k}
  /\ UNCHANGED <<streamVars, mbox, pc, cur, isConnected, retryFlag, isDatabaseOpen, count,
                 calling, cbox, arrived, published, refused, dropped, unarchived, faults, crashes>>

-----------------------------------------------------------------------------
(* RemoteActor.                                                            *)

Takes(t) == Idle /\ mbox # <<>> /\ Head(mbox).t = t

\* db.Open when the database is not known to be open.  It may answer an error
\* only while the db actor is not serving, and may answer MsgOpenedDB even then.
OpenDatabase == /\ isDatabaseOpen' \in BOOLEAN
                /\ isDatabaseOpen \/ serving => isDatabaseOpen'

\* lastRetry is never assigned, so the 6 s test always passes
VerifyRetry ==
  /\ Takes("verifyRetry")
  /\ mbox' = IF retryFlag THEN Append(Tail(mbox), Note("verifyReplay")) ELSE Tail(mbox)
  /\ UNCHANGED <<streamVars, pc, cur, isConnected, retryFlag, isDatabaseOpen, count, calling,
                 cbox, old, arrived, published, refused, dropped, unarchived, faults, crashes>>

\* mutant: the connection is not remembered
OnMsgReconnectForgets ==
  /\ Takes("MsgReconnect")
  /\ mbox' = Append(Tail(mbox), Note("verifyReplay"))
  /\ UNCHANGED <<streamVars, pc, cur, isConnected, retryFlag, isDatabaseOpen, count, calling, cbox,
                 old, arrived, published, refused, dropped, unarchived, faults, crashes>>

OnMsgReconnect ==
  /\ Takes("MsgReconnect")
  /\ mbox' = Append(Tail(mbox), Note("verifyReplay"))
  /\ isConnected' = TRUE
  /\ UNCHANGED <<streamVars, pc, cur, retryFlag, isDatabaseOpen, count, calling, cbox, old,
                 arrived, published, refused, dropped, unarchived, faults, crashes>>

VerifyReplay ==
  /\ Takes("verifyReplay")
  /\ mbox' = Tail(mbox)
  /\ retryFlag' = FALSE
  /\ OpenDatabase
  /\ IF isDatabaseOpen'
     THEN \E q \in Queries : /\ QueryCall(q, [prefix |-> Keys, reverse |-> FALSE])
                             /\ count' = [count EXCEPT ![q] = 0]
     ELSE UNCHANGED <<streamVars, count>>
  /\ UNCHANGED <<pc, cur, isConnected, calling, cbox, old, arrived, published, refused,
                 dropped, unarchived, faults, crashes>>

\* the fall-back of the handler of RemoteMSG2 for message m
Backup(m) ==
  /\ OpenDatabase
  /\ IF isDatabaseOpen' /\ ~DisableReplay
     THEN /\ dbox' = Append(dbox, MsgUpdateData(Scanned, m))
          /\ pc' = "saving" /\ cur' = m
          /\ UNCHANGED dropped
     ELSE /\ pc' = "idle" /\ cur' = Nobody
          /\ dropped' = dropped \cup {m}
          /\ UNCHANGED dbox

\* RemoteMSG2: the message goes to the client, or to the store if not connected
OnRemoteMSG2 ==
  /\ Takes("RemoteMSG2")
  /\ mbox' = Tail(mbox)
  /\ LET m == Head(mbox).m IN
       IF isConnected
       THEN /\ pc' = "sending" /\ cur' = m
            /\ cbox' = Append(cbox, MsgSendData(m, Direct))
            /\ UNCHANGED <<dbox, dropped, isDatabaseOpen>>
       ELSE Backup(m) /\ UNCHANGED cbox
  /\ UNCHANGED <<serving, store, scan, fwd, child, kbox, caller, args, left,
                 isConnected, retryFlag, count, calling, old, arrived, published, refused,
                 unarchived, faults, crashes>>

Fault == faults < MaxFaults /\ faults' = faults + 1

\* an answer that comes later finds nobody
Orphan(s) == [i \in DOMAIN cbox |-> IF cbox[i].from = s
                                    THEN [cbox[i] EXCEPT !.from = Nobody] ELSE cbox[i]]

DirectTimeout ==
  /\ pc = "sending"
  /\ Fault
  /\ cbox' = Orphan(Direct)
  /\ Backup(cur)
  /\ UNCHANGED <<serving, store, scan, fwd, child, kbox, caller, args, left, mbox,
                 isConnected, retryFlag, count, calling, old, arrived, published, refused,
                 unarchived, crashes>>

\* the write stays in the mailbox of the db actor
SaveTimeout ==
  /\ pc = "saving"
  /\ pc' = "idle" /\ cur' = Nobody
  /\ UNCHANGED <<streamVars, mbox, isConnected, retryFlag, isDatabaseOpen, count, calling, cbox,
                 old, arrived, published, refused, dropped, unarchived, faults, crashes>>

-----------------------------------------------------------------------------
(* The db actor, with the answer to the future of db.Update.               *)

Answered(w) == pc = "saving" /\ w = MsgUpdateData(Scanned, cur)

SaveAnswer(w) ==
  /\ pc' = IF Answered(w) THEN "idle" ELSE pc
  /\ cur' = IF Answered(w) THEN Nobody ELSE cur

\* a write that does not happen
Unwritten(w) ==
  /\ dropped' = IF w.coll = Scanned THEN dropped \cup {w.key} ELSE dropped
  /\ unarchived' = IF w.coll = Dated THEN unarchived \cup {w.key} ELSE unarchived

RemoteDbUpdate(ok) ==
  /\ DbUpdate(ok)
  /\ SaveAnswer(Head(dbox))
  /\ IF ok THEN UNCHANGED <<dropped, unarchived, faults>> ELSE Unwritten(Head(dbox)) /\ Fault
  /\ UNCHANGED <<mbox, isConnected, retryFlag, isDatabaseOpen, count, calling, cbox, old, arrived,
                 published, refused, crashes>>

RemoteDbDelete(ok) ==
  /\ DbDelete(ok)
  /\ IF ok THEN UNCHANGED faults ELSE Fault
  /\ UNCHANGED <<mbox, pc, cur, isConnected, retryFlag, isDatabaseOpen, count, calling, cbox, old,
                 arrived, published, refused, dropped, unarchived, crashes>>

RemoteDbDrops ==
  /\ DbDrops
  /\ IF Head(dbox).op = "MsgUpdateData" THEN Unwritten(Head(dbox))
                                        ELSE UNCHANGED <<dropped, unarchived>>
  /\ UNCHANGED <<mbox, pc, cur, isConnected, retryFlag, isDatabaseOpen, count, calling, cbox, old,
                 arrived, published, refused, faults, crashes>>

\* db.View fails; the child answers the caller with the error
RemoteScanFails ==
  /\ ScanFails
  /\ Fault
  /\ UNCHANGED <<mbox, pc, cur, isConnected, retryFlag, isDatabaseOpen, count, calling, cbox, old,
                 arrived, published, refused, dropped, unarchived, crashes>>

\* the 10 s of an entry run out.  A forwarder that lives receives or closes stop
\* within the 3 s of its future, unless the process stalls: that is a fault.
RemoteScanSkip ==
  /\ ScanSkip
  /\ IF fwd[scan.q].st = "gone" THEN UNCHANGED faults ELSE Fault
  /\ UNCHANGED <<mbox, pc, cur, isConnected, retryFlag, isDatabaseOpen, count, calling, cbox, old,
                 arrived, published, refused, dropped, unarchived, crashes>>

-----------------------------------------------------------------------------
(* The callback of verifyReplay, in the child actor of query q.            *)

AtEntry(q) == child[q].st = "busy" /\ ~calling[q]

\* mutant: the limit is not looked at
OverLimitNever(q) == FALSE

OverLimit(q) == count[q] > Limit

CallbackLimit(q) ==
  /\ AtEntry(q)
  /\ OverLimit(q)
  /\ retryFlag' = TRUE
  /\ CallbackReturns(q, FALSE)
  /\ UNCHANGED <<dbox, mbox, pc, cur, isConnected, isDatabaseOpen, count, calling, cbox, old,
                 arrived, published, refused, dropped, unarchived, faults, crashes>>

Counted(q) == ~OverLimit(q) /\ count' = [count EXCEPT ![q] = @ + 1]

Expired(k) == RetryDays > 0 /\ k \in old

CallbackBadId(q) ==
  /\ AtEntry(q)
  /\ Counted(q)
  /\ child[q].key \in BadIds
  /\ dbox' = Append(dbox, MsgDeleteData(Scanned, child[q].key))
  /\ CallbackReturns(q, TRUE)
  /\ UNCHANGED <<mbox, pc, cur, isConnected, retryFlag, isDatabaseOpen, calling, cbox, old,
                 arrived, published, refused, dropped, unarchived, faults, crashes>>

\* mutant: an expired entry is deleted without a copy
CallbackExpiredNoCopy(q) ==
  /\ AtEntry(q)
  /\ Counted(q)
  /\ child[q].key \notin BadIds
  /\ Expired(child[q].key)
  /\ dbox' = Append(dbox, MsgDeleteData(Scanned, child[q].key))
  /\ CallbackReturns(q, TRUE)
  /\ UNCHANGED <<mbox, pc, cur, isConnected, retryFlag, isDatabaseOpen, calling, cbox, old,
                 arrived, published, refused, dropped, unarchived, faults, crashes>>

\* mutant: the entry is deleted before its copy is written
CallbackExpiredDeletesFirst(q) ==
  /\ AtEntry(q)
  /\ Counted(q)
  /\ child[q].key \notin BadIds
  /\ Expired(child[q].key)
  /\ dbox' = dbox \o <<MsgDeleteData(Scanned, child[q].key), MsgUpdateData(Dated, child[q].key)>>
  /\ CallbackReturns(q, TRUE)
  /\ UNCHANGED <<mbox, pc, cur, isConnected, retryFlag, isDatabaseOpen, calling, cbox, old,
                 arrived, published, refused, dropped, unarchived, faults, crashes>>

\* UpdateAsync, then DeleteWithoutResponse: neither outcome is awaited
CallbackExpired(q) ==
  /\ AtEntry(q)
  /\ Counted(q)
  /\ child[q].key \notin BadIds
  /\ Expired(child[q].key)
  /\ dbox' = dbox \o <<MsgUpdateData(Dated, child[q].key), MsgDeleteData(Scanned, child[q].key)>>
  /\ CallbackReturns(q, TRUE)
  /\ UNCHANGED <<mbox, pc, cur, isConnected, retryFlag, isDatabaseOpen, calling, cbox, old,
                 arrived, published, refused, dropped, unarchived, faults, crashes>>

Replayable(q) == child[q].key \notin BadIds /\ ~Expired(child[q].key)

CallbackOffline(q) ==
  /\ AtEntry(q)
  /\ Counted(q)
  /\ Replayable(q)
  /\ ~isConnected
  /\ CallbackReturns(q, FALSE)
  /\ UNCHANGED <<dbox, mbox, pc, cur, isConnected, retryFlag, isDatabaseOpen, calling, cbox, old,
                 arrived, published, refused, dropped, unarchived, faults, crashes>>

CallbackSend(q) ==
  /\ AtEntry(q)
  /\ Counted(q)
  /\ Replayable(q)
  /\ isConnected
  /\ calling' = [calling EXCEPT ![q] = TRUE]
  /\ cbox' = Append(cbox, MsgSendData(child[q].key, q))
  /\ UNCHANGED <<streamVars, mbox, pc, cur, isConnected, retryFlag, isDatabaseOpen, old,
                 arrived, published, refused, dropped, unarchived, faults, crashes>>

\* mutant: an expired future is taken for MsgAck
ReplayTimeoutDeletes(q) ==
  /\ calling[q]
  /\ Fault
  /\ calling' = [calling EXCEPT ![q] = FALSE]
  /\ cbox' = Orphan(q)
  /\ dbox' = Append(dbox, MsgDeleteData(Scanned, child[q].key))
  /\ CallbackReturns(q, TRUE)
  /\ UNCHANGED <<mbox, pc, cur, isConnected, retryFlag, isDatabaseOpen, count, old,
                 arrived, published, refused, dropped, unarchived, crashes>>

ReplayTimeout(q) ==
  /\ calling[q]
  /\ Fault
  /\ calling' = [calling EXCEPT ![q] = FALSE]
  /\ cbox' = Orphan(q)
  /\ CallbackReturns(q, FALSE)
  /\ UNCHANGED <<dbox, mbox, pc, cur, isConnected, retryFlag, isDatabaseOpen, count, old,
                 arrived, published, refused, dropped, unarchived, crashes>>

-----------------------------------------------------------------------------
(* The client actor: sendMSG publishes and answers MsgAck, or answers       *)
(* MsgError, having published all the same when it stopped waiting too soon.*)

ClientServes(ack, out) ==
  /\ cbox # <<>>
  /\ ack => out
  /\ cbox' = Tail(cbox)
  /\ IF ack THEN UNCHANGED faults ELSE Fault
  /\ published' = IF out THEN published \cup {Head(cbox).m} ELSE published

\* both answers end the direct send: .Wait() looks at the timeout only
DirectAnswer(ack, out) ==
  /\ ClientServes(ack, out)
  /\ Head(cbox).from = Direct
  /\ pc' = "idle" /\ cur' = Nobody
  /\ refused' = IF out THEN refused ELSE refused \cup {cur}
  /\ UNCHANGED <<streamVars, mbox, isConnected, retryFlag, isDatabaseOpen, count, calling, old,
                 arrived, dropped, unarchived, crashes>>

\* mutant: the entry goes whatever the client answered
ReplayAnswerIgnoresError(q, ack, out) ==
  /\ ClientServes(ack, out)
  /\ Head(cbox).from = q
  /\ calling' = [calling EXCEPT ![q] = FALSE]
  /\ dbox' = Append(dbox, MsgDeleteData(Scanned, child[q].key))
  /\ CallbackReturns(q, TRUE)
  /\ UNCHANGED <<mbox, pc, cur, isConnected, retryFlag, isDatabaseOpen, count, old,
                 arrived, refused, dropped, unarchived, crashes>>

\* mutant: the entry stays after MsgAck
ReplayAnswerKeeps(q, ack, out) ==
  /\ ClientServes(ack, out)
  /\ Head(cbox).from = q
  /\ calling' = [calling EXCEPT ![q] = FALSE]
  /\ CallbackReturns(q, ack)
  /\ UNCHANGED <<dbox, mbox, pc, cur, isConnected, retryFlag, isDatabaseOpen, count, old,
                 arrived, refused, dropped, unarchived, crashes>>

\* the callback: MsgAck deletes the entry, MsgError ends the query
ReplayAnswer(q, ack, out) ==
  /\ ClientServes(ack, out)
  /\ Head(cbox).from = q
  /\ calling' = [calling EXCEPT ![q] = FALSE]
  /\ dbox' = IF ack THEN Append(dbox, MsgDeleteData(Scanned, child[q].key)) ELSE dbox
  /\ CallbackReturns(q, ack)
  /\ UNCHANGED <<mbox, pc, cur, isConnected, retryFlag, isDatabaseOpen, count, old,
                 arrived, refused, dropped, unarchived, crashes>>

LateAnswer(ack, out) ==
  /\ ClientServes(ack, out)
  /\ Head(cbox).from = Nobody
  /\ UNCHANGED <<streamVars, mbox, pc, cur, isConnected, retryFlag, isDatabaseOpen, count, calling,
                 old, arrived, refused, dropped, unarchived, crashes>>

-----------------------------------------------------------------------------
(* The process dies and starts again: the file is all that stays.          *)

Stored == UNION {store[c] : c \in Collections}

\* messages that only the memory of the process holds
InMemory == {m \in Messages : \/ m = cur
                              \/ \E i \in DOMAIN mbox : mbox[i].m = m
                              \/ \E i \in DOMAIN dbox : dbox[i] = MsgUpdateData(Scanned, m)}

Crash ==
  /\ crashes < MaxCrashes
  /\ crashes' = crashes + 1
  /\ dbox' = <<>> /\ serving' \in ServingAtStart
  /\ scan' = NoScan
  /\ fwd' = [q \in Queries |-> [st |-> "off", key |-> Nobody]]
  /\ child' = [q \in Queries |-> [st |-> "stopped", key |-> Nobody]]
  /\ kbox' = [q \in Queries |-> <<>>]
  /\ caller' = [q \in Queries |-> "idle"]
  /\ left' = [q \in Queries |-> {}]
  /\ mbox' = <<>> /\ pc' = "idle" /\ cur' = Nobody
  /\ isConnected' = FALSE /\ retryFlag' = FALSE
  /\ isDatabaseOpen' \in BOOLEAN /\ (serving' => isDatabaseOpen')
  /\ count' = [q \in Queries |-> 0]
  /\ calling' = [q \in Queries |-> FALSE]
  /\ cbox' = <<>>
  /\ dropped' = dropped \cup (InMemory \ (Stored \cup published))
  /\ UNCHANGED <<store, args, old, arrived, published, refused, unarchived, faults>>

-----------------------------------------------------------------------------

\* steps of the query machinery that RemoteActor's own state does not take part in
Machinery ==
  /\ DbServes \/ ScanStart \/ ScanHandOff \/ ScanEnd \/ \E q \in Queries : QueryProcesses(q)
  /\ UNCHANGED remoteVars

\* a timeout of a query that goes on counts as a fault
RemoteQueryTimeout(q) ==
  /\ QueryTimeout(q)
  /\ IF QueryLost(q) THEN UNCHANGED faults ELSE Fault
  /\ UNCHANGED <<mbox, pc, cur, isConnected, retryFlag, isDatabaseOpen, count, calling, cbox, old,
                 arrived, published, refused, dropped, unarchived, crashes>>

Callback(q) == \/ CallbackLimit(q) \/ CallbackBadId(q) \/ CallbackExpired(q)
               \/ CallbackOffline(q) \/ CallbackSend(q)

Answer(ack, out) == \/ DirectAnswer(ack, out)
                    \/ \E q \in Queries : ReplayAnswer(q, ack, out)
                    \/ LateAnswer(ack, out)

Next ==
  \/ Arrive \/ TickReplay \/ TickRetry \/ Reconnect
  \/ \E k \in Keys : Age(k)
  \/ VerifyRetry \/ OnMsgReconnect \/ VerifyReplay \/ OnRemoteMSG2
  \/ DirectTimeout \/ SaveTimeout
  \/ \E ok \in BOOLEAN : RemoteDbUpdate(ok) \/ RemoteDbDelete(ok)
  \/ RemoteDbDrops \/ RemoteScanFails \/ RemoteScanSkip
  \/ \E q \in Queries : Callback(q) \/ ReplayTimeout(q) \/ RemoteQueryTimeout(q)
  \/ \E ack, out \in BOOLEAN : Answer(ack, out)
  \/ Machinery
  \/ Crash

Spec == Init /\ [][Next]_vars

(* Fairness.  Actors and goroutines with work are scheduled, the database   *)
(* comes to serve, the client answers every request, and timers fire that   *)
(* nothing stops.  The tickers share the one place the model has for notes, *)
(* so that of verifyReplay needs strong fairness to be heard.  Faults are   *)
(* bounded, so in the end the client publishes and transactions commit.     *)
(* Nothing makes the client announce a connection, and nothing decides the  *)
(* race of the last entry of a scan with the end of the data: the liveness  *)
(* properties below name what they need of either.                          *)

RemoteActorStep == VerifyRetry \/ OnMsgReconnect \/ VerifyReplay \/ OnRemoteMSG2 \/ SaveTimeout

DbActorStep ==
  \/ \E ok \in BOOLEAN : RemoteDbUpdate(ok) \/ RemoteDbDelete(ok)
  \/ RemoteDbDrops
  \/ RemoteScanSkip
  \/ (ScanStart \/ ScanHandOff \/ ScanEnd) /\ UNCHANGED remoteVars

\* a call has finitely many steps, so that some of them are taken is enough
QueryStep(q) ==
  \/ Callback(q)
  \/ QueryLost(q) /\ RemoteQueryTimeout(q)
  \/ QueryProcesses(q) /\ UNCHANGED remoteVars

Fairness ==
  /\ WF_vars(RemoteActorStep)
  /\ WF_vars(DbServes /\ UNCHANGED remoteVars)
  /\ WF_vars(DbActorStep)
  /\ \A q \in Queries : WF_vars(QueryStep(q))
  /\ WF_vars(\E ack, out \in BOOLEAN : Answer(ack, out))
  /\ SF_vars(TickReplay)

FairSpec == Spec /\ Fairness

-----------------------------------------------------------------------------
(* Safety.                                                                 *)

(* An entry leaves the replay collection only when the client has published *)
(* it, it has been archived or its copy could not be written, or its id is  *)
(* not a number: never because a replay, a stale callback or a restart took *)
(* it for sent (remote-actor.go:141-174).                                   *)
RemovedOnlyWhenSafe ==
  [][\A k \in store[Scanned] \ store'[Scanned] :
       k \in published \cup store[Dated] \cup BadIds \cup unarchived]_vars

(* Conservation: a message the App sent, or an earlier process left in the  *)
(* file under a readable id, is queued, being worked on, about to be        *)
(* written, stored, archived or published, or it was lost for a reason the  *)
(* code spells out: refused on the direct path, no open database, a failed  *)
(* or dropped write, a crash (remote-actor.go:118-218).                     *)
Accounted ==
  arrived \cup (Legacy \ BadIds) \subseteq
    InMemory \cup Stored \cup published \cup refused \cup dropped \cup unarchived

(* What the flags promise (main.go:44-45): unless retransmission is disabled*)
(* a message the client answered with MsgError, as the client of            *)
(* internal/remote/tests does, is kept for retransmission.  Violated.       *)
RefusedIsKept == ~DisableReplay => refused \subseteq Stored \cup InMemory

-----------------------------------------------------------------------------
(* Liveness.                                                               *)

\* RemoteActor knows of the connection or is about to be told.  That it comes to
\* is up to the client: it is not when the connection came after the client had
\* stopped waiting for it (NotConnectedIsTrue of MqttClient is violated).
Told == isConnected \/ \E i \in DOMAIN mbox : mbox[i].t = "MsgReconnect"

\* the end of the data is read, and svc.Query returns, with the last entry still
\* on its way (actor.go:311 against 295); the poison may then come before it
Overtaken ==
  \E q \in Queries : /\ caller[q] = "waiting" /\ kbox[q] # <<>>
                     /\ Head(kbox[q]).t = "MsgAckGetData"
                     /\ left[q] # {} /\ fwd[q].st # "gone"

(* Every message of the App is in the end published or archived, or lost    *)
(* for one of the reasons above: it does not stay in the store, in a        *)
(* mailbox, or behind a replay that stopped for good.  It takes a client    *)
(* that announces its connection, again after each restart, and ends of data*)
(* that do not overtake an entry for ever (remote-actor.go:115-218).        *)
EventuallySettled ==
  []<>Told /\ <>[]~Overtaken =>
    \A m \in Messages :
      m \in arrived ~> m \in published \cup refused \cup dropped \cup unarchived \cup store[Dated]

(* The store is drained in the end, on the same two conditions, also past a *)
(* replay cut at its limit and a callback that outlives its query beside the*)
(* next replay, which clears the retryFlag it sets (remote-actor.go:110-182)*)
Drained ==
  []<>Told /\ <>[]~Overtaken => (store[Scanned] # {} ~> store[Scanned] = {})
=============================================================================
