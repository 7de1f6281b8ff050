------------------------------ MODULE DbActor ------------------------------
(***************************************************************************)
(* The database actor of internal/database (actor.go, fsm.go): a state     *)
(* machine around one bbolt file, driven by the actor's mailbox.           *)
(*                                                                         *)
(* The machine and the actor's behaviour change separately: sOpen and      *)
(* sRestart post a message to the actor itself, and WaitState is entered   *)
(* only when MsgOpenedDB comes back through the mailbox.  CloseState       *)
(* drops every data message.  bbolt.Open is called without options, so it  *)
(* blocks for as long as another process holds the lock of the file.       *)
(*                                                                         *)
(* The streaming query is in QueryStream; here every other request.  The   *)
(* 30 s and 100 ms sleeps are inside a step: what arrives meanwhile waits  *)
(* in the mailbox.                                                         *)
(***************************************************************************)
EXTENDS Repo, Sequences, Naturals

CONSTANTS
  Ids,            \* requests of the clients, each with its own future
  Nobody,         \* no sender
  MaxFaults,      \* bound on bbolt.Open failures and failed transactions
  MaxCrashes      \* bound on restarts of the process

ASSUME IdsAssumption   == Nobody \notin Ids
ASSUME FaultAssumption == MaxFaults \in Nat /\ MaxCrashes \in Nat

VARIABLES
  contents,   \* the committed collection in the file
  call,       \* what each request asks
  issued,     \* requests sent so far
  answer,     \* what the future of each request holds
  box,        \* mailbox of the actor
  state,      \* current state of the machine (fsm.go)
  behavior,   \* "CloseState" or "WaitState"
  handle,     \* field db: "nil", "open" or "closed"
  opening,    \* the actor is inside bbolt.Open
  asker,      \* the MsgOpenDB whose handling called it, if it has a sender
  locked,     \* another process holds the lock of the file
  faults, crashes

vars == <<contents, call, issued, answer, box, state, behavior, handle, opening,
          asker, locked, faults, crashes>>

Letter(t, i) == [t |-> t, i |-> i]
Self(t)      == Letter(t, Nobody)

Outcomes == {"MsgOpenedDB", "MsgErrorDB"}

Letters == [t : {"Started"} \cup Outcomes \cup Ops, i : Ids \cup {Nobody}]

(* Type invariant (actor.go:15-24, fsm.go:12-18).                          *)
TypeOK ==
  /\ contents \in Contents
  /\ call \in [Ids -> Calls \cup {NoCall}]
  /\ issued \subseteq Ids
  /\ answer \in [Ids -> Answers]
  /\ box \in Seq(Letters)
  /\ state \in {"sInit", "sOpen", "sWait", "sClose", "sRestart"}
  /\ behavior \in {"CloseState", "WaitState"}
  /\ handle \in {"nil", "open", "closed"}
  /\ opening \in BOOLEAN
  /\ asker \in Ids \cup {Nobody}
  /\ locked \in BOOLEAN
  /\ faults \in 0 .. MaxFaults /\ crashes \in 0 .. MaxCrashes

Init ==
  /\ contents \in Contents
  /\ call = [i \in Ids |-> NoCall]
  /\ issued = {}
  /\ answer = [i \in Ids |-> "none"]
  /\ box = <<Self("Started")>>
  /\ state = "sInit" /\ behavior = "CloseState"
  /\ handle = "nil" /\ opening = FALSE /\ asker = Nobody
  /\ locked \in BOOLEAN
  /\ faults = 0 /\ crashes = 0

-----------------------------------------------------------------------------
(* The clients: svc sends a request with a future, which may expire.       *)

Request(i) ==
  /\ i \notin issued
  /\ issued' = issued \cup {i}
  /\ \E r \in Calls : /\ call' = [call EXCEPT ![i] = r]
                      /\ box' = Append(box, Letter(r.op, i))
  /\ UNCHANGED <<contents, answer, state, behavior, handle, opening, asker, locked,
                 faults, crashes>>

FutureExpires(i) ==
  /\ i \in issued
  /\ answer[i] = "none"
  /\ answer' = [answer EXCEPT ![i] = "expired"]
  /\ UNCHANGED <<contents, call, issued, box, state, behavior, handle, opening, asker, locked,
                 faults, crashes>>

\* ctx.Respond, when the message has a sender
Respond(i, a) ==
  answer' = IF i \in Ids THEN [answer EXCEPT ![i] = IF @ = "none" THEN a ELSE @] ELSE answer

-----------------------------------------------------------------------------
(* The machine (fsm.go).                                                   *)

Fault == faults < MaxFaults /\ faults' = faults + 1

Takes(b, T) == behavior = b /\ ~opening /\ box # <<>> /\ Head(box).t \in T

\* mutant: Close is called on a handle that may be nil
EnterOpenUnchecked ==
  /\ state' = "sOpen"
  /\ handle' = IF handle = "nil" THEN "nil dereference" ELSE "closed"
  /\ opening' = TRUE

\* enter sOpen closes an old handle, then calls bbolt.Open
EnterOpen ==
  /\ state' = "sOpen"
  /\ handle' = IF handle = "nil" THEN "nil" ELSE "closed"
  /\ opening' = TRUE

\* mutant: the restart is not followed by a MsgOpenDB
ErroredSilently(rest) ==
  /\ box' = rest
  /\ IF state \in {"sOpen", "sWait"}
     THEN state' = "sRestart" /\ behavior' = "CloseState"
     ELSE UNCHANGED <<state, behavior>>

\* enter sRestart, for an event eError that is allowed
Errored(rest) ==
  IF state \in {"sOpen", "sWait"}
  THEN /\ state' = "sRestart" /\ behavior' = "CloseState"
       /\ box' = Append(rest, Self("MsgOpenDB"))
  ELSE /\ UNCHANGED <<state, behavior>>
       /\ box' = rest

\* CloseState: Started, or MsgOpenDB with or without a sender
CloseStateOpens ==
  /\ Takes("CloseState", {"Started", "MsgOpenDB"})
  /\ state \in {"sInit", "sClose", "sRestart"}
  /\ EnterOpen
  /\ asker' = Head(box).i
  /\ box' = Tail(box)
  /\ UNCHANGED <<contents, call, issued, answer, behavior, locked, faults, crashes>>

\* mutant: only a file that opened is announced to the client
OpenReturnsSilent(ok) ==
  /\ opening
  /\ opening' = FALSE
  /\ IF ok THEN /\ ~locked
                /\ handle' = "open"
                /\ box' = Append(box, Self("MsgOpenedDB"))
                /\ UNCHANGED faults
           ELSE /\ Fault
                /\ box' = Append(box, Self("MsgErrorDB"))
                /\ UNCHANGED handle
  /\ IF ok THEN Respond(asker, "opened") ELSE UNCHANGED answer
  /\ asker' = Nobody
  /\ UNCHANGED <<contents, call, issued, state, behavior, locked, crashes>>

\* bbolt.Open returns; the handler then answers, since the state is sOpen
OpenReturns(ok) ==
  /\ opening
  /\ opening' = FALSE
  /\ IF ok THEN /\ ~locked
                /\ handle' = "open"
                /\ box' = Append(box, Self("MsgOpenedDB"))
                /\ UNCHANGED faults
           ELSE /\ Fault
                /\ box' = Append(box, Self("MsgErrorDB"))
                /\ UNCHANGED handle
  /\ Respond(asker, "opened")
  /\ asker' = Nobody
  /\ UNCHANGED <<contents, call, issued, state, behavior, locked, crashes>>

\* MsgOpenDB when eOpenCmd is not allowed: answered all the same
AlreadyOpen(b) ==
  /\ Takes(b, {"MsgOpenDB"})
  /\ b = "CloseState" => state \in {"sOpen", "sWait"}
  /\ Respond(Head(box).i, "opened")
  /\ box' = Tail(box)
  /\ UNCHANGED <<contents, call, issued, state, behavior, handle, opening, asker, locked,
                 faults, crashes>>

CloseStateOpened ==
  /\ Takes("CloseState", {"MsgOpenedDB"})
  /\ behavior' = "WaitState"
  /\ state' = IF state = "sOpen" THEN "sWait" ELSE state
  /\ box' = Tail(box)
  /\ UNCHANGED <<contents, call, issued, answer, handle, opening, asker, locked, faults, crashes>>

OnMsgErrorDB(b) ==
  /\ Takes(b, {"MsgErrorDB"})
  /\ Errored(Tail(box))
  /\ UNCHANGED <<contents, call, issued, answer, handle, opening, asker, locked, faults, crashes>>

\* no case of CloseState
CloseStateDrops ==
  /\ Takes("CloseState", DataOps \cup {"MsgCloseDB"})
  /\ box' = Tail(box)
  /\ UNCHANGED <<contents, call, issued, answer, state, behavior, handle, opening, asker, locked,
                 faults, crashes>>

\* mutant: the behaviour stays in WaitState
WaitStateClosesOnly ==
  /\ Takes("WaitState", {"MsgCloseDB"})
  /\ state' = IF state \in {"sOpen", "sWait"} THEN "sClose" ELSE state
  /\ handle' = "nil"
  /\ box' = Tail(box)
  /\ UNCHANGED <<contents, call, issued, answer, behavior, opening, asker, locked, faults, crashes>>

\* MsgClosedDB is never sent: db.Close does not get an answer
WaitStateCloses ==
  /\ Takes("WaitState", {"MsgCloseDB"})
  /\ state' = IF state \in {"sOpen", "sWait"} THEN "sClose" ELSE state
  /\ IF state \in {"sOpen", "sWait"}
     THEN handle' = "nil" /\ behavior' = "CloseState"
     ELSE handle' = "closed" /\ UNCHANGED behavior
  /\ box' = Tail(box)
  /\ UNCHANGED <<contents, call, issued, answer, opening, asker, locked, faults, crashes>>

\* mutant: the request is answered and stays to be run again
WaitStateCommitsAgain ==
  /\ Takes("WaitState", DataOps)
  /\ handle = "open"
  /\ LET i == Head(box).i
         result == Transaction(contents, call[i]) IN
       /\ contents' = result.contents
       /\ Respond(i, result.answer)
  /\ UNCHANGED <<call, issued, box, state, behavior, handle, opening, asker, locked, faults, crashes>>

\* a transaction commits and is answered
WaitStateCommits ==
  /\ Takes("WaitState", DataOps)
  /\ handle = "open"
  /\ LET i == Head(box).i
         result == Transaction(contents, call[i]) IN
       /\ contents' = result.contents
       /\ Respond(i, result.answer)
  /\ box' = Tail(box)
  /\ UNCHANGED <<call, issued, state, behavior, handle, opening, asker, locked, faults, crashes>>

\* bbolt refuses the transaction: any error, or ErrDatabaseNotOpen, which the
\* machine takes for eError
WaitStateFails ==
  /\ Takes("WaitState", DataOps)
  /\ Respond(Head(box).i, "error")
  /\ IF handle = "open"
     THEN Fault /\ box' = Tail(box) /\ UNCHANGED <<state, behavior>>
     ELSE Errored(Tail(box)) /\ UNCHANGED faults
  /\ UNCHANGED <<contents, call, issued, handle, opening, asker, locked, crashes>>

-----------------------------------------------------------------------------
(* Outside the actor.                                                      *)

OtherProcessUnlocks ==
  /\ locked
  /\ locked' = FALSE
  /\ UNCHANGED <<contents, call, issued, answer, box, state, behavior, handle, opening, asker,
                 faults, crashes>>

\* the process dies and Open (actor.go:38-62) makes a new actor on the file
Crash ==
  /\ crashes < MaxCrashes
  /\ crashes' = crashes + 1
  /\ answer' = [i \in Ids |-> IF i \in issued /\ answer[i] = "none" THEN "expired" ELSE answer[i]]
  /\ box' = <<Self("Started")>>
  /\ state' = "sInit" /\ behavior' = "CloseState"
  /\ handle' = "nil" /\ opening' = FALSE /\ asker' = Nobody
  /\ locked' \in BOOLEAN
  /\ UNCHANGED <<contents, call, issued, faults>>

ActorStep ==
  \/ CloseStateOpens
  \/ \E ok \in BOOLEAN : OpenReturns(ok)
  \/ \E b \in {"CloseState", "WaitState"} : AlreadyOpen(b)
  \/ CloseStateOpened
  \/ \E b \in {"CloseState", "WaitState"} : OnMsgErrorDB(b)
  \/ CloseStateDrops
  \/ WaitStateCloses
  \/ WaitStateCommits
  \/ WaitStateFails

Next ==
  \/ \E i \in Ids : Request(i) \/ FutureExpires(i)
  \/ ActorStep
  \/ OtherProcessUnlocks
  \/ Crash

Spec == Init /\ [][Next]_vars

(* Fairness: the actor is scheduled and bbolt.Open returns when the lock is *)
(* free, which it becomes.  Clients need not send anything.                 *)
FairSpec == Spec /\ WF_vars(ActorStep) /\ WF_vars(OtherProcessUnlocks)

-----------------------------------------------------------------------------
(* Safety.                                                                 *)

(* Data messages are run only on an open file: the actor is in WaitState    *)
(* exactly when the machine is in sWait, and then the handle is open.  It   *)
(* is what keeps a.db.Update off a nil or closed handle (actor.go:128, 168, *)
(* 203, 231, 306) although the machine and the behaviour change in separate *)
(* messages.                                                               *)
ServingMeansOpen ==
  /\ behavior = "WaitState" <=> state = "sWait"
  /\ behavior = "WaitState" => handle = "open" /\ ~opening

Count(T) == {n \in DOMAIN box : box[n].t \in T}

(* The machine is never stranded: out of sWait and of a commanded close,    *)
(* the message that takes it further is in the mailbox, and the outcome of  *)
(* bbolt.Open is there exactly once and says what happened (fsm.go:64-89).  *)
NeverStranded ==
  /\ state = "sInit" => \E n \in DOMAIN box : box[n].t = "Started"
  /\ state = "sRestart" => \E n \in DOMAIN box : box[n].t = "MsgOpenDB"
  /\ state = "sOpen" /\ ~opening =>
       \E n \in DOMAIN box :
         /\ box[n].t = IF handle = "open" THEN "MsgOpenedDB" ELSE "MsgErrorDB"
         /\ Count(Outcomes) = {n}
  /\ state # "sOpen" \/ opening => Count(Outcomes) = {}

(* The actor implements the service: every request takes effect at most     *)
(* once, in one step, no later than its answer; an error means no effect;   *)
(* nothing is undone by a failed open, a restart of the machine or a crash. *)
Pending(i) == asker = i \/ \E n \in DOMAIN box : box[n].i = i

RequestStatus == [i \in Ids |-> IF i \notin issued THEN "unused"
                                ELSE IF Pending(i) THEN "pending" ELSE "done"]

Service == INSTANCE DbService WITH status <- RequestStatus

ServiceSpec == Service!ServiceSpec

-----------------------------------------------------------------------------
(* Liveness.                                                               *)

(* After a start, a failed open or a restart of the process, the actor      *)
(* comes to serve unless a client closes it: no order of requests and       *)
(* failures leaves it in CloseState with nothing to wake it.                *)
ComesToServe == state # "sClose" ~> (state = "sWait" \/ state = "sClose")

(* A request to open the file is answered, or its future expires, or it     *)
(* died with the process: the answer is lost in no state of the machine.    *)
OpenAnswered == \A i \in Ids :
  (i \in issued /\ call[i].op = "MsgOpenDB") ~> answer[i] # "none"
=============================================================================
