----------------------------- MODULE DbService -----------------------------
(***************************************************************************)
(* What internal/database promises a client of svc (service.go): requests  *)
(* on one collection, each with a future.                                  *)
(*                                                                         *)
(*   - A request takes effect at most once, atomically, after it was       *)
(*     issued; whoever is answered MsgAck... is answered at that instant.  *)
(*   - A request answered with an error has no effect, now or later.       *)
(*   - A request whose future expired may still take effect, or never.     *)
(*   - What a restart of the process leaves is exactly what took effect.   *)
(***************************************************************************)
EXTENDS Repo

CONSTANTS
  Ids         \* requests, each with its own future

-----------------------------------------------------------------------------
VARIABLES
  contents,   \* the committed collection
  call,       \* what each request asks
  status,     \* "unused", "pending" or "done"
  answer      \* what the future of each request holds

serviceVars == <<contents, call, status, answer>>

ServiceTypeOK ==
  /\ contents \in Contents
  /\ call \in [Ids -> Calls \cup {NoCall}]
  /\ status \in [Ids -> {"unused", "pending", "done"}]
  /\ answer \in [Ids -> Answers]

ServiceInit ==
  /\ contents \in Contents
  /\ call = [i \in Ids |-> NoCall]
  /\ status = [i \in Ids |-> "unused"]
  /\ answer = [i \in Ids |-> "none"]

Issue(i) ==
  /\ status[i] = "unused"
  /\ status' = [status EXCEPT ![i] = "pending"]
  /\ \E r \in Calls : call' = [call EXCEPT ![i] = r]
  /\ UNCHANGED <<contents, answer>>

\* an answer reaches a future that still waits
Settles(i, a) ==
  /\ status[i] = "pending"
  /\ status' = [status EXCEPT ![i] = "done"]
  /\ answer' = [answer EXCEPT ![i] = IF @ = "none" THEN a ELSE @]
  /\ UNCHANGED call

Apply(i) ==
  /\ call[i].op \in DataOps
  /\ LET result == Transaction(contents, call[i]) IN
       /\ contents' = result.contents
       /\ Settles(i, result.answer)

Reject(i) == Settles(i, "error") /\ UNCHANGED contents

Opened(i) == call[i].op = "MsgOpenDB" /\ Settles(i, "opened") /\ UNCHANGED contents

Forget(i) == Settles(i, "none") /\ UNCHANGED contents

Expire(i) ==
  /\ status[i] # "unused"
  /\ answer[i] = "none"
  /\ answer' = [answer EXCEPT ![i] = "expired"]
  /\ UNCHANGED <<contents, call, status>>

\* the process restarts: no request survives it, every effect does
Restart ==
  /\ status' = [i \in Ids |-> IF status[i] = "pending" THEN "done" ELSE status[i]]
  /\ answer' = [i \in Ids |-> IF status[i] # "unused" /\ answer[i] = "none"
                              THEN "expired" ELSE answer[i]]
  /\ UNCHANGED <<contents, call>>

ServiceNext ==
  \/ \E i \in Ids : Issue(i) \/ Apply(i) \/ Reject(i) \/ Opened(i) \/ Forget(i) \/ Expire(i)
  \/ Restart

ServiceSpec == ServiceInit /\ [][ServiceNext]_serviceVars
=============================================================================
