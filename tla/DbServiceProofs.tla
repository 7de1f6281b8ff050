--------------------------- MODULE DbServiceProofs ---------------------------
(***************************************************************************)
(* The database actor implements the service: DbActor under the mapping    *)
(* RequestStatus is DbService, for any set of requests and keys and any    *)
(* number of faults and crashes.                                           *)
(***************************************************************************)
EXTENDS DbActorProofs

\* a request is in one place: one letter, or bbolt.Open on its behalf
OnePlace ==
  /\ \A m, n \in DOMAIN box : box[m].i \in Ids /\ box[m].i = box[n].i => m = n
  /\ \A n \in DOMAIN box : box[n].i = asker => asker = Nobody

\* while bbolt.Open runs, and only then, a MsgOpenDB that was taken has its sender
AskerWaits ==
  asker # Nobody =>
    opening /\ asker \in issued /\ call[asker].op = "MsgOpenDB"

ServiceInv == Inv /\ OnePlace /\ AskerWaits

-----------------------------------------------------------------------------
(* What the mailbox does to the status of the requests.                    *)

(* Taking a letter ends its request if it is somebody's, and nothing else   *)
(* (actor.go:64-68).                                                        *)
LEMMA StatusAfterTail ==
  ASSUME ServiceInv, box # <<>>, box' = Tail(box), asker' = asker, issued' = issued
  PROVE  /\ OnePlace'
         /\ Head(box).i \in Ids =>
              /\ RequestStatus[Head(box).i] = "pending"
              /\ RequestStatus' = [RequestStatus EXCEPT ![Head(box).i] = "done"]
         /\ Head(box).i \notin Ids => RequestStatus' = RequestStatus
<1> USE IdsAssumption
<1>1. box \in Seq(Letters) /\ issued \subseteq Ids
  BY DEF ServiceInv, Inv, TypeOK
<1>2. /\ Head(box) = box[1] /\ 1 \in DOMAIN box
      /\ \A n \in DOMAIN box : n \in Nat /\ (n # 1 => n - 1 \in DOMAIN Tail(box))
      /\ \A n \in DOMAIN Tail(box) : /\ n + 1 \in DOMAIN box /\ n + 1 # 1 /\ n \in Nat
                                     /\ Tail(box)[n] = box[n + 1]
  BY <1>1, TailOfBox
<1>3. OnePlace'
  <2>1. \A m, n \in DOMAIN Tail(box) :
          Tail(box)[m].i \in Ids /\ Tail(box)[m].i = Tail(box)[n].i => m = n
    BY <1>2 DEF ServiceInv, OnePlace
  <2>2. \A n \in DOMAIN Tail(box) : Tail(box)[n].i = asker => asker = Nobody
    BY <1>2 DEF ServiceInv, OnePlace
  <2> QED BY <2>1, <2>2 DEF OnePlace
<1>4. ASSUME NEW j \in Ids
      PROVE  Pending(j)' <=> Pending(j) /\ j # Head(box).i
  <2>1. ASSUME Pending(j), j # Head(box).i PROVE Pending(j)'
    <3>1. CASE \E n \in DOMAIN box : box[n].i = j
      <4>1. PICK n \in DOMAIN box : box[n].i = j
        BY <3>1
      <4>2. n # 1
        BY <1>2, <2>1, <4>1
      <4>3. n - 1 \in DOMAIN Tail(box) /\ Tail(box)[n - 1] = box[n]
        BY <1>2, <4>2
      <4> QED BY <4>1, <4>3 DEF Pending
    <3> QED BY <2>1, <3>1 DEF Pending
  <2>2. ASSUME Pending(j)' PROVE Pending(j) /\ j # Head(box).i
    <3>1. CASE asker = j
      BY <1>2, <3>1 DEF ServiceInv, OnePlace, Pending
    <3>2. CASE \E n \in DOMAIN Tail(box) : Tail(box)[n].i = j
      BY <1>2, <3>2 DEF ServiceInv, OnePlace, Pending
    <3> QED BY <2>2, <3>1, <3>2 DEF Pending
  <2> QED BY <2>1, <2>2
<1>5. ASSUME Head(box).i \in Ids
      PROVE  /\ RequestStatus[Head(box).i] = "pending"
             /\ RequestStatus' = [RequestStatus EXCEPT ![Head(box).i] = "done"]
  <2>1. Head(box).i \in issued /\ Pending(Head(box).i)
    BY <1>2, <1>5 DEF ServiceInv, Inv, AllLabelled, Labelled, Pending
  <2> QED BY <1>4, <1>5, <2>1 DEF RequestStatus
<1>6. ASSUME Head(box).i \notin Ids PROVE RequestStatus' = RequestStatus
  BY <1>4, <1>6 DEF RequestStatus
<1> QED BY <1>3, <1>5, <1>6

(* A letter of the actor to itself, sent after the first one was taken or   *)
(* not, is no request (fsm.go:64-89).                                       *)
LEMMA StatusAfterSelf ==
  ASSUME NEW s \in Seq(Letters), NEW x \in {"MsgOpenDB"} \cup Outcomes,
         \A m, n \in DOMAIN s : s[m].i \in Ids /\ s[m].i = s[n].i => m = n,
         \A n \in DOMAIN s : s[n].i = asker' => asker' = Nobody,
         box' = Append(s, Self(x))
  PROVE  /\ OnePlace'
         /\ \A j \in Ids : Pending(j)' <=> asker' = j \/ \E n \in DOMAIN s : s[n].i = j
<1> USE IdsAssumption
<1>1. Self(x) \in Letters /\ Self(x).i = Nobody
  BY Messages DEF Self, Letter, Ops
<1>2. /\ Len(s) + 1 \in DOMAIN box' /\ box'[Len(s) + 1].i = Nobody
      /\ \A n \in DOMAIN s : n \in DOMAIN box' /\ box'[n] = s[n]
      /\ \A n \in DOMAIN box' : n \in DOMAIN s \/ n = Len(s) + 1
  BY <1>1, AppendToBox
<1> QED BY <1>2 DEF OnePlace, Pending

(* The service runs the transactions of the actor.                          *)
LEMMA SameTransaction ==
  /\ \A c, r : Service!Transaction(c, r) = Transaction(c, r)
  /\ Service!DataOps = DataOps /\ Service!Calls = Calls /\ Service!NoCall = NoCall
  /\ Service!Contents = Contents
<1>1. Service!DataOps = DataOps
  BY DEF Service!DataOps, DataOps
<1>2. \A c, k : /\ \A b : Service!PersistData(c, k, b) = PersistData(c, k, b)
               /\ Service!RemoveData(c, k) = RemoveData(c, k)
               /\ Service!GetData(c, k) = GetData(c, k)
               /\ Service!SearchCollections(c) = SearchCollections(c)
  BY DEF Service!PersistData, PersistData, Service!RemoveData, RemoveData, Service!GetData,
         GetData, Service!SearchCollections, SearchCollections
<1>3. \A c, r : Service!Transaction(c, r) = Transaction(c, r)
  BY <1>2 DEF Service!Transaction, Transaction
<1>4. Service!Calls = Calls
  BY DEF Service!Calls, Calls, Service!Ops, Ops, Service!DataOps, DataOps
<1> QED BY <1>1, <1>3, <1>4 DEF Service!NoCall, NoCall, Service!Contents, Contents

-----------------------------------------------------------------------------
(* Each step of the actor is one of the service, or none.                  *)

ServiceStutter == UNCHANGED <<contents, call, RequestStatus, answer>>

ServiceStep == Service!ServiceNext \/ ServiceStutter

\* what a step has to establish, besides Inv, which NextInv does
StepsTo == OnePlace' /\ AskerWaits' /\ ServiceStep

LEMMA RequestRefines == ASSUME ServiceInv, NEW i \in Ids, Request(i) PROVE StepsTo
<1> USE IdsAssumption
<1>1. PICK r \in Calls : call' = [call EXCEPT ![i] = r] /\ box' = Append(box, Letter(r.op, i))
  BY DEF Request
<1>2. Letter(r.op, i) \in Letters /\ Letter(r.op, i).i = i
  BY Messages DEF Calls
<1>3. /\ box \in Seq(Letters) /\ i \notin issued /\ issued' = issued \cup {i}
      /\ asker' = asker /\ opening' = opening /\ call \in [Ids -> Calls \cup {NoCall}]
  BY DEF Request, ServiceInv, Inv, TypeOK
<1>4. /\ Len(box) + 1 \in DOMAIN box' /\ box'[Len(box) + 1].i = i
      /\ \A n \in DOMAIN box : n \in DOMAIN box' /\ box'[n] = box[n]
      /\ \A n \in DOMAIN box' : n \in DOMAIN box \/ n = Len(box) + 1
  BY <1>1, <1>2, <1>3, AppendToBox
<1>5. \A n \in DOMAIN box : box[n].i \in Ids => box[n].i \in issued
  BY DEF ServiceInv, Inv, AllLabelled, Labelled
<1>6. OnePlace'
  BY <1>3, <1>4, <1>5 DEF ServiceInv, OnePlace, AskerWaits
<1>7. AskerWaits'
  BY <1>1, <1>3 DEF ServiceInv, AskerWaits
<1>8. RequestStatus[i] = "unused" /\ RequestStatus' = [RequestStatus EXCEPT ![i] = "pending"]
  <2>1. \A j \in Ids : Pending(j)' <=> Pending(j) \/ j = i
    BY <1>3, <1>4 DEF Pending
  <2> QED BY <1>3, <2>1 DEF RequestStatus
<1>9. Service!Issue(i)
  BY <1>1, <1>8, SameTransaction DEF Service!Issue, Request
<1> QED BY <1>6, <1>7, <1>9 DEF StepsTo, ServiceStep, Service!ServiceNext

LEMMA FutureExpiresRefines == ASSUME ServiceInv, NEW i \in Ids, FutureExpires(i) PROVE StepsTo
<1>1. OnePlace' /\ AskerWaits' /\ RequestStatus' = RequestStatus
  BY DEF ServiceInv, OnePlace, AskerWaits, RequestStatus, Pending, FutureExpires
<1>2. Service!Expire(i)
  BY <1>1 DEF Service!Expire, FutureExpires, RequestStatus
<1> QED BY <1>1, <1>2 DEF StepsTo, ServiceStep, Service!ServiceNext

\* the request is now where bbolt.Open will answer it
LEMMA CloseStateOpensRefines == ASSUME ServiceInv, CloseStateOpens PROVE StepsTo
<1> USE IdsAssumption
<1>1. /\ box \in Seq(Letters) /\ box # <<>> /\ box' = Tail(box) /\ asker' = Head(box).i
      /\ Head(box).t \in {"Started", "MsgOpenDB"} /\ opening' /\ ~opening
  BY DEF CloseStateOpens, Takes, EnterOpen, ServiceInv, Inv, TypeOK
<1>2. /\ Head(box) = box[1] /\ 1 \in DOMAIN box
      /\ \A n \in DOMAIN box : n \in Nat /\ (n # 1 => n - 1 \in DOMAIN Tail(box)
                                                     /\ Tail(box)[n - 1] = box[n])
      /\ \A n \in DOMAIN Tail(box) : /\ n + 1 \in DOMAIN box /\ n + 1 # 1 /\ n \in Nat
                                     /\ Tail(box)[n] = box[n + 1]
  BY <1>1, TailOfBox
<1>3. Head(box).i \in Ids \cup {Nobody} /\ asker = Nobody
  BY <1>1, TailOfBox DEF ServiceInv, AskerWaits, Letters
<1>4. OnePlace'
  <2>1. \A m, n \in DOMAIN Tail(box) :
          Tail(box)[m].i \in Ids /\ Tail(box)[m].i = Tail(box)[n].i => m = n
    BY <1>2 DEF ServiceInv, OnePlace
  <2>2. \A n \in DOMAIN Tail(box) : Tail(box)[n].i = Head(box).i => Head(box).i = Nobody
    BY <1>2, <1>3 DEF ServiceInv, OnePlace
  <2> QED BY <1>1, <2>1, <2>2 DEF OnePlace
<1>5. AskerWaits'
  <2>1. ASSUME Head(box).i \in Ids
        PROVE  Head(box).i \in issued /\ call[Head(box).i].op = "MsgOpenDB"
    <3>1. Labelled(Head(box))
      BY <1>2 DEF ServiceInv, Inv, AllLabelled
    <3> QED BY <1>1, <2>1, <3>1 DEF Labelled, Calls, Ops, DataOps
  <2> QED BY <1>1, <1>3, <2>1 DEF AskerWaits, CloseStateOpens
<1>6. \A j \in Ids : Pending(j)' <=> Pending(j)
  BY <1>1, <1>2, <1>3 DEF Pending
<1>7. ServiceStutter
  BY <1>6 DEF ServiceStutter, RequestStatus, CloseStateOpens
<1> QED BY <1>4, <1>5, <1>7 DEF StepsTo, ServiceStep

LEMMA OpenReturnsRefines == ASSUME ServiceInv, NEW ok \in BOOLEAN, OpenReturns(ok) PROVE StepsTo
<1> USE IdsAssumption
<1>1. PICK x \in Outcomes : box' = Append(box, Self(x))
  BY DEF OpenReturns, Outcomes
<1>2. /\ box \in Seq(Letters) /\ asker' = Nobody /\ Respond(asker, "opened")
      /\ UNCHANGED <<contents, call, issued>> /\ asker \in Ids \cup {Nobody}
      /\ answer \in [Ids -> Answers]
  BY DEF OpenReturns, ServiceInv, Inv, TypeOK
<1>3. OnePlace' /\ \A j \in Ids : Pending(j)' <=> \E n \in DOMAIN box : box[n].i = j
  BY <1>1, <1>2, StatusAfterSelf DEF ServiceInv, OnePlace
<1>4. AskerWaits'
  BY <1>2 DEF AskerWaits
<1>5. ASSUME asker = Nobody PROVE ServiceStutter
  BY <1>2, <1>3, <1>5 DEF ServiceStutter, RequestStatus, Pending, Respond
<1>6. ASSUME asker \in Ids PROVE Service!Opened(asker)
  <2>1. RequestStatus[asker] = "pending" /\ call[asker].op = "MsgOpenDB"
    BY <1>6 DEF ServiceInv, AskerWaits, RequestStatus, Pending
  <2>2. \A j \in Ids : Pending(j)' <=> Pending(j) /\ j # asker
    BY <1>3, <1>6 DEF ServiceInv, OnePlace, Pending
  <2>3. RequestStatus' = [RequestStatus EXCEPT ![asker] = "done"]
    BY <1>2, <1>6, <2>2, <2>1 DEF RequestStatus
  <2> QED BY <1>2, <1>6, <2>1, <2>3 DEF Service!Opened, Service!Settles, Respond
<1> QED BY <1>2, <1>3, <1>4, <1>5, <1>6 DEF StepsTo, ServiceStep, Service!ServiceNext

(* A letter whose request is done with: the service settles that request or *)
(* stutters when the letter is the actor's own.                             *)
LEMMA TakenLetter ==
  ASSUME ServiceInv, box # <<>>, box' = Tail(box), UNCHANGED <<call, issued, asker, opening>>
  PROVE  /\ OnePlace' /\ AskerWaits'
         /\ Head(box).i \notin Ids /\ UNCHANGED <<contents, answer>> => ServiceStep
         /\ \A a : Head(box).i \in Ids /\ Respond(Head(box).i, a)
                   => Service!Settles(Head(box).i, a)
         /\ Head(box).i \in Ids /\ answer' = answer => Service!Settles(Head(box).i, "none")
<1>1. OnePlace' /\ AskerWaits'
  BY StatusAfterTail DEF ServiceInv, AskerWaits
<1>2. Head(box).i \notin Ids /\ UNCHANGED <<contents, answer>> => ServiceStep
  BY StatusAfterTail DEF ServiceStep, ServiceStutter
<1>3. ASSUME NEW a, Head(box).i \in Ids, Respond(Head(box).i, a)
      PROVE  Service!Settles(Head(box).i, a)
  BY <1>3, StatusAfterTail DEF Service!Settles, Respond
<1>4. ASSUME Head(box).i \in Ids, answer' = answer
      PROVE  Service!Settles(Head(box).i, "none")
  <2>1. answer \in [Ids -> Answers]
    BY DEF ServiceInv, Inv, TypeOK
  <2>2. answer' = [answer EXCEPT ![Head(box).i] = IF @ = "none" THEN "none" ELSE @]
    BY <1>4, <2>1
  <2> QED BY <1>4, <2>2, StatusAfterTail DEF Service!Settles
<1> QED BY <1>1, <1>2, <1>3, <1>4

LEMMA AlreadyOpenRefines ==
  ASSUME ServiceInv, NEW b \in {"CloseState", "WaitState"}, AlreadyOpen(b) PROVE StepsTo
<1>1. /\ box # <<>> /\ box' = Tail(box) /\ Head(box).t = "MsgOpenDB"
      /\ Respond(Head(box).i, "opened") /\ UNCHANGED <<contents, call, issued, asker, opening>>
  BY DEF AlreadyOpen, Takes
<1>2. CASE Head(box).i \notin Ids
  BY <1>1, <1>2, TakenLetter DEF StepsTo, Respond
<1>3. CASE Head(box).i \in Ids
  <2>1. call[Head(box).i].op = "MsgOpenDB"
    <3>1. Labelled(Head(box))
      BY <1>1, TailOfBox DEF ServiceInv, Inv, TypeOK, AllLabelled
    <3> QED BY <1>1, <1>3, <3>1 DEF Labelled
  <2>2. Service!Opened(Head(box).i)
    BY <1>1, <1>3, <2>1, TakenLetter DEF Service!Opened
  <2> QED BY <1>1, <1>3, <2>2, TakenLetter DEF StepsTo, ServiceStep, Service!ServiceNext
<1> QED BY <1>2, <1>3

\* only clients send data messages and MsgCloseDB, only the actor its outcomes
LEMMA WhoseLetter ==
  ASSUME ServiceInv, box # <<>>
  PROVE  /\ Head(box).t \in DataOps \cup {"MsgCloseDB"} => Head(box).i \in Ids
         /\ Head(box).t \in Outcomes => Head(box).i \notin Ids
         /\ Head(box).i \in Ids => call[Head(box).i] \in Calls
                                   /\ call[Head(box).i].op = Head(box).t
<1>1. Labelled(Head(box))
  BY TailOfBox DEF ServiceInv, Inv, TypeOK, AllLabelled
<1> QED BY <1>1 DEF Labelled, Calls, Ops, DataOps, Outcomes

LEMMA CloseStateOpenedRefines == ASSUME ServiceInv, CloseStateOpened PROVE StepsTo
<1>1. /\ box # <<>> /\ box' = Tail(box) /\ Head(box).i \notin Ids
      /\ UNCHANGED <<contents, call, issued, answer, asker, opening>>
  BY WhoseLetter DEF CloseStateOpened, Takes, Outcomes
<1> QED BY <1>1, TakenLetter DEF StepsTo

\* the letter the actor sends itself is not there yet for TakenLetter
LEMMA OnMsgErrorDBRefines ==
  ASSUME ServiceInv, NEW b \in {"CloseState", "WaitState"}, OnMsgErrorDB(b) PROVE StepsTo
<1> USE IdsAssumption
<1>1. /\ box # <<>> /\ Head(box).i \notin Ids /\ box \in Seq(Letters)
      /\ UNCHANGED <<contents, call, issued, answer, asker, opening>>
  BY WhoseLetter DEF OnMsgErrorDB, Takes, Outcomes, ServiceInv, Inv, TypeOK
<1>2. box' = Tail(box) \/ box' = Append(Tail(box), Self("MsgOpenDB"))
  BY DEF OnMsgErrorDB, Errored
<1>3. CASE box' = Tail(box)
  BY <1>1, <1>3, TakenLetter DEF StepsTo
<1>4. CASE box' = Append(Tail(box), Self("MsgOpenDB"))
  <2>1. /\ Head(box) = box[1] /\ 1 \in DOMAIN box /\ Tail(box) \in Seq(Letters)
        /\ \A n \in DOMAIN box : n \in Nat /\ (n # 1 => n - 1 \in DOMAIN Tail(box)
                                                      /\ Tail(box)[n - 1] = box[n])
        /\ \A n \in DOMAIN Tail(box) : /\ n + 1 \in DOMAIN box /\ n \in Nat
                                       /\ Tail(box)[n] = box[n + 1]
    BY <1>1, TailOfBox
  <2>2. \A m, n \in DOMAIN Tail(box) :
          Tail(box)[m].i \in Ids /\ Tail(box)[m].i = Tail(box)[n].i => m = n
    BY <2>1 DEF ServiceInv, OnePlace
  <2>3. \A n \in DOMAIN Tail(box) : Tail(box)[n].i = asker' => asker' = Nobody
    BY <1>1, <2>1 DEF ServiceInv, OnePlace
  <2>4. OnePlace' /\ \A j \in Ids : Pending(j)' <=> asker' = j \/ \E n \in DOMAIN Tail(box) :
                                                                    Tail(box)[n].i = j
    BY <1>4, <2>1, <2>2, <2>3, StatusAfterSelf
  <2>5. ASSUME NEW j \in Ids
        PROVE  (\E n \in DOMAIN Tail(box) : Tail(box)[n].i = j) <=> (\E n \in DOMAIN box : box[n].i = j)
    <3>1. ASSUME NEW n \in DOMAIN box, box[n].i = j
          PROVE  \E m \in DOMAIN Tail(box) : Tail(box)[m].i = j
      BY <1>1, <2>1, <3>1
    <3>2. ASSUME NEW n \in DOMAIN Tail(box), Tail(box)[n].i = j
          PROVE  \E m \in DOMAIN box : box[m].i = j
      BY <2>1, <3>2
    <3> QED BY <3>1, <3>2
  <2>6. \A j \in Ids : Pending(j)' <=> Pending(j)
    BY <1>1, <2>4, <2>5 DEF Pending
  <2>7. ServiceStutter
    BY <1>1, <2>6 DEF ServiceStutter, RequestStatus
  <2> QED BY <1>1, <2>4, <2>7 DEF StepsTo, ServiceStep, ServiceInv, AskerWaits
<1> QED BY <1>2, <1>3, <1>4

\* the request is forgotten, its future may still expire
LEMMA CloseStateDropsRefines == ASSUME ServiceInv, CloseStateDrops PROVE StepsTo
<1>1. /\ box # <<>> /\ box' = Tail(box) /\ Head(box).i \in Ids
      /\ UNCHANGED <<contents, call, issued, answer, asker, opening>>
  BY WhoseLetter DEF CloseStateDrops, Takes
<1>2. Service!Forget(Head(box).i)
  BY <1>1, TakenLetter DEF Service!Forget
<1> QED BY <1>1, <1>2, TakenLetter DEF StepsTo, ServiceStep, Service!ServiceNext

LEMMA WaitStateClosesRefines == ASSUME ServiceInv, WaitStateCloses PROVE StepsTo
<1>1. /\ box # <<>> /\ box' = Tail(box) /\ Head(box).i \in Ids
      /\ UNCHANGED <<contents, call, issued, answer, asker, opening>>
  BY WhoseLetter DEF WaitStateCloses, Takes
<1>2. Service!Forget(Head(box).i)
  BY <1>1, TakenLetter DEF Service!Forget
<1> QED BY <1>1, <1>2, TakenLetter DEF StepsTo, ServiceStep, Service!ServiceNext

LEMMA WaitStateCommitsRefines == ASSUME ServiceInv, WaitStateCommits PROVE StepsTo
<1> DEFINE i == Head(box).i
<1>1. /\ box # <<>> /\ box' = Tail(box) /\ i \in Ids /\ call[i].op \in DataOps
      /\ UNCHANGED <<call, issued, asker, opening>>
      /\ contents' = Transaction(contents, call[i]).contents
      /\ Respond(i, Transaction(contents, call[i]).answer)
  BY WhoseLetter DEF WaitStateCommits, Takes
<1>2. Service!Apply(i)
  BY <1>1, TakenLetter, SameTransaction DEF Service!Apply
<1> QED BY <1>1, <1>2, TakenLetter DEF StepsTo, ServiceStep, Service!ServiceNext

LEMMA WaitStateFailsRefines == ASSUME ServiceInv, WaitStateFails PROVE StepsTo
<1>1. handle = "open"
  BY DEF WaitStateFails, Takes, ServiceInv, Inv, ServingMeansOpen
<1>2. /\ box # <<>> /\ box' = Tail(box) /\ Head(box).i \in Ids
      /\ UNCHANGED <<contents, call, issued, asker, opening>> /\ Respond(Head(box).i, "error")
  BY <1>1, WhoseLetter DEF WaitStateFails, Takes
<1>3. Service!Reject(Head(box).i)
  BY <1>2, TakenLetter DEF Service!Reject
<1> QED BY <1>2, <1>3, TakenLetter DEF StepsTo, ServiceStep, Service!ServiceNext

LEMMA OtherProcessUnlocksRefines == ASSUME ServiceInv, OtherProcessUnlocks PROVE StepsTo
BY DEF ServiceInv, OnePlace, AskerWaits, StepsTo, ServiceStep, ServiceStutter, RequestStatus,
       Pending, OtherProcessUnlocks

\* what has taken effect is in the file, every other request dies
LEMMA CrashRefines == ASSUME ServiceInv, Crash PROVE StepsTo
<1> USE IdsAssumption
<1>1. /\ DOMAIN box' = {1} /\ box'[1].i = Nobody
      /\ asker' = Nobody /\ UNCHANGED <<contents, call, issued>>
  BY DEF Crash, Self, Letter
<1>2. OnePlace' /\ AskerWaits'
  BY <1>1 DEF OnePlace, AskerWaits
<1>3. \A j \in Ids : ~Pending(j)'
  BY <1>1 DEF Pending
<1>4. RequestStatus' = [i \in Ids |-> IF RequestStatus[i] = "pending" THEN "done"
                                      ELSE RequestStatus[i]]
  BY <1>1, <1>3 DEF RequestStatus
<1>5. answer' = [i \in Ids |-> IF RequestStatus[i] # "unused" /\ answer[i] = "none"
                               THEN "expired" ELSE answer[i]]
  BY DEF Crash, RequestStatus
<1>6. Service!Restart
  BY <1>1, <1>4, <1>5 DEF Service!Restart
<1> QED BY <1>2, <1>6 DEF StepsTo, ServiceStep, Service!ServiceNext

LEMMA NextRefines == ASSUME ServiceInv, [Next]_vars PROVE StepsTo
<1>1. CASE UNCHANGED vars
  BY <1>1 DEF ServiceInv, OnePlace, AskerWaits, StepsTo, ServiceStep, ServiceStutter,
              RequestStatus, Pending, vars
<1>2. CASE \E i \in Ids : Request(i) \/ FutureExpires(i)
  BY <1>2, RequestRefines, FutureExpiresRefines
<1>3. CASE ActorStep
  BY <1>3, CloseStateOpensRefines, OpenReturnsRefines, AlreadyOpenRefines,
     CloseStateOpenedRefines, OnMsgErrorDBRefines, CloseStateDropsRefines,
     WaitStateClosesRefines, WaitStateCommitsRefines, WaitStateFailsRefines DEF ActorStep
<1> QED BY <1>1, <1>2, <1>3, OtherProcessUnlocksRefines, CrashRefines DEF Next

LEMMA InitRefines == Init => ServiceInv /\ Service!ServiceInit
<1> SUFFICES ASSUME Init PROVE ServiceInv /\ Service!ServiceInit
  OBVIOUS
<1>1. /\ box = <<Self("Started")>> /\ Self("Started").i = Nobody /\ asker = Nobody
      /\ issued = {}
  BY DEF Init, Self, Letter
<1>2. ServiceInv
  BY <1>1, InitInv DEF ServiceInv, OnePlace, AskerWaits
<1>3. Service!ServiceInit
  BY <1>1, SameTransaction DEF Service!ServiceInit, Init, RequestStatus
<1> QED BY <1>2, <1>3

-----------------------------------------------------------------------------

(* The actor is an implementation of the service: whatever the order of     *)
(* requests, failed opens, failed transactions, restarts of the machine and *)
(* crashes, a request takes effect at most once, in one step and no later   *)
(* than its answer, one answered with an error has no effect, and what has  *)
(* taken effect survives (actor.go:59-328, fsm.go, repo.go).                *)
THEOREM ImplementsService == Spec => ServiceSpec
<1>1. Init => ServiceInv /\ Service!ServiceInit
  BY InitRefines
<1>2. ServiceInv /\ [Next]_vars => ServiceInv'
  BY NextInv, NextRefines DEF ServiceInv, StepsTo
<1>3. ServiceInv /\ [Next]_vars => [Service!ServiceNext]_(Service!serviceVars)
  BY NextRefines DEF StepsTo, ServiceStep, ServiceStutter, Service!serviceVars
<1> QED BY <1>1, <1>2, <1>3, PTL DEF Spec, ServiceSpec, Service!ServiceSpec

(* At any moment a request is in one place: one letter of the mailbox, or   *)
(* the open the actor is in, so it is served and answered once              *)
(* (actor.go:59-328).                                                       *)
THEOREM ServedOnce == Spec => []OnePlace
<1>1. Init => ServiceInv
  BY InitRefines
<1>2. ServiceInv /\ [Next]_vars => ServiceInv'
  BY NextInv, NextRefines DEF ServiceInv, StepsTo
<1>3. ServiceInv => OnePlace
  BY DEF ServiceInv
<1> QED BY <1>1, <1>2, <1>3, PTL DEF Spec
=============================================================================
