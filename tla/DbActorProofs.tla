--------------------------- MODULE DbActorProofs ---------------------------
(***************************************************************************)
(* Proofs about DbActor, for any set of requests and keys and any number   *)
(* of faults and crashes.  The invariants the runs check hold by Inv, which*)
(* adds what is true while the actor is inside bbolt.Open.                 *)
(***************************************************************************)
EXTENDS DbActor, TLAPS

\* positions of the letters of these types in a mailbox
At(s, T) == {n \in DOMAIN s : s[n].t \in T}

Waiting(s, x) == \E n \in DOMAIN s : s[n].t = x

\* s holds the outcome x of bbolt.Open and no other
Announced(s, x) == \E n \in DOMAIN s : s[n].t = x /\ At(s, Outcomes) = {n}

InsideOpen == opening => state = "sOpen" /\ handle # "open"

\* letters from clients carry their request, the others are the actor's own
Labelled(l) ==
  IF l.i \in Ids THEN l.i \in issued /\ call[l.i] \in Calls /\ call[l.i].op = l.t
  ELSE l.t \in {"Started", "MsgOpenDB"} \cup Outcomes

AllLabelled == \A n \in DOMAIN box : Labelled(box[n])

Inv == TypeOK /\ ServingMeansOpen /\ NeverStranded /\ InsideOpen /\ AllLabelled

-----------------------------------------------------------------------------
(* The mailbox.                                                            *)

(* What is left of the mailbox when its first letter is taken               *)
(* (actor.go:64-68).                                                        *)
LEMMA TailOfBox ==
  ASSUME NEW s \in Seq(Letters), s # <<>>
  PROVE  /\ Tail(s) \in Seq(Letters)
         /\ Head(s) = s[1] /\ s[1] \in Letters /\ 1 \in DOMAIN s
         /\ DOMAIN s = 1 .. Len(s) /\ Len(s) \in Nat \ {0}
         /\ DOMAIN Tail(s) = 1 .. Len(s) - 1
         /\ \A n \in 1 .. Len(s) - 1 : Tail(s)[n] = s[n + 1]
OBVIOUS

(* The mailbox after a letter was sent to it.                               *)
LEMMA AppendToBox ==
  ASSUME NEW s \in Seq(Letters), NEW e \in Letters
  PROVE  /\ Append(s, e) \in Seq(Letters)
         /\ DOMAIN s = 1 .. Len(s) /\ Len(s) \in Nat
         /\ DOMAIN Append(s, e) = 1 .. Len(s) + 1
         /\ \A n \in 1 .. Len(s) : Append(s, e)[n] = s[n]
         /\ Append(s, e)[Len(s) + 1] = e
OBVIOUS

(* A letter that waits goes on waiting when another one arrives, or when    *)
(* one of another type is taken.                                            *)
LEMMA WaitingKept ==
  ASSUME NEW s \in Seq(Letters), NEW x, Waiting(s, x)
  PROVE  /\ \A e \in Letters : Waiting(Append(s, e), x)
         /\ s # <<>> /\ Head(s).t # x => Waiting(Tail(s), x)
<1>1. PICK n \in DOMAIN s : s[n].t = x
  BY DEF Waiting
<1>2. ASSUME NEW e \in Letters PROVE Waiting(Append(s, e), x)
  <2>1. n \in DOMAIN Append(s, e) /\ Append(s, e)[n] = s[n]
    BY <1>1, <1>2, AppendToBox
  <2> QED BY <1>1, <2>1 DEF Waiting
<1>3. ASSUME s # <<>>, Head(s).t # x PROVE Waiting(Tail(s), x)
  <2>1. n # 1 /\ n \in 1 .. Len(s) /\ Len(s) \in Nat
    BY <1>1, <1>3, TailOfBox
  <2>2. n - 1 \in DOMAIN Tail(s) /\ Tail(s)[n - 1] = s[n]
    BY <1>3, <2>1, TailOfBox
  <2> QED BY <1>1, <2>2 DEF Waiting
<1> QED BY <1>2, <1>3

(* Sending a letter that is no outcome leaves the outcomes where they were, *)
(* and an outcome sent when there is none is the only one.                  *)
LEMMA OutcomesAfterAppend ==
  ASSUME NEW s \in Seq(Letters), NEW e \in Letters
  PROVE  /\ e.t \notin Outcomes => At(Append(s, e), Outcomes) = At(s, Outcomes)
         /\ e.t \notin Outcomes =>
              \A x : Announced(s, x) => Announced(Append(s, e), x)
         /\ e.t \in Outcomes /\ At(s, Outcomes) = {} => Announced(Append(s, e), e.t)
<1>1. e.t \notin Outcomes => At(Append(s, e), Outcomes) = At(s, Outcomes)
  BY AppendToBox DEF At
<1>2. ASSUME e.t \notin Outcomes, NEW x, Announced(s, x)
      PROVE  Announced(Append(s, e), x)
  BY <1>1, <1>2, AppendToBox DEF Announced
<1>3. ASSUME e.t \in Outcomes, At(s, Outcomes) = {} PROVE Announced(Append(s, e), e.t)
  <2>1. Len(s) + 1 \in DOMAIN Append(s, e) /\ Append(s, e)[Len(s) + 1] = e
    BY AppendToBox
  <2>2. At(Append(s, e), Outcomes) = {Len(s) + 1}
    BY <1>3, AppendToBox DEF At
  <2> QED BY <2>1, <2>2 DEF Announced
<1> QED BY <1>1, <1>2, <1>3

(* Taking a letter that is no outcome leaves the outcomes in the mailbox;   *)
(* taking the only outcome leaves none, and it is the one announced.        *)
LEMMA OutcomesAfterTail ==
  ASSUME NEW s \in Seq(Letters), s # <<>>
  PROVE  /\ At(s, Outcomes) = {} => At(Tail(s), Outcomes) = {} /\ Head(s).t \notin Outcomes
         /\ Head(s).t \notin Outcomes =>
              \A x : Announced(s, x) => Announced(Tail(s), x)
         /\ \A x : Announced(s, x) /\ Head(s).t \in Outcomes =>
              x = Head(s).t /\ At(Tail(s), Outcomes) = {}
<1>1. At(s, Outcomes) = {} => At(Tail(s), Outcomes) = {} /\ Head(s).t \notin Outcomes
  BY TailOfBox DEF At
<1>2. ASSUME Head(s).t \notin Outcomes, NEW x, Announced(s, x) PROVE Announced(Tail(s), x)
  <2>1. PICK n \in DOMAIN s : s[n].t = x /\ At(s, Outcomes) = {n}
    BY <1>2 DEF Announced
  <2>2. n # 1 /\ n \in 1 .. Len(s)
    BY <1>2, <2>1, TailOfBox DEF At
  <2>3. n - 1 \in DOMAIN Tail(s) /\ Tail(s)[n - 1] = s[n]
    BY <2>2, TailOfBox
  <2>4. At(Tail(s), Outcomes) = {n - 1}
    <3>1. ASSUME NEW m \in DOMAIN Tail(s)
          PROVE  Tail(s)[m].t \in Outcomes <=> m = n - 1
      <4>1. m \in 1 .. Len(s) - 1 /\ m + 1 \in DOMAIN s /\ Tail(s)[m] = s[m + 1]
        BY TailOfBox
      <4>2. s[m + 1].t \in Outcomes <=> m + 1 \in At(s, Outcomes)
        BY <4>1 DEF At
      <4> QED BY <2>1, <2>2, <4>1, <4>2, TailOfBox
    <3> QED BY <2>3, <3>1 DEF At
  <2> QED BY <2>1, <2>3, <2>4 DEF Announced
<1>3. ASSUME NEW x, Announced(s, x), Head(s).t \in Outcomes
      PROVE  x = Head(s).t /\ At(Tail(s), Outcomes) = {}
  <2>1. PICK n \in DOMAIN s : s[n].t = x /\ At(s, Outcomes) = {n}
    BY <1>3 DEF Announced
  <2>2. n = 1
    BY <1>3, <2>1, TailOfBox DEF At
  <2>3. \A m \in DOMAIN Tail(s) : Tail(s)[m].t \notin Outcomes
    <3>1. ASSUME NEW m \in DOMAIN Tail(s) PROVE Tail(s)[m].t \notin Outcomes
      <4>1. m \in 1 .. Len(s) - 1 /\ m + 1 \in DOMAIN s /\ Tail(s)[m] = s[m + 1]
        BY TailOfBox
      <4>2. m + 1 \notin At(s, Outcomes)
        BY <2>1, <2>2, <4>1, TailOfBox
      <4> QED BY <4>1, <4>2 DEF At
    <3> QED BY <3>1
  <2> QED BY <2>1, <2>2, <2>3, TailOfBox DEF At
<1> QED BY <1>1, <1>2, <1>3

-----------------------------------------------------------------------------
(* The machine.                                                            *)

(* A transaction leaves a collection and gives an answer (repo.go).         *)
LEMMA TransactionType ==
  ASSUME NEW c \in Contents, NEW r \in Calls, r.op \in DataOps
  PROVE  /\ Transaction(c, r).contents \in Contents
         /\ Transaction(c, r).answer \in Answers
<1>1. c.bucket \in BOOLEAN /\ c.ids \in SUBSET Keys /\ r.key \in Keys
  BY DEF Contents, Calls
<1>2. \A b \in BOOLEAN : PersistData(c, r.key, b).contents \in Contents
                         /\ PersistData(c, r.key, b).answer \in Answers
  BY <1>1 DEF PersistData, Contents, Answers
<1>3. RemoveData(c, r.key).contents \in Contents /\ RemoveData(c, r.key).answer \in Answers
  BY <1>1 DEF RemoveData, Contents, Answers
<1>4. GetData(c, r.key).contents \in Contents /\ GetData(c, r.key).answer \in Answers
  BY <1>1 DEF GetData, Contents, Answers
<1>5. /\ SearchCollections(c).contents \in Contents
      /\ SearchCollections(c).answer \in Answers
  BY <1>1 DEF SearchCollections, Contents, Answers
<1> QED BY <1>2, <1>3, <1>4, <1>5 DEF Transaction, DataOps

LEMMA RespondType ==
  ASSUME answer \in [Ids -> Answers], NEW i, NEW a \in Answers, Respond(i, a)
  PROVE  answer' \in [Ids -> Answers]
BY DEF Respond

\* NeverStranded, in the words of the lemmas above
Placed ==
  /\ state = "sInit" => Waiting(box, "Started")
  /\ state = "sRestart" => Waiting(box, "MsgOpenDB")
  /\ state = "sOpen" /\ ~opening =>
       Announced(box, IF handle = "open" THEN "MsgOpenedDB" ELSE "MsgErrorDB")
  /\ state # "sOpen" \/ opening => At(box, Outcomes) = {}

LEMMA NeverStrandedIsPlaced == NeverStranded <=> Placed
BY DEF NeverStranded, Placed, Waiting, Announced, At, Count

LEMMA InitInv == Init => Inv
<1> SUFFICES ASSUME Init PROVE Inv
  OBVIOUS
<1>1. TypeOK
  <2>1. box \in Seq(Letters)
    <3>1. Self("Started") \in Letters
      BY DEF Self, Letter, Letters
    <3> QED BY <3>1 DEF Init
  <2>2. faults \in 0 .. MaxFaults /\ crashes \in 0 .. MaxCrashes
    BY FaultAssumption DEF Init
  <2>3. call \in [Ids -> Calls \cup {NoCall}] /\ answer \in [Ids -> Answers]
    BY DEF Init, Answers
  <2> QED BY <2>1, <2>2, <2>3 DEF Init, TypeOK
<1>2. ServingMeansOpen /\ InsideOpen
  BY DEF Init, ServingMeansOpen, InsideOpen
<1>3. Placed
  BY DEF Init, Placed, Waiting, At, Outcomes, Self, Letter
<1>4. AllLabelled
  BY IdsAssumption DEF Init, AllLabelled, Labelled, Self, Letter
<1> QED BY <1>1, <1>2, <1>3, <1>4, NeverStrandedIsPlaced DEF Inv

LEMMA Messages ==
  /\ \A x \in {"Started"} \cup Outcomes \cup Ops, i \in Ids \cup {Nobody} :
        Letter(x, i) \in Letters /\ Letter(x, i).t = x /\ Letter(x, i).i = i
  /\ \A x \in {"Started"} \cup Outcomes \cup Ops : Self(x) \in Letters /\ Self(x).t = x
  /\ \A x \in Ops \cup {"Started"} : x \notin Outcomes
BY DEF Letter, Self, Letters, Ops, DataOps, Outcomes

\* what a step has to establish
LEMMA PlacedPrimed == ASSUME Placed' PROVE NeverStranded'
BY DEF NeverStranded, Placed, Waiting, Announced, At, Count

(* Every letter is still labelled after a step that takes the first letter  *)
(* and may send the actor one of its own.                                   *)
LEMMA LabelledAfter ==
  ASSUME Inv, UNCHANGED <<call, issued>>, NEW s \in Seq(Letters),
         \A n \in DOMAIN s : Labelled(s[n]),
         \/ box' = s
         \/ s # <<>> /\ box' = Tail(s)
         \/ \E x \in {"MsgOpenDB"} \cup Outcomes : box' = Append(s, Self(x))
  PROVE  AllLabelled'
<1>1. \A l : Labelled(l) <=> Labelled(l)'
  BY DEF Labelled
<1>2. CASE box' = s
  BY <1>1, <1>2 DEF AllLabelled, Labelled
<1>3. CASE s # <<>> /\ box' = Tail(s)
  <2>1. \A n \in DOMAIN Tail(s) : Labelled(Tail(s)[n])
    BY <1>3, TailOfBox
  <2> QED BY <1>1, <1>3, <2>1 DEF AllLabelled, Labelled
<1>4. ASSUME NEW x \in {"MsgOpenDB"} \cup Outcomes, box' = Append(s, Self(x))
      PROVE  AllLabelled'
  <2>1. Self(x) \in Letters /\ Labelled(Self(x))
    BY <1>4, Messages, IdsAssumption DEF Labelled, Self, Letter, Ops
  <2>2. \A n \in DOMAIN Append(s, Self(x)) : Labelled(Append(s, Self(x))[n])
    BY <2>1, AppendToBox
  <2> QED BY <1>1, <1>4, <2>2 DEF AllLabelled, Labelled
<1> QED BY <1>2, <1>3, <1>4

LEMMA RequestInv == ASSUME Inv, NEW i \in Ids, Request(i) PROVE Inv'
<1>1. PICK r \in Calls : call' = [call EXCEPT ![i] = r] /\ box' = Append(box, Letter(r.op, i))
  BY DEF Request
<1>2. Letter(r.op, i) \in Letters /\ r.op \notin Outcomes /\ Letter(r.op, i).t = r.op
      /\ Letter(r.op, i).i = i
  BY Messages DEF Calls
<1>3. TypeOK'
  BY <1>1, <1>2, AppendToBox DEF Inv, TypeOK, Request
<1>4. ServingMeansOpen' /\ InsideOpen'
  BY DEF Inv, ServingMeansOpen, InsideOpen, Request
<1>5. Placed'
  BY <1>1, <1>2, NeverStrandedIsPlaced, WaitingKept, OutcomesAfterAppend
     DEF Inv, TypeOK, Placed, Request
<1>6. AllLabelled'
  <2>1. \A n \in DOMAIN box : Labelled(box[n])'
    BY <1>1 DEF Inv, TypeOK, AllLabelled, Labelled, Request
  <2>2. Labelled(Letter(r.op, i))'
    BY <1>1, <1>2 DEF Inv, TypeOK, Labelled, Request
  <2> QED BY <1>1, <1>2, <2>1, <2>2, AppendToBox DEF Inv, TypeOK, AllLabelled
<1> QED BY <1>3, <1>4, <1>5, <1>6, PlacedPrimed DEF Inv

LEMMA FutureExpiresInv == ASSUME Inv, NEW i \in Ids, FutureExpires(i) PROVE Inv'
BY DEF Inv, TypeOK, ServingMeansOpen, NeverStranded, InsideOpen, AllLabelled, Labelled, Count,
       FutureExpires, Answers

LEMMA CloseStateOpensInv == ASSUME Inv, CloseStateOpens PROVE Inv'
<1>1. box \in Seq(Letters) /\ box # <<>> /\ box' = Tail(box)
      /\ Head(box).t \in {"Started", "MsgOpenDB"}
  BY DEF CloseStateOpens, Takes, Inv, TypeOK
<1>2. TypeOK'
  BY <1>1, TailOfBox DEF Inv, TypeOK, CloseStateOpens, EnterOpen, Letters
<1>3. ServingMeansOpen' /\ InsideOpen'
  BY DEF Inv, TypeOK, ServingMeansOpen, InsideOpen, CloseStateOpens, EnterOpen, Takes
<1>4. Placed'
  <2>1. At(box, Outcomes) = {}
    BY NeverStrandedIsPlaced DEF Inv, Placed, CloseStateOpens
  <2> QED BY <1>1, <2>1, OutcomesAfterTail DEF Placed, CloseStateOpens, EnterOpen
<1>5. AllLabelled'
  BY <1>1, LabelledAfter DEF Inv, AllLabelled, CloseStateOpens
<1> QED BY <1>2, <1>3, <1>4, <1>5, PlacedPrimed DEF Inv

LEMMA OpenReturnsInv == ASSUME Inv, NEW ok \in BOOLEAN, OpenReturns(ok) PROVE Inv'
<1> DEFINE x == IF ok THEN "MsgOpenedDB" ELSE "MsgErrorDB"
<1>1. x \in Outcomes /\ box' = Append(box, Self(x)) /\ box \in Seq(Letters)
      /\ (handle' = "open" <=> ok)
  BY DEF OpenReturns, Inv, TypeOK, InsideOpen, Outcomes
<1>2. Self(x) \in Letters /\ Self(x).t = x
  BY <1>1, Messages
<1> HIDE DEF x
<1>3. TypeOK'
  <2>1. answer' \in [Ids -> Answers]
    BY RespondType DEF OpenReturns, Inv, TypeOK, Answers
  <2>2. faults' \in 0 .. MaxFaults
    BY FaultAssumption DEF OpenReturns, Fault, Inv, TypeOK
  <2>3. handle' \in {"nil", "open", "closed"}
    BY DEF OpenReturns, Inv, TypeOK
  <2>4. box' \in Seq(Letters)
    BY <1>1, <1>2, AppendToBox
  <2> QED BY <2>1, <2>2, <2>3, <2>4 DEF OpenReturns, Inv, TypeOK
<1>4. ServingMeansOpen' /\ InsideOpen'
  BY DEF Inv, ServingMeansOpen, InsideOpen, OpenReturns
<1>5. Placed'
  <2>1. At(box, Outcomes) = {} /\ state = "sOpen"
    BY NeverStrandedIsPlaced DEF Inv, Placed, InsideOpen, OpenReturns
  <2>2. Announced(box', x)
    BY <1>1, <1>2, <2>1, OutcomesAfterAppend
  <2> QED BY <1>1, <2>1, <2>2 DEF Placed, OpenReturns, x
<1>6. AllLabelled'
  BY <1>1, LabelledAfter DEF Inv, AllLabelled, OpenReturns
<1> QED BY <1>3, <1>4, <1>5, <1>6, PlacedPrimed DEF Inv

LEMMA AlreadyOpenInv ==
  ASSUME Inv, NEW b \in {"CloseState", "WaitState"}, AlreadyOpen(b) PROVE Inv'
<1>1. box \in Seq(Letters) /\ box # <<>> /\ box' = Tail(box) /\ Head(box).t = "MsgOpenDB"
      /\ behavior = b
  BY DEF AlreadyOpen, Takes, Inv, TypeOK
<1>2. state \in {"sOpen", "sWait"}
  BY <1>1 DEF AlreadyOpen, Inv, ServingMeansOpen
<1>3. TypeOK'
  <2>1. answer' \in [Ids -> Answers]
    BY RespondType DEF AlreadyOpen, Inv, TypeOK, Answers
  <2> QED BY <1>1, <2>1, TailOfBox DEF AlreadyOpen, Inv, TypeOK
<1>4. ServingMeansOpen' /\ InsideOpen'
  BY DEF Inv, ServingMeansOpen, InsideOpen, AlreadyOpen
<1>5. Placed'
  <2>1. Head(box).t \notin Outcomes
    BY <1>1 DEF Outcomes
  <2> QED BY <1>1, <1>2, <2>1, NeverStrandedIsPlaced, OutcomesAfterTail
          DEF Inv, Placed, AlreadyOpen
<1>6. AllLabelled'
  BY <1>1, LabelledAfter DEF Inv, AllLabelled, AlreadyOpen
<1> QED BY <1>3, <1>4, <1>5, <1>6, PlacedPrimed DEF Inv

\* MsgOpenedDB is taken: bbolt.Open has succeeded and nothing has happened since
LEMMA CloseStateOpenedInv == ASSUME Inv, CloseStateOpened PROVE Inv'
<1>1. box \in Seq(Letters) /\ box # <<>> /\ box' = Tail(box) /\ Head(box).t = "MsgOpenedDB"
  BY DEF CloseStateOpened, Takes, Inv, TypeOK
<1>2. /\ state = "sOpen" /\ handle = "open" /\ ~opening
      /\ At(Tail(box), Outcomes) = {}
  <2>1. At(box, Outcomes) # {}
    BY <1>1, OutcomesAfterTail DEF Outcomes
  <2>2. state = "sOpen" /\ ~opening
    BY <2>1, NeverStrandedIsPlaced DEF Inv, Placed
  <2> QED BY <1>1, <2>2, NeverStrandedIsPlaced, OutcomesAfterTail DEF Inv, Placed, Outcomes
<1>3. TypeOK'
  BY <1>1, TailOfBox DEF Inv, TypeOK, CloseStateOpened
<1>4. ServingMeansOpen' /\ InsideOpen'
  BY <1>2 DEF ServingMeansOpen, InsideOpen, CloseStateOpened
<1>5. Placed'
  BY <1>1, <1>2 DEF Placed, CloseStateOpened
<1>6. AllLabelled'
  BY <1>1, LabelledAfter DEF Inv, AllLabelled, CloseStateOpened
<1> QED BY <1>3, <1>4, <1>5, <1>6, PlacedPrimed DEF Inv

\* MsgErrorDB is taken: bbolt.Open has failed and nothing has happened since
LEMMA OnMsgErrorDBInv ==
  ASSUME Inv, NEW b \in {"CloseState", "WaitState"}, OnMsgErrorDB(b) PROVE Inv'
<1>1. box \in Seq(Letters) /\ box # <<>> /\ Head(box).t = "MsgErrorDB"
  BY DEF OnMsgErrorDB, Takes, Inv, TypeOK
<1>2. state = "sOpen" /\ handle # "open" /\ ~opening /\ At(Tail(box), Outcomes) = {}
  <2>1. At(box, Outcomes) # {}
    BY <1>1, OutcomesAfterTail DEF Outcomes
  <2>2. state = "sOpen" /\ ~opening
    BY <2>1, NeverStrandedIsPlaced DEF Inv, Placed
  <2> QED BY <1>1, <2>2, NeverStrandedIsPlaced, OutcomesAfterTail DEF Inv, Placed, Outcomes
<1>3. /\ box' = Append(Tail(box), Self("MsgOpenDB"))
      /\ state' = "sRestart" /\ behavior' = "CloseState"
  BY <1>2 DEF OnMsgErrorDB, Errored
<1>4. Tail(box) \in Seq(Letters) /\ Self("MsgOpenDB") \in Letters
      /\ Self("MsgOpenDB").t = "MsgOpenDB" /\ "MsgOpenDB" \notin Outcomes
  BY <1>1, TailOfBox, Messages DEF Ops
<1>5. TypeOK'
  BY <1>3, <1>4, AppendToBox DEF Inv, TypeOK, OnMsgErrorDB
<1>6. ServingMeansOpen' /\ InsideOpen'
  BY <1>2, <1>3 DEF ServingMeansOpen, InsideOpen, OnMsgErrorDB
<1>7. Placed'
  <2>1. At(box', Outcomes) = {}
    BY <1>2, <1>3, <1>4, OutcomesAfterAppend
  <2>2. Waiting(box', "MsgOpenDB")
    BY <1>3, <1>4, AppendToBox DEF Waiting
  <2> QED BY <1>3, <2>1, <2>2 DEF Placed
<1>8. AllLabelled'
  <2>1. \A n \in DOMAIN Tail(box) : Labelled(Tail(box)[n])
    BY <1>1, TailOfBox DEF Inv, AllLabelled
  <2> QED BY <1>3, <1>4, <2>1, LabelledAfter DEF OnMsgErrorDB
<1> QED BY <1>5, <1>6, <1>7, <1>8, PlacedPrimed DEF Inv

LEMMA CloseStateDropsInv == ASSUME Inv, CloseStateDrops PROVE Inv'
<1>1. box \in Seq(Letters) /\ box # <<>> /\ box' = Tail(box)
      /\ Head(box).t \in DataOps \cup {"MsgCloseDB"}
  BY DEF CloseStateDrops, Takes, Inv, TypeOK
<1>2. Head(box).t \notin Outcomes \cup {"Started", "MsgOpenDB"}
  BY <1>1 DEF Outcomes, DataOps
<1>3. TypeOK'
  BY <1>1, TailOfBox DEF Inv, TypeOK, CloseStateDrops
<1>4. ServingMeansOpen' /\ InsideOpen'
  BY DEF Inv, ServingMeansOpen, InsideOpen, CloseStateDrops
<1>5. Placed'
  BY <1>1, <1>2, NeverStrandedIsPlaced, WaitingKept, OutcomesAfterTail
     DEF Inv, Placed, CloseStateDrops
<1>6. AllLabelled'
  BY <1>1, LabelledAfter DEF Inv, AllLabelled, CloseStateDrops
<1> QED BY <1>3, <1>4, <1>5, <1>6, PlacedPrimed DEF Inv

LEMMA WaitStateClosesInv == ASSUME Inv, WaitStateCloses PROVE Inv'
<1>1. box \in Seq(Letters) /\ box # <<>> /\ box' = Tail(box)
  BY DEF WaitStateCloses, Takes, Inv, TypeOK
<1>2. state = "sWait" /\ ~opening /\ At(box, Outcomes) = {}
  BY NeverStrandedIsPlaced DEF WaitStateCloses, Takes, Inv, ServingMeansOpen, Placed
<1>3. state' = "sClose" /\ handle' = "nil" /\ behavior' = "CloseState"
  BY <1>2 DEF WaitStateCloses
<1>4. TypeOK'
  BY <1>1, <1>3, TailOfBox DEF Inv, TypeOK, WaitStateCloses
<1>5. ServingMeansOpen' /\ InsideOpen'
  BY <1>2, <1>3 DEF ServingMeansOpen, InsideOpen, WaitStateCloses
<1>6. Placed'
  BY <1>1, <1>2, <1>3, OutcomesAfterTail DEF Placed
<1>7. AllLabelled'
  BY <1>1, LabelledAfter DEF Inv, AllLabelled, WaitStateCloses
<1> QED BY <1>4, <1>5, <1>6, <1>7, PlacedPrimed DEF Inv

\* a data message is taken in WaitState, answered or refused
LEMMA WaitStateServesInv == ASSUME Inv, WaitStateCommits \/ WaitStateFails PROVE Inv'
<1>1. box \in Seq(Letters) /\ box # <<>> /\ Head(box).t \in DataOps /\ behavior = "WaitState"
  BY DEF WaitStateCommits, WaitStateFails, Takes, Inv, TypeOK
<1>2. state = "sWait" /\ handle = "open" /\ ~opening /\ At(box, Outcomes) = {}
  BY <1>1, NeverStrandedIsPlaced DEF Inv, ServingMeansOpen, Placed
<1>3. box' = Tail(box) /\ UNCHANGED <<state, behavior, handle, opening, call, issued, asker,
                                      locked, crashes>>
  BY <1>2 DEF WaitStateCommits, WaitStateFails
<1>4. contents' \in Contents /\ answer' \in [Ids -> Answers] /\ faults' \in 0 .. MaxFaults
  <2>1. CASE WaitStateCommits
    <3> DEFINE i == Head(box).i
    <3>1. i \in Ids /\ call[i] \in Calls /\ call[i].op \in DataOps
      <4>1. Labelled(Head(box))
        BY <1>1, TailOfBox DEF Inv, AllLabelled
      <4> QED BY <1>1, <4>1 DEF Labelled, Outcomes, DataOps
    <3>2. Transaction(contents, call[i]).contents \in Contents
          /\ Transaction(contents, call[i]).answer \in Answers
      BY <3>1, TransactionType DEF Inv, TypeOK
    <3> QED BY <2>1, <3>2, RespondType DEF WaitStateCommits, Inv, TypeOK
  <2>2. CASE WaitStateFails
    BY <1>2, <2>2, RespondType, FaultAssumption DEF WaitStateFails, Fault, Inv, TypeOK, Answers
  <2> QED BY <2>1, <2>2
<1>5. TypeOK'
  BY <1>1, <1>3, <1>4, TailOfBox DEF Inv, TypeOK
<1>6. ServingMeansOpen' /\ InsideOpen'
  BY <1>2, <1>3 DEF Inv, ServingMeansOpen, InsideOpen
<1>7. Placed'
  BY <1>1, <1>2, <1>3, OutcomesAfterTail DEF Placed
<1>8. AllLabelled'
  BY <1>1, <1>3, LabelledAfter DEF Inv, AllLabelled
<1> QED BY <1>5, <1>6, <1>7, <1>8, PlacedPrimed DEF Inv

LEMMA OtherProcessUnlocksInv == ASSUME Inv, OtherProcessUnlocks PROVE Inv'
BY DEF Inv, TypeOK, ServingMeansOpen, NeverStranded, InsideOpen, AllLabelled, Labelled, Count,
       OtherProcessUnlocks

LEMMA CrashInv == ASSUME Inv, Crash PROVE Inv'
<1>1. Self("Started") \in Letters /\ Self("Started").t = "Started"
      /\ Self("Started").i = Nobody /\ "Started" \notin Outcomes
  BY Messages DEF Self, Letter
<1>2. TypeOK'
  <2>1. box' \in Seq(Letters)
    BY <1>1 DEF Crash
  <2>2. crashes' \in 0 .. MaxCrashes
    BY FaultAssumption DEF Crash, Inv, TypeOK
  <2>3. answer' \in [Ids -> Answers]
    BY DEF Crash, Inv, TypeOK, Answers
  <2> QED BY <2>1, <2>2, <2>3 DEF Crash, Inv, TypeOK
<1>3. ServingMeansOpen' /\ InsideOpen'
  BY DEF Crash, ServingMeansOpen, InsideOpen
<1>4. Placed'
  BY <1>1 DEF Crash, Placed, Waiting, At
<1>5. AllLabelled'
  BY <1>1, IdsAssumption DEF Crash, AllLabelled, Labelled
<1> QED BY <1>2, <1>3, <1>4, <1>5, PlacedPrimed DEF Inv

LEMMA NextInv == ASSUME Inv, [Next]_vars PROVE Inv'
<1>1. CASE UNCHANGED vars
  BY <1>1 DEF Inv, TypeOK, ServingMeansOpen, NeverStranded, InsideOpen, AllLabelled, Labelled,
              Count, vars
<1>2. CASE \E i \in Ids : Request(i) \/ FutureExpires(i)
  BY <1>2, RequestInv, FutureExpiresInv
<1>3. CASE ActorStep
  BY <1>3, CloseStateOpensInv, OpenReturnsInv, AlreadyOpenInv, CloseStateOpenedInv,
     OnMsgErrorDBInv, CloseStateDropsInv, WaitStateClosesInv, WaitStateServesInv DEF ActorStep
<1> QED BY <1>1, <1>2, <1>3, OtherProcessUnlocksInv, CrashInv DEF Next

THEOREM AlwaysInv == Spec => []Inv
<1>1. Init => Inv
  BY InitInv
<1>2. Inv /\ [Next]_vars => Inv'
  BY NextInv
<1> QED BY <1>1, <1>2, PTL DEF Spec

-----------------------------------------------------------------------------

(* Every variable of the actor keeps its type (actor.go:15-24).             *)
THEOREM TypeCorrect == Spec => []TypeOK
<1>1. Inv => TypeOK
  BY DEF Inv
<1> QED BY <1>1, AlwaysInv, PTL

(* However requests, failed opens and restarts interleave, the actor runs   *)
(* transactions only in sWait and on an open file (actor.go:120-328).       *)
THEOREM ServesOnlyOpenFile == Spec => []ServingMeansOpen
<1>1. Inv => ServingMeansOpen
  BY DEF Inv
<1> QED BY <1>1, AlwaysInv, PTL

(* The message that takes the machine out of sInit, sOpen and sRestart is   *)
(* always in the mailbox, the outcome of bbolt.Open exactly once            *)
(* (fsm.go:64-89).                                                          *)
THEOREM AlwaysWoken == Spec => []NeverStranded
<1>1. Inv => NeverStranded
  BY DEF Inv
<1> QED BY <1>1, AlwaysInv, PTL
=============================================================================
