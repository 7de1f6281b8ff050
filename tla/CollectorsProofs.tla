-------------------------- MODULE CollectorsProofs --------------------------
(***************************************************************************)
(* Proofs about Collectors, for any fields, values and number of events.   *)
(***************************************************************************)
EXTENDS Collectors, TLAPS

ListValues == BoundedSeq(Values, MaxList)

\* a status, by its fields
IsStatus(s) ==
  /\ DOMAIN s \subseteq Fields /\ s = [k \in DOMAIN s |-> s[k]]
  /\ \A k \in DOMAIN s : s[k] \in IF k \in Lists THEN ListValues ELSE Values

\* the fields that must be followed are in the last status
Remembered ==
  /\ lastStatusMsg = Nil => steady = {}
  /\ lastStatusMsg # Nil => steady \subseteq DOMAIN lastStatusMsg

-----------------------------------------------------------------------------
(* Statuses.                                                               *)

LEMMA StatusMeans == ASSUME NEW s PROVE s \in Statuses <=> IsStatus(s)
<1>1. ASSUME s \in Statuses PROVE IsStatus(s)
  <2>1. PICK D \in SUBSET Fields :
          s \in {x \in [D -> Values \cup ListValues] :
                   \A k \in D : x[k] \in (IF k \in Lists THEN ListValues ELSE Values)}
    BY <1>1, Zenon DEF Statuses, ListValues
  <2>2. DOMAIN s = D /\ s = [k \in D |-> s[k]]
    BY <2>1
  <2> QED BY <2>1, <2>2 DEF IsStatus
<1>2. ASSUME IsStatus(s) PROVE s \in Statuses
  <2> DEFINE D == DOMAIN s
  <2>1. D \in SUBSET Fields
    BY <1>2 DEF IsStatus
  <2>2. \A k \in D : s[k] \in Values \cup ListValues
    BY <1>2 DEF IsStatus
  <2>3. s \in [D -> Values \cup ListValues]
    BY <1>2, <2>2 DEF IsStatus
  <2>4. s \in {x \in [D -> Values \cup ListValues] :
                   \A k \in D : x[k] \in (IF k \in Lists THEN ListValues ELSE Values)}
    BY <1>2, <2>3 DEF IsStatus
  <2> QED BY <2>1, <2>4, Zenon DEF Statuses, ListValues
<1> QED BY <1>1, <1>2

LEMMA OverStatus ==
  ASSUME NEW f, NEW g, IsStatus(f), IsStatus(g)
  PROVE  /\ IsStatus(Over(f, g)) /\ DOMAIN Over(f, g) = DOMAIN f \cup DOMAIN g
         /\ \A k \in DOMAIN f : Over(f, g)[k] = f[k]
         /\ \A k \in DOMAIN g \ DOMAIN f : Over(f, g)[k] = g[k]
BY DEF Over, IsStatus

LEMMA GroupStatus ==
  ASSUME NEW s \in Statuses, NEW id \in {GroupName, Nil}
  PROVE  WithGroup(s, id) \in Statuses
<1>1. CASE id = Nil
  BY <1>1 DEF WithGroup
<1>2. CASE id # Nil
  <2>1. PICK g : g = [k \in {Group} |-> GroupName]
    OBVIOUS
  <2>2. IsStatus(g)
    BY <2>1, FieldsAssumption DEF IsStatus, Fields
  <2>3. WithGroup(s, id) = Over(g, s)
    BY <1>2, <2>1 DEF WithGroup
  <2> QED BY <2>2, <2>3, OverStatus, StatusMeans
<1> QED BY <1>1, <1>2

LEMMA StampsStatus ==
  ASSUME NEW s, IsStatus(s)
  PROVE  /\ IsStatus(Stamps(s)) /\ DOMAIN Stamps(s) = Stamped \cup DOMAIN s
         /\ \A k \in DOMAIN s \ Stamped : Stamps(s)[k] = s[k]
<1>1. PICK g : g = [k \in Stamped |-> Stamp] /\ Stamps(s) = Over(g, s)
  BY Zenon DEF Stamps
<1>2. IsStatus(g) /\ DOMAIN g = Stamped
  BY <1>1, FieldsAssumption DEF IsStatus, Fields
<1>3. /\ IsStatus(Over(g, s)) /\ DOMAIN Over(g, s) = DOMAIN g \cup DOMAIN s
      /\ \A k \in DOMAIN s \ DOMAIN g : Over(g, s)[k] = s[k]
  BY <1>2, OverStatus
<1> QED BY <1>1, <1>2, <1>3

LEMMA OnlyChangesStatus ==
  ASSUME NEW s \in Statuses, NEW last \in Statuses \cup {Nil}
  PROVE  /\ OnlyChanges(s, last) \in Statuses \cup {Nil}
         /\ last = Nil => OnlyChanges(s, last) = s
         /\ last # Nil => \A k \in DOMAIN last : Exposed(k, s, last) =>
              /\ OnlyChanges(s, last) # Nil /\ k \in DOMAIN OnlyChanges(s, last)
              /\ OnlyChanges(s, last)[k] = s[k]
         /\ last # Nil /\ OnlyChanges(s, last) # Nil =>
              \A k \in DOMAIN OnlyChanges(s, last) : k \in DOMAIN last /\ Exposed(k, s, last)
<1>1. CASE last = Nil
  BY <1>1 DEF OnlyChanges
<1>2. CASE last # Nil
  <2> DEFINE shown == {k \in DOMAIN last : Exposed(k, s, last)}
             delta == [k \in shown |-> s[k]]
  <2>1. OnlyChanges(s, last) = IF shown = {} THEN Nil ELSE delta
    BY <1>2 DEF OnlyChanges
  <2>2. shown \subseteq DOMAIN s
    BY DEF Exposed
  <2>3. IsStatus(s)
    BY StatusMeans
  <2>4. DOMAIN delta = shown /\ \A k \in shown : delta[k] = s[k]
    OBVIOUS
  <2>5. delta = [k \in DOMAIN delta |-> delta[k]]
    BY <2>4
  <2>6. IsStatus(delta)
    BY <2>2, <2>3, <2>4, <2>5 DEF IsStatus
  <2>7. delta \in Statuses /\ delta # Nil
    BY <2>6, StatusMeans, NilAssumption
  <2> HIDE DEF delta
  <2> QED BY <1>2, <2>1, <2>4, <2>7
<1> QED BY <1>1, <1>2

-----------------------------------------------------------------------------
(* Lists.                                                                  *)

LEMMA ListIsSeq == ASSUME NEW x \in ListValues PROVE x \in Seq(Values)
BY FieldsAssumption DEF ListValues, BoundedSeq, SeqOf

LEMMA PrefixMeans ==
  ASSUME NEW s \in Seq(Values), NEW t \in Seq(Values)
  PROVE  IsPrefix(s, t) <=> Len(s) <= Len(t) /\ \A i \in 1 .. Len(s) : s[i] = t[i]
BY DEF IsPrefix

\* what compareSlice takes for equal has the old list as a prefix
LEMMA StaysPrefix ==
  ASSUME NEW v \in ListValues, NEW old \in ListValues, NEW new \in ListValues,
         IsPrefix(v, old), CompareSlice(new, old)
  PROVE  IsPrefix(v, new)
<1>1. v \in Seq(Values) /\ old \in Seq(Values) /\ new \in Seq(Values)
  BY ListIsSeq
<1>2. Len(v) <= Len(old) /\ \A i \in 1 .. Len(v) : v[i] = old[i]
  BY <1>1, PrefixMeans
<1>3. Len(new) >= Len(old) /\ \A i \in 1 .. Len(old) : new[i] = old[i]
  BY DEF CompareSlice, SameUpTo
<1>4. Len(v) \in Nat /\ Len(old) \in Nat /\ Len(new) \in Nat
  BY <1>1
<1>5. Len(v) <= Len(new) /\ \A i \in 1 .. Len(v) : v[i] = new[i]
  BY <1>2, <1>3, <1>4
<1> QED BY <1>1, <1>5, PrefixMeans

LEMMA OwnPrefix == ASSUME NEW v \in ListValues PROVE IsPrefix(v, v)
<1>1. v \in Seq(Values) /\ Len(v) \in Nat
  BY ListIsSeq
<1> QED BY <1>1, PrefixMeans

-----------------------------------------------------------------------------
(* The mailbox of App.                                                     *)

Tells(m, k) == m.type = "StatusMsg" /\ m.delta # Nil /\ k \in DOMAIN m.delta

LEMMA TellMeans == ASSUME NEW k PROVE Tell(k) = {i \in DOMAIN appBox : Tells(appBox[i], k)}
BY DEF Tell, Tells

\* the last message that has field k, if any
LastTold(b, k, i) == /\ i \in DOMAIN b /\ Tells(b[i], k)
                     /\ \A j \in DOMAIN b : Tells(b[j], k) => j <= i
Untold(b, k)      == \A i \in DOMAIN b : ~Tells(b[i], k)

\* b and w make v known as the value of field k
KnownAs(b, w, k, v) ==
  \/ Untold(b, k) /\ k \in DOMAIN w /\ v = w[k]
  \/ \E i \in DOMAIN b : LastTold(b, k, i) /\ v = b[i].delta[k]

FieldFollowed(k) == \E v : KnownAs(appBox, view, k, v) /\ Follows(k, v)

LEMMA FollowedMeans == SteadyFieldsFollowed <=> \A k \in steady \ (Removed \cup Stamped) : FieldFollowed(k)
<1>1. ASSUME NEW k
      PROVE  /\ Tell(k) = {} <=> Untold(appBox, k)
             /\ \A i : (i \in Tell(k) /\ \A j \in Tell(k) : j <= i) <=> LastTold(appBox, k, i)
  BY TellMeans DEF Untold, LastTold
<1> QED BY <1>1 DEF SteadyFieldsFollowed, FieldFollowed, KnownAs, LastTold

LEMMA ToldAppend ==
  ASSUME NEW b \in Seq(AppMessages), NEW m \in AppMessages, NEW k
  PROVE  LET c == Append(b, m) IN
         /\ c \in Seq(AppMessages) /\ Len(c) \in DOMAIN c /\ c[Len(c)] = m
         /\ Tells(m, k) => LastTold(c, k, Len(c))
         /\ ~Tells(m, k) /\ Untold(b, k) => Untold(c, k)
         /\ \A i \in DOMAIN b : i \in DOMAIN c /\ c[i] = b[i]
         /\ \A i \in DOMAIN b : ~Tells(m, k) /\ LastTold(b, k, i) => LastTold(c, k, i)
<1> DEFINE c == Append(b, m)
<1>1. /\ c \in Seq(AppMessages) /\ Len(c) = Len(b) + 1 /\ Len(b) \in Nat
      /\ DOMAIN b = 1 .. Len(b) /\ DOMAIN c = 1 .. Len(c)
  OBVIOUS
<1>2. c[Len(c)] = m /\ \A i \in DOMAIN b : c[i] = b[i]
  OBVIOUS
<1>3. \A i \in DOMAIN c : i \in DOMAIN b \/ i = Len(c)
  BY <1>1
<1> HIDE DEF c
<1>4. Len(c) \in DOMAIN c /\ \A i \in DOMAIN b : i \in DOMAIN c /\ i <= Len(c)
  BY <1>1
<1>5. \A i \in DOMAIN c : i <= Len(c)
  BY <1>1
<1> USE DEF c
<1> QED BY <1>1, <1>2, <1>3, <1>4, <1>5 DEF LastTold, Untold

LEMMA ToldTail ==
  ASSUME NEW b \in Seq(AppMessages), b # <<>>, NEW k
  PROVE  LET c == Tail(b) IN
         /\ c \in Seq(AppMessages) /\ Head(b) \in AppMessages
         /\ Untold(b, k) => Untold(c, k) /\ ~Tells(Head(b), k)
         /\ \A i \in DOMAIN b : LastTold(b, k, i) =>
              \/ i = 1 /\ b[i] = Head(b) /\ Tells(Head(b), k) /\ Untold(c, k)
              \/ \E j \in DOMAIN c : c[j] = b[i] /\ LastTold(c, k, j)
<1> DEFINE c == Tail(b)
<1>1. /\ c \in Seq(AppMessages) /\ Len(c) = Len(b) - 1 /\ Len(b) \in Nat \ {0}
      /\ DOMAIN b = 1 .. Len(b) /\ DOMAIN c = 1 .. Len(c)
      /\ Head(b) = b[1] /\ b[1] \in AppMessages
  OBVIOUS
<1>2. \A j \in DOMAIN c : c[j] = b[j + 1]
  OBVIOUS
<1> HIDE DEF c
<1>3. \A j \in DOMAIN c : j + 1 \in DOMAIN b
  BY <1>1
<1>4. ASSUME NEW i \in DOMAIN b, i # 1 PROVE i - 1 \in DOMAIN c /\ c[i - 1] = b[i]
  <2>1. i - 1 \in DOMAIN c /\ (i - 1) + 1 = i
    BY <1>1, <1>4
  <2> QED BY <1>2, <2>1
<1>5. Untold(b, k) => Untold(c, k) /\ ~Tells(Head(b), k)
  BY <1>1, <1>2, <1>3 DEF Untold
<1>6. ASSUME NEW i \in DOMAIN b, LastTold(b, k, i)
      PROVE  \/ i = 1 /\ b[i] = Head(b) /\ Tells(Head(b), k) /\ Untold(c, k)
             \/ \E j \in DOMAIN c : c[j] = b[i] /\ LastTold(c, k, j)
  <2>1. \A j \in DOMAIN c : Tells(c[j], k) => j + 1 <= i
    BY <1>2, <1>3, <1>6 DEF LastTold
  <2>2. CASE i = 1
    BY <1>1, <1>6, <2>1, <2>2 DEF LastTold, Untold
  <2>3. CASE i # 1
    <3>1. i - 1 \in DOMAIN c /\ c[i - 1] = b[i]
      BY <1>4, <2>3
    <3>2. \A j \in DOMAIN c : Tells(c[j], k) => j <= i - 1
      BY <1>1, <2>1
    <3> QED BY <1>6, <3>1, <3>2 DEF LastTold
  <2> QED BY <2>2, <2>3
<1> USE DEF c
<1> QED BY <1>1, <1>5, <1>6

LEMMA KnownAppend ==
  ASSUME NEW b \in Seq(AppMessages), NEW m \in AppMessages, NEW w, NEW k, NEW v
  PROVE  /\ Tells(m, k) => KnownAs(Append(b, m), w, k, m.delta[k])
         /\ ~Tells(m, k) /\ KnownAs(b, w, k, v) => KnownAs(Append(b, m), w, k, v)
<1> DEFINE c == Append(b, m)
<1>1. /\ Len(c) \in DOMAIN c /\ c[Len(c)] = m
      /\ Tells(m, k) => LastTold(c, k, Len(c))
      /\ ~Tells(m, k) /\ Untold(b, k) => Untold(c, k)
      /\ \A i \in DOMAIN b : i \in DOMAIN c /\ c[i] = b[i]
      /\ \A i \in DOMAIN b : ~Tells(m, k) /\ LastTold(b, k, i) => LastTold(c, k, i)
  BY ToldAppend
<1> HIDE DEF c
<1>2. Tells(m, k) => KnownAs(c, w, k, m.delta[k])
  BY <1>1 DEF KnownAs
<1>3. ~Tells(m, k) /\ KnownAs(b, w, k, v) => KnownAs(c, w, k, v)
  BY <1>1 DEF KnownAs
<1> QED BY <1>2, <1>3 DEF c

\* App takes a message: its fields are in w2 then, and others as in w
LEMMA KnownTail ==
  ASSUME NEW b \in Seq(AppMessages), b # <<>>, NEW w, NEW w2, NEW k, NEW v,
         Tells(Head(b), k) => k \in DOMAIN w2 /\ w2[k] = Head(b).delta[k],
         ~Tells(Head(b), k) /\ k \in DOMAIN w => k \in DOMAIN w2 /\ w2[k] = w[k],
         KnownAs(b, w, k, v)
  PROVE  KnownAs(Tail(b), w2, k, v)
<1>1. CASE Untold(b, k) /\ k \in DOMAIN w /\ v = w[k]
  <2>1. Untold(Tail(b), k) /\ ~Tells(Head(b), k)
    BY <1>1, ToldTail
  <2> QED BY <1>1, <2>1 DEF KnownAs
<1>2. CASE \E i \in DOMAIN b : LastTold(b, k, i) /\ v = b[i].delta[k]
  <2>1. PICK i \in DOMAIN b : LastTold(b, k, i) /\ v = b[i].delta[k]
    BY <1>2
  <2>2. \/ b[i] = Head(b) /\ Tells(Head(b), k) /\ Untold(Tail(b), k)
        \/ \E j \in DOMAIN Tail(b) : Tail(b)[j] = b[i] /\ LastTold(Tail(b), k, j)
    BY <2>1, ToldTail
  <2> QED BY <2>1, <2>2 DEF KnownAs
<1> QED BY <1>1, <1>2 DEF KnownAs

LEMMA DeltaMessage ==
  ASSUME NEW d \in Statuses \cup {Nil}
  PROVE  [type |-> "StatusMsg", delta |-> d] \in AppMessages
<1>1. [type |-> "StatusMsg", delta |-> d] \in [type : {"StatusMsg"}, delta : Statuses \cup {Nil}]
  OBVIOUS
<1> QED BY <1>1, Zenon DEF AppMessages

LEMMA BatchMessage ==
  ASSUME NEW s \in Seq(1 .. MaxEvents), s # <<>>
  PROVE  [type |-> "Events", batch |-> s] \in AppMessages
<1>1. [type |-> "Events", batch |-> s] \in [type : {"Events"}, batch : Seq(1 .. MaxEvents) \ {<<>>}]
  OBVIOUS
<1> QED BY <1>1, Zenon DEF AppMessages

LEMMA MessageFacts ==
  ASSUME NEW m \in AppMessages
  PROVE  /\ m.type = "StatusMsg" => m.delta \in Statuses \cup {Nil}
         /\ m.type = "Events" => m.batch \in Seq(1 .. MaxEvents) \ {<<>>}
         /\ m.type = "Events" \/ m.type = "StatusMsg"
<1>1. \/ m \in [type : {"StatusMsg"}, delta : Statuses \cup {Nil}]
      \/ m \in [type : {"Events"}, batch : Seq(1 .. MaxEvents) \ {<<>>}]
  BY DEF AppMessages
<1>2. CASE m \in [type : {"StatusMsg"}, delta : Statuses \cup {Nil}]
  BY <1>2
<1>3. CASE m \in [type : {"Events"}, batch : Seq(1 .. MaxEvents) \ {<<>>}]
  BY <1>3
<1> QED BY <1>1, <1>2, <1>3

-----------------------------------------------------------------------------
(* Status: the deltas that wait and those sent on add up to the last one.  *)

StatusTyped ==
  /\ lastStatusMsg \in Statuses \cup {Nil} /\ groupID \in {GroupName, Nil}
  /\ appBox \in Seq(AppMessages) /\ view \in Statuses /\ steady \subseteq Fields

Followed == Remembered /\ \A k \in steady \ (Removed \cup Stamped) : FieldFollowed(k)

LEMMA KnownTyped ==
  ASSUME StatusTyped, NEW k \in Lists, NEW v, KnownAs(appBox, view, k, v)
  PROVE  v \in ListValues
<1>1. ASSUME NEW s \in Statuses, k \in DOMAIN s PROVE s[k] \in ListValues
  BY <1>1, StatusMeans DEF IsStatus
<1>2. ASSUME NEW i \in DOMAIN appBox, Tells(appBox[i], k) PROVE appBox[i].delta[k] \in ListValues
  <2>1. appBox[i] \in AppMessages
    BY DEF StatusTyped
  <2>2. appBox[i].delta \in Statuses /\ k \in DOMAIN appBox[i].delta
    BY <1>2, <2>1, MessageFacts DEF Tells
  <2> QED BY <1>1, <2>2
<1> QED BY <1>1, <1>2 DEF KnownAs, LastTold, StatusTyped

\* a field of both statuses that is not shown has not got away from what is known
LEMMA HiddenFollows ==
  ASSUME NEW s \in Statuses, NEW last \in Statuses, NEW k \in (DOMAIN s \cap DOMAIN last) \ Removed,
         ~Exposed(k, s, last), NEW v, k \in Lists => v \in ListValues,
         IF k \in Lists THEN IsPrefix(v, last[k]) ELSE v = last[k]
  PROVE  IF k \in Lists THEN IsPrefix(v, s[k]) ELSE v = s[k]
<1>1. IsStatus(s) /\ IsStatus(last)
  BY StatusMeans
<1>2. k \in Scalars \cup Lists
  BY <1>1 DEF Exposed, IsStatus, Fields
<1>3. CASE k \in Lists
  <2>1. s[k] \in ListValues /\ last[k] \in ListValues
    BY <1>1, <1>3 DEF IsStatus
  <2>2. CompareSlice(s[k], last[k])
    BY <1>3 DEF Exposed
  <2> QED BY <1>3, <2>1, <2>2, StaysPrefix
<1>4. CASE k \notin Lists
  BY <1>2, <1>4 DEF Exposed
<1> QED BY <1>3, <1>4

\* a status takes the place of the last one
LEMMA StatusFollowed ==
  ASSUME StatusTyped, Followed, NEW s \in Statuses,
         appBox' = Append(appBox, [type |-> "StatusMsg", delta |-> OnlyChanges(s, lastStatusMsg)]),
         lastStatusMsg' = s, view' = view,
         steady' = IF lastStatusMsg = Nil THEN DOMAIN s ELSE steady \cap DOMAIN s
  PROVE  /\ appBox' \in Seq(AppMessages) /\ steady' \subseteq Fields /\ Followed'
<1> DEFINE d == OnlyChanges(s, lastStatusMsg)
<1>1. PICK m : m = [type |-> "StatusMsg", delta |-> d]
  OBVIOUS
<1>2. d \in Statuses \cup {Nil}
  BY OnlyChangesStatus DEF StatusTyped
<1>3. m \in AppMessages /\ m.type = "StatusMsg" /\ m.delta = d
  BY <1>1, <1>2, DeltaMessage
<1>4. appBox' = Append(appBox, m) /\ appBox \in Seq(AppMessages)
  BY <1>1 DEF StatusTyped
<1>5. IsStatus(s) /\ s # Nil /\ DOMAIN s \subseteq Fields
  BY StatusMeans, NilAssumption DEF IsStatus
<1>6. appBox' \in Seq(AppMessages) /\ steady' \subseteq Fields
  BY <1>3, <1>4, <1>5 DEF StatusTyped
<1>7. Remembered'
  BY <1>5 DEF Remembered, Followed
<1>8. ASSUME NEW k \in DOMAIN s, Tells(m, k), d[k] = s[k] PROVE FieldFollowed(k)'
  <2>1. KnownAs(appBox', view', k, s[k])
    BY <1>3, <1>4, <1>8, KnownAppend
  <2>2. k \in Lists => IsPrefix(s[k], s[k])
    BY <1>5, OwnPrefix DEF IsStatus
  <2>3. Follows(k, s[k])'
    BY <2>2 DEF Follows
  <2> QED BY <2>1, <2>3 DEF FieldFollowed
<1>9. ASSUME NEW k \in steady' \ (Removed \cup Stamped) PROVE FieldFollowed(k)'
  <2>1. CASE lastStatusMsg = Nil
    <3>1. d = s /\ k \in DOMAIN s
      BY <2>1, OnlyChangesStatus DEF StatusTyped
    <3>2. Tells(m, k) /\ d[k] = s[k]
      BY <1>3, <1>5, <3>1 DEF Tells
    <3> QED BY <1>8, <3>1, <3>2
  <2>2. CASE lastStatusMsg # Nil
    <3>1. k \in DOMAIN s /\ k \in steady /\ lastStatusMsg \in Statuses /\ k \in DOMAIN lastStatusMsg
      BY <2>2 DEF StatusTyped, Followed, Remembered
    <3>2. CASE Exposed(k, s, lastStatusMsg)
      <4>1. d # Nil /\ k \in DOMAIN d /\ d[k] = s[k]
        BY <2>2, <3>1, <3>2, OnlyChangesStatus
      <4>2. Tells(m, k)
        BY <1>3, <4>1 DEF Tells
      <4> QED BY <1>8, <3>1, <4>1, <4>2
    <3>3. CASE ~Exposed(k, s, lastStatusMsg)
      <4>1. ~Tells(m, k)
        BY <1>3, <2>2, <3>1, <3>3, OnlyChangesStatus DEF Tells
      <4>2. PICK v : KnownAs(appBox, view, k, v) /\ Follows(k, v)
        BY <3>1 DEF Followed, FieldFollowed
      <4>3. KnownAs(appBox', view', k, v)
        BY <1>3, <1>4, <4>1, <4>2, KnownAppend
      <4>4. k \in Lists => v \in ListValues
        BY <4>2, KnownTyped
      <4>5. IF k \in Lists THEN IsPrefix(v, s[k]) ELSE v = s[k]
        BY <3>1, <3>3, <4>2, <4>4, HiddenFollows DEF Follows
      <4>6. Follows(k, v)'
        BY <4>5 DEF Follows
      <4> QED BY <4>3, <4>6 DEF FieldFollowed
    <3> QED BY <3>2, <3>3
  <2> QED BY <2>1, <2>2
<1> QED BY <1>6, <1>7, <1>9 DEF Followed

\* a batch tells nothing of a status
LEMMA BatchFollowed ==
  ASSUME StatusTyped, Followed, NEW m \in AppMessages, m.type = "Events",
         appBox' = Append(appBox, m) \/ appBox' = appBox,
         UNCHANGED <<statusVars, view>>
  PROVE  Followed'
<1>1. Remembered'
  BY DEF Followed, Remembered, statusVars
<1>2. ASSUME NEW k \in steady \ (Removed \cup Stamped) PROVE FieldFollowed(k)'
  <2>1. PICK v : KnownAs(appBox, view, k, v) /\ Follows(k, v)
    BY <1>2 DEF Followed, FieldFollowed
  <2>2. KnownAs(appBox', view', k, v)
    BY <2>1, KnownAppend DEF Tells, StatusTyped
  <2>3. Follows(k, v)'
    BY <2>1 DEF Follows, statusVars
  <2> QED BY <2>2, <2>3 DEF FieldFollowed
<1> QED BY <1>1, <1>2 DEF Followed, statusVars

\* App takes a message, and adds its delta to what was sent on
LEMMA TakenFollowed ==
  ASSUME StatusTyped, Followed, appBox # <<>>, appBox' = Tail(appBox), UNCHANGED statusVars,
         \/ Head(appBox).type = "Events" /\ view' = view
         \/ /\ Head(appBox).type = "StatusMsg" /\ Head(appBox).delta # Nil
            /\ view' = Over(Stamps(Head(appBox).delta), view)
  PROVE  appBox' \in Seq(AppMessages) /\ view' \in Statuses /\ Followed'
<1>1. appBox' \in Seq(AppMessages) /\ Head(appBox) \in AppMessages /\ appBox \in Seq(AppMessages)
  BY DEF StatusTyped
<1>2. Remembered'
  BY DEF Followed, Remembered, statusVars
<1>3. /\ view' \in Statuses
      /\ \A k : k \notin Stamped /\ Tells(Head(appBox), k) =>
           k \in DOMAIN view' /\ view'[k] = Head(appBox).delta[k]
      /\ \A k \in DOMAIN view : k \notin Stamped /\ ~Tells(Head(appBox), k) =>
           k \in DOMAIN view' /\ view'[k] = view[k]
  <2>1. CASE Head(appBox).type = "Events" /\ view' = view
    BY <2>1 DEF StatusTyped, Tells
  <2>2. CASE /\ Head(appBox).type = "StatusMsg" /\ Head(appBox).delta # Nil
             /\ view' = Over(Stamps(Head(appBox).delta), view)
    <3>1. IsStatus(Head(appBox).delta) /\ IsStatus(view)
      BY <1>1, <2>2, MessageFacts, StatusMeans DEF StatusTyped
    <3>2. PICK d : d = Stamps(Head(appBox).delta) /\ view' = Over(d, view)
      BY <2>2
    <3>3. /\ IsStatus(d) /\ DOMAIN d = Stamped \cup DOMAIN Head(appBox).delta
          /\ \A k \in DOMAIN Head(appBox).delta \ Stamped : d[k] = Head(appBox).delta[k]
      BY <3>1, <3>2, StampsStatus
    <3>4. /\ IsStatus(Over(d, view)) /\ DOMAIN Over(d, view) = DOMAIN d \cup DOMAIN view
          /\ \A k \in DOMAIN d : Over(d, view)[k] = d[k]
          /\ \A k \in DOMAIN view \ DOMAIN d : Over(d, view)[k] = view[k]
      BY <3>1, <3>3, OverStatus
    <3>5. /\ IsStatus(view') /\ DOMAIN view' = DOMAIN d \cup DOMAIN view
          /\ \A k \in DOMAIN d : view'[k] = d[k]
          /\ \A k \in DOMAIN view \ DOMAIN d : view'[k] = view[k]
      BY <3>2, <3>4
    <3> QED BY <2>2, <3>3, <3>5, StatusMeans DEF Tells
  <2> QED BY <2>1, <2>2
<1>4. ASSUME NEW k \in steady \ (Removed \cup Stamped) PROVE FieldFollowed(k)'
  <2>1. PICK v : KnownAs(appBox, view, k, v) /\ Follows(k, v)
    BY <1>4 DEF Followed, FieldFollowed
  <2>2. KnownAs(appBox', view', k, v)
    BY <1>1, <1>3, <2>1, KnownTail
  <2>3. Follows(k, v)'
    BY <2>1 DEF Follows, statusVars
  <2> QED BY <2>2, <2>3 DEF FieldFollowed
<1> QED BY <1>1, <1>2, <1>3, <1>4 DEF Followed, statusVars

\* StatusActor starts anew: nothing has to be followed
LEMMA NothingFollowed == lastStatusMsg = Nil /\ steady = {} => Followed
BY DEF Followed, Remembered

LEMMA SameFollowed ==
  ASSUME Followed, UNCHANGED <<statusVars, appBox, view>> PROVE Followed'
BY DEF Followed, Remembered, FieldFollowed, KnownAs, Untold, LastTold, Follows, statusVars

-----------------------------------------------------------------------------
(* Events: sequences in ascending order, ticks left out.                   *)

Ascends(s)   == \A i, j \in DOMAIN s : i < j => Precedes(s[i], s[j])
Before(S, T) == \A e \in S, f \in T : Precedes(e, f)

LEMMA EmptyFacts ==
  /\ Ascends(<<>>) /\ ToSet(<<>>) = {} /\ \A S : Before(S, {}) /\ Before({}, S)
BY DEF Ascends, ToSet, Before

LEMMA SetTyped == ASSUME NEW S, NEW s \in Seq(S) PROVE ToSet(s) \subseteq S
BY DEF ToSet

LEMMA AscendsAppend ==
  ASSUME NEW S, NEW s \in Seq(S), NEW e \in S
  PROVE  /\ Append(s, e) \in Seq(S) /\ ToSet(Append(s, e)) = ToSet(s) \cup {e}
         /\ Ascends(s) /\ Before(ToSet(s), {e}) => Ascends(Append(s, e))
<1> DEFINE t == Append(s, e)
<1>1. /\ t \in Seq(S) /\ DOMAIN t = 1 .. Len(s) + 1 /\ DOMAIN s = 1 .. Len(s) /\ Len(s) \in Nat
      /\ t[Len(s) + 1] = e /\ \A i \in 1 .. Len(s) : t[i] = s[i]
  OBVIOUS
<1> HIDE DEF t
<1>2. ToSet(t) = ToSet(s) \cup {e}
  <2>1. ToSet(t) \subseteq ToSet(s) \cup {e}
    BY <1>1 DEF ToSet
  <2>2. Len(s) + 1 \in DOMAIN t /\ \A i \in DOMAIN s : i \in DOMAIN t
    BY <1>1
  <2>3. ToSet(s) \cup {e} \subseteq ToSet(t)
    BY <1>1, <2>2 DEF ToSet
  <2> QED BY <2>1, <2>3
<1>3. ASSUME Ascends(s), Before(ToSet(s), {e}), NEW i \in DOMAIN t, NEW j \in DOMAIN t, i < j
      PROVE  Precedes(t[i], t[j])
  <2>1. i \in DOMAIN s /\ t[i] = s[i] /\ t[i] \in ToSet(s)
    BY <1>1, <1>3 DEF ToSet
  <2>2. CASE j = Len(s) + 1
    BY <1>1, <1>3, <2>1, <2>2 DEF Before
  <2>3. CASE j # Len(s) + 1
    <3>1. j \in DOMAIN s /\ t[j] = s[j]
      BY <1>1, <2>3
    <3> QED BY <1>3, <2>1, <3>1 DEF Ascends
  <2> QED BY <2>2, <2>3
<1>4. Ascends(s) /\ Before(ToSet(s), {e}) => Ascends(t)
  BY <1>3 DEF Ascends
<1> QED BY <1>1, <1>2, <1>4 DEF t

LEMMA AscendsTail ==
  ASSUME NEW S, NEW s \in Seq(S), s # <<>>
  PROVE  /\ Tail(s) \in Seq(S) /\ Head(s) \in S /\ ToSet(s) = {Head(s)} \cup ToSet(Tail(s))
         /\ Ascends(s) => Ascends(Tail(s)) /\ Before({Head(s)}, ToSet(Tail(s)))
<1> DEFINE t == Tail(s)
<1>1. /\ t \in Seq(S) /\ DOMAIN t = 1 .. Len(s) - 1 /\ DOMAIN s = 1 .. Len(s)
      /\ Len(s) \in Nat \ {0} /\ Head(s) = s[1] /\ Head(s) \in S
      /\ \A i \in 1 .. Len(s) - 1 : t[i] = s[i + 1]
  OBVIOUS
<1> HIDE DEF t
<1>2. \A i \in DOMAIN t : i + 1 \in DOMAIN s /\ 1 < i + 1 /\ t[i] = s[i + 1]
  BY <1>1
<1>3. ASSUME NEW i \in DOMAIN s, i # 1 PROVE i - 1 \in DOMAIN t /\ t[i - 1] = s[i]
  <2>1. i - 1 \in DOMAIN t /\ (i - 1) + 1 = i
    BY <1>1, <1>3
  <2> QED BY <1>2, <2>1
<1>4. 1 \in DOMAIN s
  BY <1>1
<1>5. ToSet(s) = {Head(s)} \cup ToSet(t)
  <2>1. ToSet(s) \subseteq {Head(s)} \cup ToSet(t)
    BY <1>1, <1>3 DEF ToSet
  <2>2. {Head(s)} \cup ToSet(t) \subseteq ToSet(s)
    BY <1>1, <1>2, <1>4 DEF ToSet
  <2> QED BY <2>1, <2>2
<1>6. Ascends(s) => Ascends(t)
  <2> SUFFICES ASSUME Ascends(s), NEW i \in DOMAIN t, NEW j \in DOMAIN t, i < j
               PROVE  Precedes(t[i], t[j])
    BY DEF Ascends
  <2>1. i + 1 < j + 1
    BY <1>1
  <2> QED BY <1>2, <2>1 DEF Ascends
<1>7. Ascends(s) => Before({Head(s)}, ToSet(t))
  BY <1>1, <1>2, <1>4 DEF Ascends, Before, ToSet
<1> QED BY <1>1, <1>5, <1>6, <1>7 DEF t

LEMMA AscendsConcat ==
  ASSUME NEW S, NEW s \in Seq(S), NEW t \in Seq(S)
  PROVE  /\ s \o t \in Seq(S) /\ ToSet(s \o t) = ToSet(s) \cup ToSet(t)
         /\ Ascends(s) /\ Ascends(t) /\ Before(ToSet(s), ToSet(t)) => Ascends(s \o t)
<1> DEFINE u == s \o t
<1>1. /\ u \in Seq(S) /\ DOMAIN u = 1 .. Len(s) + Len(t)
      /\ DOMAIN s = 1 .. Len(s) /\ DOMAIN t = 1 .. Len(t) /\ Len(s) \in Nat /\ Len(t) \in Nat
      /\ \A i \in 1 .. Len(s) : u[i] = s[i]
      /\ \A i \in Len(s) + 1 .. Len(s) + Len(t) : u[i] = t[i - Len(s)]
  OBVIOUS
<1> HIDE DEF u
<1>2. ASSUME NEW i \in DOMAIN u, i \notin DOMAIN s
      PROVE  i - Len(s) \in DOMAIN t /\ u[i] = t[i - Len(s)]
  BY <1>1, <1>2
<1>3. ASSUME NEW i \in DOMAIN t PROVE Len(s) + i \in DOMAIN u /\ u[Len(s) + i] = t[i]
  <2>1. Len(s) + i \in Len(s) + 1 .. Len(s) + Len(t) /\ (Len(s) + i) - Len(s) = i
    BY <1>1
  <2> QED BY <1>1, <2>1
<1>4. \A i \in DOMAIN s : i \in DOMAIN u /\ u[i] = s[i]
  BY <1>1
<1>5. ToSet(u) = ToSet(s) \cup ToSet(t)
  <2>1. ToSet(u) \subseteq ToSet(s) \cup ToSet(t)
    BY <1>2, <1>4 DEF ToSet
  <2>2. ToSet(s) \cup ToSet(t) \subseteq ToSet(u)
    BY <1>3, <1>4 DEF ToSet
  <2> QED BY <2>1, <2>2
<1>6. ASSUME Ascends(s), Ascends(t), Before(ToSet(s), ToSet(t)),
             NEW i \in DOMAIN u, NEW j \in DOMAIN u, i < j
      PROVE  Precedes(u[i], u[j])
  <2>1. CASE i \in DOMAIN s /\ j \in DOMAIN s
    BY <1>4, <1>6, <2>1 DEF Ascends
  <2>2. CASE i \in DOMAIN s /\ j \notin DOMAIN s
    BY <1>2, <1>4, <1>6, <2>2 DEF Before, ToSet
  <2>3. CASE i \notin DOMAIN s
    <3>1. j \notin DOMAIN s /\ i - Len(s) < j - Len(s)
      BY <1>1, <1>6, <2>3
    <3> QED BY <1>2, <1>6, <2>3, <3>1 DEF Ascends
  <2> QED BY <2>1, <2>2, <2>3
<1>7. Ascends(s) /\ Ascends(t) /\ Before(ToSet(s), ToSet(t)) => Ascends(u)
  BY <1>6 DEF Ascends
<1> QED BY <1>1, <1>5, <1>7 DEF u

-----------------------------------------------------------------------------
(* Events: the batches that wait for App.                                  *)

Sent(b) == UNION {ToSet(BatchOf(b[i])) : i \in DOMAIN b}

BatchesAscend(b) ==
  /\ \A i \in DOMAIN b : Ascends(BatchOf(b[i]))
  /\ \A i, j \in DOMAIN b : i < j => Before(ToSet(BatchOf(b[i])), ToSet(BatchOf(b[j])))

LEMMA SentMeans ==
  ASSUME NEW b, NEW e
  PROVE  e \in Sent(b) <=> \E i \in DOMAIN b : e \in ToSet(BatchOf(b[i]))
BY DEF Sent

LEMMA BatchFacts ==
  ASSUME NEW m \in AppMessages
  PROVE  /\ BatchOf(m) \in Seq(1 .. MaxEvents)
         /\ m.type = "StatusMsg" => BatchOf(m) = <<>>
         /\ m.type = "Events" => BatchOf(m) = m.batch
<1>1. <<>> \in Seq(1 .. MaxEvents) /\ "Events" # "StatusMsg"
  OBVIOUS
<1> QED BY <1>1, MessageFacts DEF BatchOf

LEMMA BatchesAppend ==
  ASSUME NEW b \in Seq(AppMessages), NEW m \in AppMessages
  PROVE  /\ Append(b, m) \in Seq(AppMessages)
         /\ Sent(Append(b, m)) = Sent(b) \cup ToSet(BatchOf(m))
         /\ BatchesAscend(b) /\ Ascends(BatchOf(m)) /\ Before(Sent(b), ToSet(BatchOf(m)))
              => BatchesAscend(Append(b, m))
<1> DEFINE c == Append(b, m)
<1>1. /\ c \in Seq(AppMessages) /\ DOMAIN c = 1 .. Len(b) + 1 /\ DOMAIN b = 1 .. Len(b)
      /\ Len(b) \in Nat /\ c[Len(b) + 1] = m /\ \A i \in 1 .. Len(b) : c[i] = b[i]
  OBVIOUS
<1> HIDE DEF c
<1>2. Len(b) + 1 \in DOMAIN c /\ \A i \in DOMAIN c : i \in DOMAIN b \/ i = Len(b) + 1
  BY <1>1
<1>3. \A i \in DOMAIN b : i \in DOMAIN c /\ c[i] = b[i]
  BY <1>1
<1>4. Sent(c) = Sent(b) \cup ToSet(BatchOf(m))
  <2>1. ASSUME NEW e \in Sent(c) PROVE e \in Sent(b) \cup ToSet(BatchOf(m))
    BY <1>1, <1>2, <1>3, SentMeans
  <2>2. ASSUME NEW e \in Sent(b) \cup ToSet(BatchOf(m)) PROVE e \in Sent(c)
    BY <1>1, <1>2, <1>3, SentMeans
  <2> QED BY <2>1, <2>2
<1>5. ASSUME BatchesAscend(b), Ascends(BatchOf(m)), Before(Sent(b), ToSet(BatchOf(m)))
      PROVE  BatchesAscend(c)
  <2>1. \A i \in DOMAIN c : Ascends(BatchOf(c[i]))
    BY <1>1, <1>2, <1>3, <1>5 DEF BatchesAscend
  <2>2. ASSUME NEW i \in DOMAIN c, NEW j \in DOMAIN c, i < j
        PROVE  Before(ToSet(BatchOf(c[i])), ToSet(BatchOf(c[j])))
    <3>1. i \in DOMAIN b /\ c[i] = b[i]
      BY <1>1, <2>2
    <3>2. CASE j \in DOMAIN b
      BY <1>3, <1>5, <2>2, <3>1, <3>2 DEF BatchesAscend
    <3>3. CASE j = Len(b) + 1
      <4>1. \A e \in ToSet(BatchOf(c[i])) : e \in Sent(b)
        BY <3>1, SentMeans
      <4> QED BY <1>1, <1>5, <3>3, <4>1 DEF Before
    <3> QED BY <1>2, <3>2, <3>3
  <2> QED BY <2>1, <2>2 DEF BatchesAscend
<1> QED BY <1>1, <1>4, <1>5 DEF c

LEMMA BatchesTail ==
  ASSUME NEW b \in Seq(AppMessages), b # <<>>
  PROVE  /\ Tail(b) \in Seq(AppMessages) /\ Head(b) \in AppMessages
         /\ Sent(b) = ToSet(BatchOf(Head(b))) \cup Sent(Tail(b))
         /\ BatchesAscend(b) => /\ BatchesAscend(Tail(b)) /\ Ascends(BatchOf(Head(b)))
                                /\ Before(ToSet(BatchOf(Head(b))), Sent(Tail(b)))
<1> DEFINE c == Tail(b)
<1>1. /\ c \in Seq(AppMessages) /\ DOMAIN c = 1 .. Len(b) - 1 /\ DOMAIN b = 1 .. Len(b)
      /\ Len(b) \in Nat \ {0} /\ Head(b) = b[1] /\ Head(b) \in AppMessages
      /\ \A i \in 1 .. Len(b) - 1 : c[i] = b[i + 1]
  OBVIOUS
<1> HIDE DEF c
<1>2. \A i \in DOMAIN c : i + 1 \in DOMAIN b /\ 1 < i + 1 /\ c[i] = b[i + 1]
  BY <1>1
<1>3. ASSUME NEW i \in DOMAIN b, i # 1 PROVE i - 1 \in DOMAIN c /\ c[i - 1] = b[i]
  <2>1. i - 1 \in DOMAIN c /\ (i - 1) + 1 = i
    BY <1>1, <1>3
  <2> QED BY <1>2, <2>1
<1>4. 1 \in DOMAIN b
  BY <1>1
<1>5. Sent(b) = ToSet(BatchOf(Head(b))) \cup Sent(c)
  <2>1. ASSUME NEW e \in Sent(b) PROVE e \in ToSet(BatchOf(Head(b))) \cup Sent(c)
    BY <1>1, <1>3, SentMeans
  <2>2. ASSUME NEW e \in ToSet(BatchOf(Head(b))) \cup Sent(c) PROVE e \in Sent(b)
    BY <1>1, <1>2, <1>4, SentMeans
  <2> QED BY <2>1, <2>2
<1>6. ASSUME BatchesAscend(b)
      PROVE  /\ BatchesAscend(c) /\ Ascends(BatchOf(Head(b)))
             /\ Before(ToSet(BatchOf(Head(b))), Sent(c))
  <2>1. \A i \in DOMAIN c : Ascends(BatchOf(c[i]))
    BY <1>2, <1>6 DEF BatchesAscend
  <2>2. ASSUME NEW i \in DOMAIN c, NEW j \in DOMAIN c, i < j
        PROVE  Before(ToSet(BatchOf(c[i])), ToSet(BatchOf(c[j])))
    <3>1. i + 1 < j + 1
      BY <1>1, <2>2
    <3> QED BY <1>2, <1>6, <3>1 DEF BatchesAscend
  <2>3. ASSUME NEW e \in ToSet(BatchOf(Head(b))), NEW f \in Sent(c) PROVE Precedes(e, f)
    <3>1. PICK i \in DOMAIN c : f \in ToSet(BatchOf(c[i]))
      BY SentMeans
    <3>2. Before(ToSet(BatchOf(b[1])), ToSet(BatchOf(b[i + 1])))
      BY <1>2, <1>4, <1>6 DEF BatchesAscend
    <3> QED BY <1>1, <1>2, <3>1, <3>2 DEF Before
  <2>4. Ascends(BatchOf(Head(b)))
    BY <1>1, <1>4, <1>6 DEF BatchesAscend
  <2> QED BY <2>1, <2>2, <2>3, <2>4 DEF BatchesAscend, Before
<1> QED BY <1>1, <1>5, <1>6 DEF c

-----------------------------------------------------------------------------
(* Events: each stands in one place, in the order they came.               *)

EventsTyped ==
  /\ eventsBox \in Seq(0 .. MaxEvents) /\ events \in Seq(1 .. MaxEvents)
  /\ appBox \in Seq(AppMessages) /\ posted \in 0 .. MaxEvents
  /\ delivered \in Seq(1 .. MaxEvents) /\ lost \subseteq 1 .. MaxEvents

Chain(D, W, E, X) == Before(D, W) /\ Before(D \cup W, E) /\ Before(D \cup W \cup E, X)

Standing ==
  (ToSet(delivered) \cup Sent(appBox) \cup ToSet(events) \cup ToSet(eventsBox)) \ {tickMsg}

InOrder ==
  /\ Ascends(delivered) /\ BatchesAscend(appBox) /\ Ascends(events) /\ Ascends(eventsBox)
  /\ Chain(ToSet(delivered), Sent(appBox), ToSet(events), ToSet(eventsBox))

Counted == Standing \cap lost = {} /\ Standing \cup lost = 1 .. posted

EachOnce == InOrder /\ Counted

\* what a chain is worth when elements move along it
LEMMA ChainFacts ==
  ASSUME NEW D, NEW W, NEW E, NEW X, Chain(D, W, E, X)
  PROVE  /\ \A e : Before(D \cup W \cup E \cup X, {e}) => Chain(D, W, E, X \cup {e})
         /\ \A e, Y : X = {e} \cup Y /\ Before({e}, Y) => Chain(D, W, E \cup {e}, Y)
         /\ \A Y : Y \subseteq X => Chain(D, W, E, Y)
         /\ Chain(D, W \cup E, {}, X)
         /\ \A B, V : W = B \cup V /\ Before(B, V) => Chain(D \cup B, V, E, X)
         /\ Chain(D, W, {}, {})
<1>1. ASSUME NEW e, Before(D \cup W \cup E \cup X, {e}) PROVE Chain(D, W, E, X \cup {e})
  BY <1>1 DEF Chain, Before
<1>2. ASSUME NEW e, NEW Y, X = {e} \cup Y, Before({e}, Y) PROVE Chain(D, W, E \cup {e}, Y)
  BY <1>2 DEF Chain, Before
<1>3. ASSUME NEW Y, Y \subseteq X PROVE Chain(D, W, E, Y)
  BY <1>3 DEF Chain, Before
<1>4. Chain(D, W \cup E, {}, X) /\ Chain(D, W, {}, {})
  BY DEF Chain, Before
<1>5. ASSUME NEW B, NEW V, W = B \cup V, Before(B, V) PROVE Chain(D \cup B, V, E, X)
  BY <1>5 DEF Chain, Before
<1> QED BY <1>1, <1>2, <1>3, <1>4, <1>5

LEMMA TickLast == \A S : Before(S, {tickMsg})
BY DEF Before, Precedes

LEMMA PostOnce == ASSUME EventsTyped, EachOnce, Post PROVE EventsTyped' /\ EachOnce'
<1> DEFINE e == posted + 1
<1>1. posted \in Nat /\ e \in 1 .. MaxEvents /\ e \in 0 .. MaxEvents /\ posted' = e
      /\ posted' \in 0 .. MaxEvents /\ 1 .. e = (1 .. posted) \cup {e} /\ e \notin 1 .. posted
      /\ e # tickMsg
  BY FieldsAssumption DEF EventsTyped, Post, tickMsg
<1>2. eventsBox' = Append(eventsBox, e) /\ UNCHANGED <<events, appBox, delivered, lost>>
  BY DEF Post
<1>3. \A x \in Standing : x < e
  BY <1>1 DEF EachOnce, Counted
<1>4. Before(ToSet(delivered) \cup Sent(appBox) \cup ToSet(events) \cup ToSet(eventsBox), {e})
  BY <1>3 DEF Before, Precedes, Standing
<1>5. Before(ToSet(eventsBox), {e})
  BY <1>4 DEF Before
<1> HIDE DEF e
<1>6. /\ eventsBox' \in Seq(0 .. MaxEvents) /\ ToSet(eventsBox') = ToSet(eventsBox) \cup {e}
      /\ Ascends(eventsBox')
  <2>1. PICK S : S = 0 .. MaxEvents
    OBVIOUS
  <2>2. eventsBox \in Seq(S) /\ e \in S /\ Ascends(eventsBox)
    BY <1>1, <2>1 DEF EventsTyped, EachOnce, InOrder
  <2>3. PICK t : t = Append(eventsBox, e)
    OBVIOUS
  <2>4. t \in Seq(S) /\ ToSet(t) = ToSet(eventsBox) \cup {e} /\ Ascends(t)
    BY <1>5, <2>2, <2>3, AscendsAppend
  <2> QED BY <1>2, <2>1, <2>3, <2>4
<1>7. InOrder'
  BY <1>2, <1>4, <1>6, ChainFacts DEF EachOnce, InOrder
<1>8. Standing' = Standing \cup {e}
  BY <1>1, <1>2, <1>6 DEF Standing
<1>9. e \notin lost
  BY <1>1 DEF EachOnce, Counted
<1>10. Counted'
  BY <1>1, <1>2, <1>8, <1>9 DEF EachOnce, Counted
<1> QED BY <1>1, <1>2, <1>6, <1>7, <1>10 DEF EventsTyped, EachOnce

LEMMA TickOnce == ASSUME EventsTyped, EachOnce, Tick PROVE EventsTyped' /\ EachOnce'
<1>1. /\ eventsBox' = Append(eventsBox, tickMsg)
      /\ UNCHANGED <<events, appBox, posted, delivered, lost>>
  BY DEF Tick
<1>2. tickMsg \in 0 .. MaxEvents
  BY FieldsAssumption DEF tickMsg
<1>3. /\ eventsBox' \in Seq(0 .. MaxEvents) /\ ToSet(eventsBox') = ToSet(eventsBox) \cup {tickMsg}
      /\ Ascends(eventsBox')
  <2>1. PICK S : S = 0 .. MaxEvents
    OBVIOUS
  <2>2. eventsBox \in Seq(S) /\ tickMsg \in S /\ Ascends(eventsBox)
    BY <1>2, <2>1 DEF EventsTyped, EachOnce, InOrder
  <2>3. PICK t : t = Append(eventsBox, tickMsg)
    OBVIOUS
  <2>4. t \in Seq(S) /\ ToSet(t) = ToSet(eventsBox) \cup {tickMsg} /\ Ascends(t)
    BY <2>2, <2>3, TickLast, AscendsAppend
  <2> QED BY <1>1, <2>1, <2>3, <2>4
<1>4. InOrder'
  BY <1>1, <1>3, TickLast, ChainFacts DEF EachOnce, InOrder
<1>5. Standing' = Standing
  BY <1>1, <1>3 DEF Standing
<1> QED BY <1>1, <1>3, <1>4, <1>5 DEF EventsTyped, EachOnce, Counted

LEMMA PutEventOnce == ASSUME EventsTyped, EachOnce, PutEvent PROVE EventsTyped' /\ EachOnce'
<1> DEFINE e == Head(eventsBox)
<1>1. /\ eventsBox # <<>> /\ e # tickMsg
      /\ events' = Append(events, e) /\ eventsBox' = Tail(eventsBox)
      /\ UNCHANGED <<appBox, posted, delivered, lost>>
  BY DEF PutEvent
<1>2. /\ eventsBox' \in Seq(0 .. MaxEvents) /\ e \in 0 .. MaxEvents
      /\ ToSet(eventsBox) = {e} \cup ToSet(eventsBox')
      /\ Ascends(eventsBox') /\ Before({e}, ToSet(eventsBox'))
  BY <1>1, AscendsTail DEF EventsTyped, EachOnce, InOrder
<1>3. e \in 1 .. MaxEvents
  BY <1>1, <1>2, FieldsAssumption DEF tickMsg
<1> HIDE DEF e
<1>4. Before(ToSet(events), {e})
  BY <1>2 DEF EachOnce, InOrder, Chain, Before
<1>5. /\ events' \in Seq(1 .. MaxEvents) /\ ToSet(events') = ToSet(events) \cup {e}
      /\ Ascends(events')
  <2>1. PICK S : S = 1 .. MaxEvents
    OBVIOUS
  <2>2. events \in Seq(S) /\ e \in S /\ Ascends(events)
    BY <1>3, <2>1 DEF EventsTyped, EachOnce, InOrder
  <2>3. PICK t : t = Append(events, e)
    OBVIOUS
  <2>4. t \in Seq(S) /\ ToSet(t) = ToSet(events) \cup {e} /\ Ascends(t)
    BY <1>4, <2>2, <2>3, AscendsAppend
  <2> QED BY <1>1, <2>1, <2>3, <2>4
<1>6. Chain(ToSet(delivered), Sent(appBox), ToSet(events) \cup {e}, ToSet(eventsBox'))
  BY <1>2, ChainFacts DEF EachOnce, InOrder
<1>7. InOrder'
  BY <1>1, <1>2, <1>5, <1>6 DEF EachOnce, InOrder
<1>8. Standing' = Standing
  BY <1>1, <1>2, <1>5 DEF Standing
<1> QED BY <1>1, <1>2, <1>5, <1>7, <1>8 DEF EventsTyped, EachOnce, Counted

LEMMA OnTickOnce == ASSUME EventsTyped, EachOnce, OnTick PROVE EventsTyped' /\ EachOnce'
<1>1. /\ eventsBox # <<>> /\ Head(eventsBox) = tickMsg /\ eventsBox' = Tail(eventsBox)
      /\ events' = <<>> /\ UNCHANGED <<posted, delivered, lost>>
  BY DEF OnTick, TakesTick
<1>2. /\ eventsBox' \in Seq(0 .. MaxEvents) /\ ToSet(eventsBox) = {tickMsg} \cup ToSet(eventsBox')
      /\ Ascends(eventsBox')
  BY <1>1, AscendsTail DEF EventsTyped, EachOnce, InOrder
<1>3. events' \in Seq(1 .. MaxEvents) /\ ToSet(events') = {} /\ Ascends(events')
  BY <1>1, EmptyFacts
<1>4. /\ appBox' \in Seq(AppMessages) /\ Sent(appBox') = Sent(appBox) \cup ToSet(events)
      /\ BatchesAscend(appBox')
  <2>1. CASE events = <<>>
    BY <1>1, <2>1, EmptyFacts DEF OnTick, EventsTyped, EachOnce, InOrder
  <2>2. CASE events # <<>>
    <3>1. PICK m : m = Batch
      OBVIOUS
    <3>2. m \in AppMessages
      BY <2>2, <3>1, BatchMessage DEF EventsTyped, Batch
    <3>3. BatchOf(m) = events
      BY <3>1 DEF Batch, BatchOf
    <3>4. Before(Sent(appBox), ToSet(events)) /\ Ascends(events) /\ BatchesAscend(appBox)
      BY DEF EachOnce, InOrder, Chain, Before
    <3>5. appBox' = Append(appBox, m)
      BY <2>2, <3>1 DEF OnTick
    <3> QED BY <3>2, <3>3, <3>4, <3>5, BatchesAppend DEF EventsTyped
  <2> QED BY <2>1, <2>2
<1>5. Chain(ToSet(delivered), Sent(appBox) \cup ToSet(events), {}, ToSet(eventsBox))
  BY ChainFacts DEF EachOnce, InOrder
<1>6. Chain(ToSet(delivered), Sent(appBox) \cup ToSet(events), {}, ToSet(eventsBox'))
  <2>1. ToSet(eventsBox') \subseteq ToSet(eventsBox)
    BY <1>2
  <2> QED BY <1>5, <2>1, ChainFacts
<1>7. InOrder'
  BY <1>1, <1>2, <1>3, <1>4, <1>6 DEF EachOnce, InOrder
<1>8. Standing' = Standing
  BY <1>1, <1>2, <1>3, <1>4 DEF Standing
<1> QED BY <1>1, <1>2, <1>3, <1>4, <1>7, <1>8 DEF EventsTyped, EachOnce, Counted

\* a status in the mailbox of App is no batch
LEMMA StatusOnce ==
  ASSUME EventsTyped, EachOnce, NEW m \in AppMessages, m.type = "StatusMsg",
         appBox' = Append(appBox, m), UNCHANGED <<eventVars, delivered, lost>>
  PROVE  EventsTyped' /\ EachOnce'
<1>1. BatchOf(m) = <<>> /\ Ascends(BatchOf(m)) /\ ToSet(BatchOf(m)) = {}
  BY BatchFacts, EmptyFacts
<1>2. /\ appBox' \in Seq(AppMessages) /\ Sent(appBox') = Sent(appBox)
      /\ BatchesAscend(appBox')
  BY <1>1, BatchesAppend, EmptyFacts DEF EventsTyped, EachOnce, InOrder
<1>3. InOrder' /\ Standing' = Standing
  BY <1>2 DEF EachOnce, InOrder, Standing, eventVars
<1> QED BY <1>2, <1>3 DEF EventsTyped, EachOnce, Counted, eventVars

LEMMA AppStepOnce == ASSUME EventsTyped, EachOnce, AppStep PROVE EventsTyped' /\ EachOnce'
<1>1. appBox # <<>> /\ appBox' = Tail(appBox)
  BY DEF AppStep, AppStatusMsg, AppEvents, AppPanics, AppTakes
<1>2. PICK B : B = ToSet(BatchOf(Head(appBox)))
  OBVIOUS
<1>3. /\ appBox' \in Seq(AppMessages) /\ Head(appBox) \in AppMessages
      /\ Sent(appBox) = B \cup Sent(appBox')
      /\ BatchesAscend(appBox') /\ Ascends(BatchOf(Head(appBox))) /\ Before(B, Sent(appBox'))
  BY <1>1, <1>2, BatchesTail DEF EventsTyped, EachOnce, InOrder
<1>4. CASE AppStatusMsg
  <2>1. B = {} /\ UNCHANGED <<eventVars, delivered, lost>>
    BY <1>2, <1>3, <1>4, BatchFacts, EmptyFacts DEF AppStatusMsg, AppTakes
  <2>2. InOrder' /\ Standing' = Standing
    BY <1>3, <2>1 DEF EachOnce, InOrder, Standing, eventVars
  <2> QED BY <1>3, <2>1, <2>2 DEF EventsTyped, EachOnce, Counted, eventVars
<1>5. CASE AppEvents
  <2>1. PICK s \in Seq(1 .. MaxEvents) : s = BatchOf(Head(appBox))
    BY <1>3, BatchFacts
  <2>2. delivered' = delivered \o s /\ UNCHANGED <<eventVars, lost>>
    BY <1>3, <1>5, <2>1, BatchFacts DEF AppEvents, AppTakes
  <2>3. Before(ToSet(delivered), ToSet(s)) /\ Ascends(s) /\ Ascends(delivered)
    BY <1>2, <1>3, <2>1 DEF EachOnce, InOrder, Chain, Before
  <2>4. /\ delivered' \in Seq(1 .. MaxEvents) /\ ToSet(delivered') = ToSet(delivered) \cup B
        /\ Ascends(delivered')
    BY <1>2, <2>1, <2>2, <2>3, AscendsConcat DEF EventsTyped
  <2>5. Chain(ToSet(delivered) \cup B, Sent(appBox'), ToSet(events), ToSet(eventsBox))
    BY <1>3, ChainFacts DEF EachOnce, InOrder
  <2>6. InOrder' /\ Standing' = Standing
    BY <1>3, <2>2, <2>4, <2>5 DEF EachOnce, InOrder, Standing, eventVars
  <2> QED BY <1>3, <2>2, <2>4, <2>6 DEF EventsTyped, EachOnce, Counted, eventVars
<1>6. CASE AppPanics
  <2>1. /\ B = {} /\ eventsBox' = <<>> /\ events' = <<>> /\ UNCHANGED <<posted, delivered>>
        /\ lost' = lost \cup ToSet(events) \cup (ToSet(eventsBox) \ {tickMsg})
    BY <1>2, <1>3, <1>6, BatchFacts, EmptyFacts DEF AppPanics, AppTakes
  <2>2. /\ eventsBox' \in Seq(0 .. MaxEvents) /\ events' \in Seq(1 .. MaxEvents)
        /\ ToSet(eventsBox') = {} /\ ToSet(events') = {} /\ Ascends(eventsBox') /\ Ascends(events')
    BY <2>1, EmptyFacts
  <2>3. Chain(ToSet(delivered), Sent(appBox), {}, {})
    BY ChainFacts DEF EachOnce, InOrder
  <2>4. InOrder'
    BY <1>3, <2>1, <2>2, <2>3 DEF EachOnce, InOrder
  <2>5. \A e \in ToSet(events) : e \in 1 .. MaxEvents /\ e # tickMsg
    <3>1. ToSet(events) \subseteq 1 .. MaxEvents
      BY SetTyped DEF EventsTyped
    <3> QED BY <3>1, FieldsAssumption DEF tickMsg
  <2>6. \A e \in ToSet(eventsBox) \ {tickMsg} : e \in 1 .. MaxEvents
    <3>1. ToSet(eventsBox) \subseteq 0 .. MaxEvents
      BY SetTyped DEF EventsTyped
    <3> QED BY <3>1, FieldsAssumption DEF tickMsg
  <2>7. ToSet(events) \cup (ToSet(eventsBox) \ {tickMsg}) \subseteq Standing
    BY <2>5 DEF Standing
  <2>8. Standing' = Standing \ (ToSet(events) \cup (ToSet(eventsBox) \ {tickMsg}))
    <3>1. ASSUME NEW e \in Standing', e \in ToSet(events) \cup (ToSet(eventsBox) \ {tickMsg})
          PROVE  FALSE
      <4>1. e \in ToSet(delivered) \cup Sent(appBox) /\ e # tickMsg
        BY <1>3, <2>1, <2>2, <3>1 DEF Standing
      <4>2. e < e
        BY <3>1, <4>1 DEF EachOnce, InOrder, Chain, Before, Precedes
      <4> QED BY <2>5, <2>6, <3>1, <4>2
    <3>2. Standing' \subseteq Standing
      BY <1>3, <2>1, <2>2 DEF Standing
    <3>3. Standing \ (ToSet(events) \cup (ToSet(eventsBox) \ {tickMsg})) \subseteq Standing'
      BY <1>3, <2>1, <2>2 DEF Standing
    <3> QED BY <3>1, <3>2, <3>3
  <2>9. Counted'
    BY <2>1, <2>7, <2>8 DEF EachOnce, Counted
  <2> QED BY <1>3, <2>1, <2>2, <2>4, <2>5, <2>6, <2>9 DEF EventsTyped, EachOnce
<1> QED BY <1>4, <1>5, <1>6 DEF AppStep
-----------------------------------------------------------------------------
(* From the mailboxes to Pipeline.                                         *)

\* what stands at place a of Pipeline
StandsAt(a) ==
  IF a = 1 THEN delivered
  ELSE IF a <= Len(appBox) + 1 THEN BatchOf(appBox[a - 1])
  ELSE IF a = Len(appBox) + 2 THEN events ELSE eventsBox

LEMMA ConcatMeans ==
  ASSUME NEW S, NEW s \in Seq(S), NEW t \in Seq(S)
  PROVE  /\ DOMAIN (s \o t) = 1 .. Len(s) + Len(t) /\ \A a \in 1 .. Len(s) : (s \o t)[a] = s[a]
         /\ \A a \in Len(s) + 1 .. Len(s) + Len(t) : (s \o t)[a] = t[a - Len(s)]
OBVIOUS

LEMMA PipelineMeans ==
  ASSUME EventsTyped
  PROVE  /\ DOMAIN Pipeline = 1 .. Len(appBox) + 3
         /\ \A a \in DOMAIN Pipeline : Pipeline[a] = StandsAt(a)
<1> DEFINE m == [i \in DOMAIN appBox |-> BatchOf(appBox[i])]
           n == Len(appBox)
<1>1. n \in Nat /\ DOMAIN appBox = 1 .. n
  BY DEF EventsTyped
<1>2. PICK S : /\ delivered \in S /\ events \in S /\ eventsBox \in S
               /\ \A i \in 1 .. n : BatchOf(appBox[i]) \in S
  <2>1. PICK S : S = {delivered, events, eventsBox} \cup {BatchOf(appBox[i]) : i \in 1 .. n}
    OBVIOUS
  <2> QED BY <2>1
<1>3. m \in Seq(S) /\ Len(m) = n /\ \A i \in 1 .. n : m[i] = BatchOf(appBox[i])
  BY <1>1, <1>2
<1> HIDE DEF m
<1> DEFINE p == <<delivered>> \o m
           q == <<events, eventsBox>>
<1>4. /\ p \in Seq(S) /\ Len(p) = n + 1 /\ p[1] = delivered
      /\ \A a \in 2 .. n + 1 : p[a] = m[a - 1]
  BY <1>1, <1>2, <1>3
<1>5. q \in Seq(S) /\ Len(q) = 2 /\ q[1] = events /\ q[2] = eventsBox
  BY <1>2
<1> HIDE DEF p, q
<1>6. /\ DOMAIN (p \o q) = 1 .. n + 3 /\ \A a \in 1 .. n + 1 : (p \o q)[a] = p[a]
      /\ (p \o q)[n + 2] = events /\ (p \o q)[n + 3] = eventsBox
  <2>1. /\ DOMAIN (p \o q) = 1 .. Len(p) + Len(q) /\ \A a \in 1 .. Len(p) : (p \o q)[a] = p[a]
        /\ \A a \in Len(p) + 1 .. Len(p) + Len(q) : (p \o q)[a] = q[a - Len(p)]
    BY <1>4, <1>5, ConcatMeans
  <2>2. DOMAIN (p \o q) = 1 .. n + 3 /\ \A a \in 1 .. n + 1 : (p \o q)[a] = p[a]
    BY <1>1, <1>4, <1>5, <2>1
  <2>3. n + 2 \in Len(p) + 1 .. Len(p) + Len(q) /\ (n + 2) - Len(p) = 1
    BY <1>1, <1>4, <1>5
  <2>4. n + 3 \in Len(p) + 1 .. Len(p) + Len(q) /\ (n + 3) - Len(p) = 2
    BY <1>1, <1>4, <1>5
  <2>5. (p \o q)[n + 2] = q[1]
    BY <2>1, <2>3
  <2>6. (p \o q)[n + 3] = q[2]
    BY <2>1, <2>4
  <2> QED BY <1>5, <2>2, <2>5, <2>6
<1>7. Pipeline = p \o q
  BY DEF Pipeline, p, q, m
<1>8. ASSUME NEW a \in 1 .. n + 3 PROVE Pipeline[a] = StandsAt(a)
  <2>1. CASE a = 1
    BY <1>1, <1>4, <1>6, <1>7, <2>1 DEF StandsAt
  <2>2. CASE a \in 2 .. n + 1
    <3>1. Pipeline[a] = m[a - 1] /\ a - 1 \in 1 .. n
      BY <1>1, <1>4, <1>6, <1>7, <2>2
    <3>2. m[a - 1] = BatchOf(appBox[a - 1])
      BY <1>3, <3>1
    <3> QED BY <1>1, <2>2, <3>1, <3>2 DEF StandsAt
  <2>3. CASE a = n + 2 \/ a = n + 3
    BY <1>1, <1>6, <1>7, <2>3 DEF StandsAt
  <2> QED BY <1>1, <2>1, <2>2, <2>3
<1> QED BY <1>6, <1>7, <1>8

LEMMA OnceMeans == ASSUME EventsTyped, EachOnce PROVE EventsOnce
<1> DEFINE n == Len(appBox)
<1>1. n \in Nat /\ DOMAIN appBox = 1 .. n
  BY DEF EventsTyped
<1>2. DOMAIN Pipeline = 1 .. n + 3 /\ \A a \in 1 .. n + 3 : Pipeline[a] = StandsAt(a)
  BY PipelineMeans
<1> HIDE DEF n
<1>3. /\ StandsAt(1) = delivered /\ StandsAt(n + 2) = events /\ StandsAt(n + 3) = eventsBox
      /\ \A i \in 1 .. n : i + 1 \in 1 .. n + 3 /\ StandsAt(i + 1) = BatchOf(appBox[i])
  BY <1>1 DEF StandsAt, n
<1>4. ASSUME NEW a \in 1 .. n + 3
      PROVE  \/ a = 1 \/ a = n + 2 \/ a = n + 3
             \/ a - 1 \in 1 .. n /\ StandsAt(a) = BatchOf(appBox[a - 1])
  BY <1>1 DEF StandsAt, n
<1>5. ASSUME NEW i \in 1 .. n PROVE ToSet(BatchOf(appBox[i])) \subseteq Sent(appBox)
  BY <1>1, SentMeans
<1>6. ASSUME NEW a \in 1 .. n + 3 PROVE Ascends(StandsAt(a))
  BY <1>1, <1>3, <1>4 DEF EachOnce, InOrder, BatchesAscend
<1>7. ASSUME NEW a \in 1 .. n + 3, NEW b \in 1 .. n + 3, a < b
      PROVE  Before(ToSet(StandsAt(a)), ToSet(StandsAt(b)))
  <2> DEFINE D == ToSet(delivered)
             W == Sent(appBox)
             E == ToSet(events)
             X == ToSet(eventsBox)
  <2>1. Before(D, W) /\ Before(D \cup W, E) /\ Before(D \cup W \cup E, X)
    BY DEF EachOnce, InOrder, Chain
  <2>2. \/ a = 1 /\ StandsAt(a) = delivered
        \/ a - 1 \in 1 .. n /\ ToSet(StandsAt(a)) \subseteq W
        \/ a = n + 2 /\ StandsAt(a) = events
    BY <1>1, <1>3, <1>4, <1>5, <1>7
  <2>3. CASE b = n + 3
    BY <1>3, <2>1, <2>2, <2>3 DEF Before
  <2>4. CASE b = n + 2
    <3>1. a # n + 2
      BY <1>1, <1>7, <2>4
    <3> QED BY <1>3, <2>1, <2>2, <2>4, <3>1 DEF Before
  <2>5. CASE b - 1 \in 1 .. n
    <3>1. StandsAt(b) = BatchOf(appBox[b - 1]) /\ ToSet(StandsAt(b)) \subseteq W
      <4>1. StandsAt(b) = BatchOf(appBox[b - 1])
        BY <1>1, <1>4, <2>5
      <4> QED BY <1>5, <2>5, <4>1
    <3>2. CASE a = 1
      BY <1>3, <2>1, <3>1, <3>2 DEF Before
    <3>3. CASE a # 1
      <4>1. a - 1 \in 1 .. n /\ a - 1 < b - 1 /\ StandsAt(a) = BatchOf(appBox[a - 1])
        BY <1>1, <1>4, <1>7, <2>5, <3>3
      <4> QED BY <1>1, <2>5, <3>1, <4>1 DEF EachOnce, InOrder, BatchesAscend
    <3> QED BY <3>2, <3>3
  <2>6. b # 1
    BY <1>1, <1>7
  <2> QED BY <1>4, <2>3, <2>4, <2>5, <2>6
<1>8. UNION {ToSet(Pipeline[a]) : a \in DOMAIN Pipeline} =
        ToSet(delivered) \cup Sent(appBox) \cup ToSet(events) \cup ToSet(eventsBox)
  <2> DEFINE all == ToSet(delivered) \cup Sent(appBox) \cup ToSet(events) \cup ToSet(eventsBox)
  <2>1. ASSUME NEW a \in 1 .. n + 3, NEW e \in ToSet(StandsAt(a)) PROVE e \in all
    BY <1>3, <1>4, <1>5, <2>1
  <2>2. ASSUME NEW e \in all PROVE \E a \in 1 .. n + 3 : e \in ToSet(StandsAt(a))
    <3>1. 1 \in 1 .. n + 3 /\ n + 2 \in 1 .. n + 3 /\ n + 3 \in 1 .. n + 3
      BY <1>1
    <3>2. ASSUME e \in Sent(appBox) PROVE \E a \in 1 .. n + 3 : e \in ToSet(StandsAt(a))
      <4>1. PICK i \in 1 .. n : e \in ToSet(BatchOf(appBox[i]))
        BY <1>1, <3>2, SentMeans
      <4> QED BY <1>3, <4>1
    <3> QED BY <1>3, <2>2, <3>1, <3>2
  <2> QED BY <1>2, <2>1, <2>2
<1>9. ASSUME NEW a \in DOMAIN Pipeline,
             NEW i \in DOMAIN Pipeline[a], NEW j \in DOMAIN Pipeline[a], i < j
      PROVE  Precedes(Pipeline[a][i], Pipeline[a][j])
  BY <1>2, <1>6, <1>9 DEF Ascends
<1>10. ASSUME NEW a \in DOMAIN Pipeline, NEW b \in DOMAIN Pipeline,
              NEW e \in ToSet(Pipeline[a]), NEW f \in ToSet(Pipeline[b]), a < b
       PROVE  Precedes(e, f)
  BY <1>2, <1>7, <1>10 DEF Before
<1>11. LET standing == (UNION {ToSet(Pipeline[a]) : a \in DOMAIN Pipeline}) \ {tickMsg} IN
         standing \cap lost = {} /\ standing \cup lost = 1 .. posted
  BY <1>8 DEF EachOnce, Counted, Standing
<1> QED BY <1>9, <1>10, <1>11 DEF EventsOnce

-----------------------------------------------------------------------------
(* The invariant.                                                          *)

Inv == StatusTyped /\ EventsTyped /\ Followed /\ EachOnce

LEMMA InitInv == Init => Inv
<1> SUFFICES ASSUME Init PROVE Inv
  OBVIOUS
<1>1. /\ appBox = <<>> /\ eventsBox = <<>> /\ events = <<>> /\ delivered = <<>>
      /\ lastStatusMsg = Nil /\ groupID = Nil /\ steady = {} /\ view = <<>>
      /\ posted = 0 /\ lost = {}
  BY DEF Init
<1>2. view \in Statuses
  <2>1. IsStatus(view)
    <3>1. view = <<>> /\ DOMAIN view = {}
      BY <1>1
    <3>2. view = [k \in DOMAIN view |-> view[k]]
      BY <3>1
    <3> QED BY <3>1, <3>2 DEF IsStatus
  <2> QED BY <2>1, StatusMeans
<1>3. <<>> \in Seq(AppMessages) /\ <<>> \in Seq(0 .. MaxEvents) /\ <<>> \in Seq(1 .. MaxEvents)
  OBVIOUS
<1>4. StatusTyped
  BY <1>1, <1>2, <1>3 DEF StatusTyped
<1>5. EventsTyped
  <2>1. posted \in 0 .. MaxEvents
    BY <1>1, FieldsAssumption
  <2> QED BY <1>1, <1>3, <2>1 DEF EventsTyped
<1>6. Followed
  BY <1>1, NothingFollowed
<1>7. Sent(appBox) = {} /\ BatchesAscend(appBox)
  BY <1>1 DEF Sent, BatchesAscend
<1>8. InOrder
  BY <1>1, <1>7, EmptyFacts DEF InOrder, Chain
<1>9. Counted
  <2>1. Standing = {} /\ 1 .. posted = {}
    BY <1>1, <1>7, EmptyFacts DEF Standing
  <2> QED BY <1>1, <2>1 DEF Counted
<1> QED BY <1>4, <1>5, <1>6, <1>8, <1>9 DEF Inv, EachOnce

LEMMA OnStatusMsgKeeps ==
  ASSUME Inv, NEW s \in BusStatuses, OnStatusMsg(s) PROVE Inv'
<1>1. PICK id \in GroupID :
        LET status == WithGroup(s, id) IN
          /\ StatusSent(OnlyChanges(status, lastStatusMsg))
          /\ lastStatusMsg' = status /\ groupID' = id
          /\ steady' = IF lastStatusMsg = Nil THEN DOMAIN status ELSE steady \cap DOMAIN status
  BY DEF OnStatusMsg
<1>2. UNCHANGED <<eventVars, view, delivered, lost>>
  BY DEF OnStatusMsg
<1>3. id \in {GroupName, Nil}
  BY DEF GroupID, Inv, StatusTyped
<1>4. PICK status \in Statuses : status = WithGroup(s, id)
  BY <1>3, GroupStatus DEF BusStatuses
<1>5. PICK m : m = [type |-> "StatusMsg", delta |-> OnlyChanges(status, lastStatusMsg)]
  OBVIOUS
<1>6. m \in AppMessages /\ m.type = "StatusMsg"
  <2>1. PICK d : d = OnlyChanges(status, lastStatusMsg)
    OBVIOUS
  <2>2. d \in Statuses \cup {Nil}
    BY <2>1, OnlyChangesStatus DEF Inv, StatusTyped
  <2> QED BY <1>5, <2>1, <2>2, DeltaMessage
<1>7. appBox' = Append(appBox, m)
  BY <1>1, <1>4, <1>5 DEF StatusSent
<1>8. appBox' \in Seq(AppMessages) /\ steady' \subseteq Fields /\ Followed'
  BY <1>1, <1>2, <1>4, <1>5, <1>7, StatusFollowed DEF Inv
<1>9. EventsTyped' /\ EachOnce'
  BY <1>2, <1>6, <1>7, StatusOnce DEF Inv
<1>10. StatusTyped'
  BY <1>1, <1>2, <1>3, <1>4, <1>8 DEF Inv, StatusTyped
<1> QED BY <1>8, <1>9, <1>10 DEF Inv

LEMMA SameOnce ==
  ASSUME EventsTyped, EachOnce, UNCHANGED <<eventVars, appBox, delivered, lost>>
  PROVE  EventsTyped' /\ EachOnce'
BY DEF EventsTyped, EachOnce, InOrder, Counted, Standing, eventVars

LEMMA SameTyped ==
  ASSUME StatusTyped, UNCHANGED <<statusVars, view>>, appBox' \in Seq(AppMessages)
  PROVE  StatusTyped'
BY DEF StatusTyped, statusVars

\* a batch joins the mailbox of App
LEMMA OnTickFollowed ==
  ASSUME Inv, OnTick PROVE Followed'
<1>1. UNCHANGED <<statusVars, view>>
  BY DEF OnTick
<1>2. CASE events = <<>>
  <2>1. appBox' = appBox
    BY <1>2 DEF OnTick
  <2> QED BY <1>1, <2>1, SameFollowed DEF Inv
<1>3. CASE events # <<>>
  <2>1. PICK m : m = Batch
    OBVIOUS
  <2>2. m \in AppMessages /\ m.type = "Events"
    BY <1>3, <2>1, BatchMessage DEF Inv, EventsTyped, Batch
  <2>3. appBox' = Append(appBox, m)
    BY <1>3, <2>1 DEF OnTick
  <2> QED BY <1>1, <2>2, <2>3, BatchFollowed DEF Inv
<1> QED BY <1>2, <1>3

LEMMA AppStepKeeps == ASSUME Inv, AppStep PROVE Inv'
<1>1. EventsTyped' /\ EachOnce'
  BY AppStepOnce DEF Inv
<1>2. appBox # <<>> /\ appBox' = Tail(appBox)
  BY DEF AppStep, AppStatusMsg, AppEvents, AppPanics, AppTakes
<1>3. CASE AppStatusMsg \/ AppEvents
  <2>1. /\ UNCHANGED statusVars
        /\ \/ Head(appBox).type = "Events" /\ view' = view
           \/ /\ Head(appBox).type = "StatusMsg" /\ Head(appBox).delta # Nil
              /\ view' = Over(Stamps(Head(appBox).delta), view)
    BY <1>3 DEF AppStatusMsg, AppEvents, AppTakes
  <2>2. appBox' \in Seq(AppMessages) /\ view' \in Statuses /\ Followed'
    BY <1>2, <2>1, TakenFollowed DEF Inv
  <2>3. StatusTyped'
    BY <2>1, <2>2 DEF Inv, StatusTyped, statusVars
  <2> QED BY <1>1, <2>2, <2>3 DEF Inv
<1>4. CASE AppPanics
  <2>1. lastStatusMsg' = Nil /\ groupID' = Nil /\ steady' = {} /\ view' = view
    BY <1>4 DEF AppPanics
  <2>2. Followed'
    BY <2>1 DEF Followed, Remembered
  <2>3. StatusTyped'
    BY <1>1, <2>1 DEF Inv, StatusTyped, EventsTyped
  <2> QED BY <1>1, <2>2, <2>3 DEF Inv
<1> QED BY <1>3, <1>4 DEF AppStep

LEMMA NextInv == Inv /\ [Next]_vars => Inv'
<1> SUFFICES ASSUME Inv, [Next]_vars PROVE Inv'
  OBVIOUS
<1>1. ASSUME NEW s \in BusStatuses, OnStatusMsg(s) PROVE Inv'
  BY <1>1, OnStatusMsgKeeps
<1>2. ASSUME NEW s \in BusStatuses, StatusActorPanics(s) PROVE Inv'
  <2>1. /\ lastStatusMsg' = Nil /\ groupID' = Nil /\ steady' = {}
        /\ UNCHANGED <<eventVars, appBox, view, delivered, lost>>
    BY <1>2 DEF StatusActorPanics
  <2>2. Followed'
    BY <2>1 DEF Followed, Remembered
  <2>3. StatusTyped'
    BY <2>1 DEF Inv, StatusTyped
  <2>4. EventsTyped' /\ EachOnce'
    BY <2>1, SameOnce DEF Inv
  <2> QED BY <2>2, <2>3, <2>4 DEF Inv
<1>3. CASE Post \/ Tick \/ PutEvent
  <2>1. UNCHANGED <<statusVars, appBox, view>>
    BY <1>3 DEF Post, Tick, PutEvent
  <2>2. Followed' /\ StatusTyped'
    BY <2>1, SameFollowed, SameTyped DEF Inv, StatusTyped
  <2>3. EventsTyped' /\ EachOnce'
    BY <1>3, PostOnce, TickOnce, PutEventOnce DEF Inv
  <2> QED BY <2>2, <2>3 DEF Inv
<1>4. CASE OnTick
  <2>1. EventsTyped' /\ EachOnce' /\ Followed'
    BY <1>4, OnTickOnce, OnTickFollowed DEF Inv
  <2>2. UNCHANGED <<statusVars, view>> /\ appBox' \in Seq(AppMessages)
    BY <1>4, <2>1 DEF OnTick, EventsTyped
  <2> QED BY <2>1, <2>2, SameTyped DEF Inv
<1>5. CASE AppStep
  BY <1>5, AppStepKeeps
<1>6. CASE UNCHANGED vars
  <2>1. UNCHANGED <<statusVars, appBox, view>> /\ UNCHANGED <<eventVars, appBox, delivered, lost>>
    BY <1>6 DEF vars
  <2> QED BY <2>1, SameFollowed, SameTyped, SameOnce DEF Inv, StatusTyped
<1> QED BY <1>1, <1>2, <1>3, <1>4, <1>5, <1>6 DEF Next, EventsStep

LEMMA AlwaysInv == Spec => []Inv
BY InitInv, NextInv, PTL DEF Spec

(* The collectors and App keep their types; App is sent no empty batch,     *)
(* whatever panics and restarts come between (events-actor.go:70).          *)
THEOREM TypeCorrect == Spec => []TypeOK
<1>1. Inv => TypeOK
  BY DEF Inv, StatusTyped, EventsTyped, TypeOK
<1> QED BY AlwaysInv, <1>1, PTL

(* What the deltas sent and waiting add up to has the last value of every   *)
(* field that no status left out since StatusActor started and App does not *)
(* write itself, of a list at least a prefix: for any fields and values, and*)
(* any length of the mailbox (status.go:103-117, 250-379;                   *)
(* app-actor.go:155-156).                                                   *)
THEOREM SteadyFollowed == Spec => []SteadyFieldsFollowed
<1>1. Inv => SteadyFieldsFollowed
  BY FollowedMeans DEF Inv, Followed
<1> QED BY AlwaysInv, <1>1, PTL

(* Each event posted stands in one place, in the order they came, from the  *)
(* mailbox of EventsActor to what App sends on, or went with a restart of   *)
(* App: for any number of events (events-actor.go:30-43, 69-73).            *)
THEOREM EachEventOnce == Spec => []EventsOnce
<1>1. Inv => EventsOnce
  BY OnceMeans DEF Inv
<1> QED BY AlwaysInv, <1>1, PTL
=============================================================================
