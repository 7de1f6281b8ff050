----------------------------- MODULE NatsProofs -----------------------------
(***************************************************************************)
(* Proofs about Nats, for any connections, messages and attempts.          *)
(***************************************************************************)
EXTENDS Nats, FiniteSetTheorems, TLAPS

-----------------------------------------------------------------------------
(* Keycloak: its types, which what the remote does to it keeps as well.    *)

LEMMA AppLetter ==
  /\ Letter("GroupIDRequest", "StatusActor") \in AppLetters
  /\ Letter("KeycloakAddressRequest", "Remote") \in AppLetters
  /\ \A l \in AppLetters : [l EXCEPT !.from = Nobody] \in AppLetters
  /\ \A l \in AppLetters : l.t = "GroupIDRequest" => l.from \in {"StatusActor", Nobody}
<1> DEFINE A == [t : {"GroupIDRequest"}, from : {"StatusActor", Nobody}]
           B == [t : {"KeycloakAddressRequest"}, from : {"Remote", Nobody}]
<1>1. AppLetters = A \cup B
  BY DEF AppLetters
<1>2. /\ Letter("GroupIDRequest", "StatusActor") \in A
      /\ Letter("KeycloakAddressRequest", "Remote") \in B
  BY DEF Letter
<1>3. \A l \in A : [l EXCEPT !.from = Nobody] \in A
  OBVIOUS
<1>4. \A l \in B : [l EXCEPT !.from = Nobody] \in B
  OBVIOUS
<1>5. \A l \in A : l.from \in {"StatusActor", Nobody}
  OBVIOUS
<1>6. \A l \in B : l.t # "GroupIDRequest"
  OBVIOUS
<1> HIDE DEF A, B
<1> QED BY <1>1, <1>2, <1>3, <1>4, <1>5, <1>6

LEMMA KeycLetter ==
  /\ Letter("GroupIDRequest", "App") \in KeycLetters
  /\ Letter("TokenRequest", "Remote") \in KeycLetters
  /\ \A l \in KeycLetters : [l EXCEPT !.from = Nobody] \in KeycLetters
<1> DEFINE A == [t : {"GroupIDRequest"}, from : {"App", Nobody}]
           B == [t : {"TokenRequest"}, from : {"Remote", Nobody}]
<1>1. KeycLetters = A \cup B
  BY DEF KeycLetters
<1>2. Letter("GroupIDRequest", "App") \in A /\ Letter("TokenRequest", "Remote") \in B
  BY DEF Letter
<1>3. \A l \in A : [l EXCEPT !.from = Nobody] \in A
  OBVIOUS
<1>4. \A l \in B : [l EXCEPT !.from = Nobody] \in B
  OBVIOUS
<1> HIDE DEF A, B
<1> QED BY <1>1, <1>2, <1>3, <1>4

LEMMA DisownTyped ==
  ASSUME NEW S, NEW s \in Seq(S), NEW c, \A l \in S : [l EXCEPT !.from = Nobody] \in S
  PROVE  Disown(s, c) \in Seq(S)
<1>1. \A i \in 1 .. Len(s) : s[i] \in S
  OBVIOUS
<1>2. \A i \in 1 .. Len(s) : (IF s[i].from = c THEN [s[i] EXCEPT !.from = Nobody] ELSE s[i]) \in S
  BY <1>1
<1>3. DOMAIN s = 1 .. Len(s) /\ Len(s) \in Nat
  OBVIOUS
<1> QED BY <1>2, <1>3 DEF Disown

LEMMA FutureTyped ==
  ASSUME future \in [Callers -> Held], NEW c, NEW v \in Held
  PROVE  /\ [future EXCEPT ![c] = v] \in [Callers -> Held]
         /\ Answered(c, v) => future' \in [Callers -> Held]
BY DEF Answered

LEMMA HeldFacts ==
  /\ "none" \in Held /\ "waiting" \in Held /\ "address" \in Held
  /\ "token" \in Held /\ "nilToken" \in Held /\ "group" \in Held
BY DEF Held

LEMMA FaultTyped == ASSUME faults \in 0 .. MaxFaults, Fault PROVE faults' \in 0 .. MaxFaults
BY MaxFaultsAssumption DEF Fault

LEMMA ExpiresTyped ==
  ASSUME KeycloakTypeOK, NEW c, Expires(c)
  PROVE  /\ abox' \in Seq(AppLetters) /\ kbox' \in Seq(KeycLetters)
         /\ serving' \in KeycLetters \cup {Nil}
         /\ future' \in [Callers -> Held] /\ faults' \in 0 .. MaxFaults
<1>1. abox' = Disown(abox, c) /\ kbox' = Disown(kbox, c)
  BY DEF Expires
<1>2. abox \in Seq(AppLetters) /\ kbox \in Seq(KeycLetters)
  BY DEF KeycloakTypeOK
<1>3. abox' \in Seq(AppLetters)
  BY <1>1, <1>2, AppLetter, DisownTyped
<1>4. kbox' \in Seq(KeycLetters)
  BY <1>1, <1>2, KeycLetter, DisownTyped
<1>5. serving' \in KeycLetters \cup {Nil}
  <2>1. serving' = IF serving # Nil /\ serving.from = c
                   THEN [serving EXCEPT !.from = Nobody] ELSE serving
    BY DEF Expires
  <2> QED BY <2>1, KeycLetter DEF KeycloakTypeOK
<1>6. future' \in [Callers -> Held]
  BY FutureTyped, HeldFacts DEF Expires, KeycloakTypeOK
<1>7. faults' \in 0 .. MaxFaults
  BY FaultTyped DEF Expires, KeycloakTypeOK
<1> QED BY <1>3, <1>4, <1>5, <1>6, <1>7

LEMMA StatusStepTyped == ASSUME KeycloakTypeOK, StatusStep PROVE KeycloakTypeOK'
<1>1. CASE AskGroup
  <2>1. abox' = Append(abox, Letter("GroupIDRequest", "StatusActor"))
    BY <1>1 DEF AskGroup
  <2>2. abox' \in Seq(AppLetters)
    BY <2>1, AppLetter DEF KeycloakTypeOK
  <2>3. future' \in [Callers -> Held]
    BY <1>1, FutureTyped, HeldFacts DEF AskGroup, KeycloakTypeOK
  <2> QED BY <1>1, <2>2, <2>3 DEF AskGroup, KeycloakTypeOK
<1>2. CASE GroupAnswered
  <2>1. future' \in [Callers -> Held]
    BY <1>2, FutureTyped, HeldFacts DEF GroupAnswered, KeycloakTypeOK
  <2> QED BY <1>2, <2>1 DEF GroupAnswered, KeycloakTypeOK
<1>3. CASE GroupExpires
  <2>1. /\ Expires("StatusActor") /\ UNCHANGED <<keyc, tokenSource, groupID>>
        /\ forward' = IF forward = "StatusActor" THEN Nobody ELSE forward
    BY <1>3 DEF GroupExpires
  <2> QED BY <2>1, ExpiresTyped DEF KeycloakTypeOK
<1> QED BY <1>1, <1>2, <1>3 DEF StatusStep

LEMMA AppStepTyped == ASSUME KeycloakTypeOK, AppStep PROVE KeycloakTypeOK'
<1>1. CASE AppAddress
  <2>1. abox # <<>> /\ abox' = Tail(abox) /\ Answered(Head(abox).from, "address")
    BY <1>1 DEF AppAddress, AppTakes
  <2>2. abox' \in Seq(AppLetters)
    BY <2>1 DEF KeycloakTypeOK
  <2>3. future' \in [Callers -> Held]
    <3>1. PICK c : c = Head(abox).from
      OBVIOUS
    <3> QED BY <2>1, <3>1, FutureTyped, HeldFacts DEF KeycloakTypeOK
  <2> QED BY <1>1, <2>2, <2>3 DEF AppAddress, KeycloakTypeOK
<1>2. CASE AppForwards
  <2>1. /\ abox # <<>> /\ Head(abox).t = "GroupIDRequest" /\ abox' = Tail(abox)
        /\ forward' = Head(abox).from
        /\ kbox' = Append(kbox, Letter("GroupIDRequest", "App"))
    BY <1>2 DEF AppForwards, AppTakes
  <2>2. abox' \in Seq(AppLetters) /\ Head(abox) \in AppLetters
    BY <2>1 DEF KeycloakTypeOK
  <2>3. forward' \in {"StatusActor", Nobody}
    BY <2>1, <2>2, AppLetter
  <2>4. kbox' \in Seq(KeycLetters)
    BY <2>1, KeycLetter DEF KeycloakTypeOK
  <2>5. future' \in [Callers -> Held]
    BY <1>2, FutureTyped, HeldFacts DEF AppForwards, KeycloakTypeOK
  <2> QED BY <1>2, <2>2, <2>3, <2>4, <2>5 DEF AppForwards, KeycloakTypeOK
<1>3. CASE AppAnswers
  <2>1. future' \in [Callers -> Held]
    BY <1>3, HeldFacts DEF AppAnswers, KeycloakTypeOK
  <2> QED BY <1>3, <2>1 DEF AppAnswers, KeycloakTypeOK
<1>4. CASE AppGivesUp
  <2>1. Expires("App") /\ forward' = Nil /\ UNCHANGED <<keyc, tokenSource, groupID>>
    BY <1>4 DEF AppGivesUp
  <2> QED BY <2>1, ExpiresTyped DEF KeycloakTypeOK
<1> QED BY <1>1, <1>2, <1>3, <1>4 DEF AppStep

LEMMA KeycStepTyped == ASSUME KeycloakTypeOK, KeycStep PROVE KeycloakTypeOK'
<1>1. CASE KeycTakes
  <2>1. serving' \in KeycLetters /\ kbox' \in Seq(KeycLetters)
    BY <1>1 DEF KeycTakes, KeycloakTypeOK
  <2> QED BY <1>1, <2>1 DEF KeycTakes, KeycloakTypeOK
<1> DEFINE Answers(v) == Answered(serving.from, v)
<1>2. ASSUME NEW v \in Held, Answers(v) PROVE future' \in [Callers -> Held]
  <2>1. PICK c : c = serving.from
    OBVIOUS
  <2> QED BY <1>2, <2>1, FutureTyped DEF KeycloakTypeOK
<1> HIDE DEF Answers
<1>3. CASE TokenFromSource
  <2>1. Answers("token")
    BY <1>3 DEF TokenFromSource, Answers
  <2>2. future' \in [Callers -> Held]
    BY <1>2, <2>1, HeldFacts
  <2> QED BY <1>3, <2>2 DEF TokenFromSource, Serves, KeycloakTypeOK
<1>4. CASE TokenFromLogin
  <2>1. Answers("nilToken")
    BY <1>4 DEF TokenFromLogin, Answers
  <2>2. future' \in [Callers -> Held]
    BY <1>2, <2>1, HeldFacts
  <2>3. faults' \in 0 .. MaxFaults
    BY <1>4, FaultTyped DEF TokenFromLogin, KeycloakTypeOK
  <2> QED BY <1>4, <2>2, <2>3 DEF TokenFromLogin, KeycServer, TokenSorce, Serves, KeycloakTypeOK
<1>5. CASE TokenFails
  <2>1. faults' \in 0 .. MaxFaults
    BY <1>5, FaultTyped DEF TokenFails, KeycloakTypeOK
  <2>2. keyc' \in BOOLEAN /\ (keyc => keyc')
    BY <1>5 DEF TokenFails, KeycServer, KeycloakTypeOK
  <2> QED BY <1>5, <2>1, <2>2 DEF TokenFails, Serves, KeycloakTypeOK
<1>6. CASE GroupFromServer
  <2>1. Answers("group")
    BY <1>6 DEF GroupFromServer, Answers
  <2>2. future' \in [Callers -> Held]
    BY <1>2, <2>1, HeldFacts
  <2> QED BY <1>6, <2>2 DEF GroupFromServer, KeycServer, TokenSorce, Serves, KeycloakTypeOK
<1>7. CASE GroupFails
  <2>1. faults' \in 0 .. MaxFaults
    BY <1>7, FaultTyped DEF GroupFails, KeycloakTypeOK
  <2>2. keyc' \in BOOLEAN /\ (keyc => keyc')
    BY <1>7 DEF GroupFails, KeycServer, KeycloakTypeOK
  <2>3. tokenSource' \in BOOLEAN /\ (tokenSource' => keyc')
    BY <1>7, <2>2 DEF GroupFails, TokenSorce, KeycloakTypeOK
  <2> QED BY <1>7, <2>1, <2>2, <2>3 DEF GroupFails, Serves, KeycloakTypeOK
<1> QED BY <1>1, <1>3, <1>4, <1>5, <1>6, <1>7 DEF KeycStep

LEMMA KeycloakTyped == ASSUME KeycloakTypeOK, KeycloakNext PROVE KeycloakTypeOK'
BY StatusStepTyped, AppStepTyped, KeycStepTyped DEF KeycloakNext
-----------------------------------------------------------------------------
(* The mailbox of the remote actor.                                        *)

Letters == {reconnectRemote, Started} \cup {RemoteMSG2(m) : m \in Messages}

\* x came before every message in b; b has its messages in order; none is after n
Later(b, x)  == \A i \in DOMAIN b : b[i].t = "RemoteMSG2" => x < b[i].m
Ordered(b)   == \A i, j \in DOMAIN b :
                  i < j /\ b[i].t = "RemoteMSG2" /\ b[j].t = "RemoteMSG2" => b[i].m < b[j].m
Within(b, n) == \A i \in DOMAIN b : b[i].m <= n

\* what holds of the messages of b holds of those of c
Keeps(b, c) ==
  /\ c \in Seq(Letters)
  /\ \A x : Later(b, x) => Later(c, x)
  /\ \A n \in Nat : Within(b, n) => Within(c, n)
  /\ Ordered(b) => Ordered(c)

LEMMA BoxLetters ==
  /\ reconnectRemote \in Letters /\ Started \in Letters
  /\ reconnectRemote.t # "RemoteMSG2" /\ reconnectRemote.m = 0
  /\ \A m \in Messages : /\ RemoteMSG2(m) \in Letters
                        /\ RemoteMSG2(m).t = "RemoteMSG2" /\ RemoteMSG2(m).m = m
  /\ \A l \in Letters : l.m \in Nat /\ (l.t = "RemoteMSG2" => l.m \in Messages /\ 0 < l.m)
<1>1. \A m \in Messages : m \in Nat /\ 0 < m
  BY NatsAssumption DEF Messages
<1>2. \A m \in Messages : RemoteMSG2(m) \in Letters
  BY DEF Letters
<1>3. \A m : RemoteMSG2(m).t = "RemoteMSG2" /\ RemoteMSG2(m).m = m
  BY DEF RemoteMSG2
<1>4. reconnectRemote.t # "RemoteMSG2" /\ reconnectRemote.m = 0 /\ Started.m = 0
  BY DEF reconnectRemote, Started
<1>5. ASSUME NEW l \in Letters
      PROVE  l.m \in Nat /\ (l.t = "RemoteMSG2" => l.m \in Messages /\ 0 < l.m)
  BY <1>1, <1>3, <1>4 DEF Letters, Started, reconnectRemote
<1> QED BY <1>2, <1>3, <1>4, <1>5 DEF Letters

LEMMA TailKeeps ==
  ASSUME NEW b \in Seq(Letters), b # <<>>
  PROVE  /\ Keeps(b, Tail(b)) /\ Head(b) \in Letters
         /\ Ordered(b) /\ Head(b).t = "RemoteMSG2" => Later(Tail(b), Head(b).m)
         /\ \A x : Later(b, x) /\ Head(b).t = "RemoteMSG2" => x < Head(b).m
         /\ \A n : Within(b, n) => Head(b).m <= n
<1> DEFINE c == Tail(b)
<1>1. /\ c \in Seq(Letters) /\ DOMAIN c = 1 .. Len(b) - 1 /\ DOMAIN b = 1 .. Len(b)
      /\ Len(b) \in Nat \ {0} /\ Head(b) = b[1] /\ Head(b) \in Letters
      /\ \A i \in 1 .. Len(b) - 1 : c[i] = b[i + 1]
  OBVIOUS
<1> HIDE DEF c
<1>2. \A i \in DOMAIN c : i + 1 \in DOMAIN b /\ 1 < i + 1 /\ c[i] = b[i + 1]
  BY <1>1
<1>3. 1 \in DOMAIN b
  BY <1>1
<1>4. ASSUME Ordered(b), NEW i \in DOMAIN c, NEW j \in DOMAIN c, i < j,
             c[i].t = "RemoteMSG2", c[j].t = "RemoteMSG2"
      PROVE  c[i].m < c[j].m
  <2>1. i + 1 < j + 1
    BY <1>1, <1>4
  <2> QED BY <1>2, <1>4, <2>1 DEF Ordered
<1>5. Keeps(b, c)
  BY <1>1, <1>2, <1>4 DEF Keeps, Later, Within, Ordered
<1>6. Ordered(b) /\ Head(b).t = "RemoteMSG2" => Later(c, Head(b).m)
  BY <1>1, <1>2, <1>3 DEF Ordered, Later
<1> QED BY <1>1, <1>3, <1>5, <1>6 DEF c, Later, Within

LEMMA BoxAppend ==
  ASSUME NEW b \in Seq(Letters), NEW l \in Letters
  PROVE  /\ Append(b, l) \in Seq(Letters)
         /\ \A x : Later(b, x) /\ (l.t = "RemoteMSG2" => x < l.m) => Later(Append(b, l), x)
         /\ \A n : Within(b, n) /\ l.m <= n => Within(Append(b, l), n)
         /\ Ordered(b) /\ (l.t = "RemoteMSG2" => \A i \in DOMAIN b : b[i].m < l.m)
              => Ordered(Append(b, l))
<1> DEFINE c == Append(b, l)
<1>1. /\ c \in Seq(Letters) /\ DOMAIN c = 1 .. Len(b) + 1 /\ DOMAIN b = 1 .. Len(b)
      /\ Len(b) \in Nat /\ c[Len(b) + 1] = l /\ \A i \in 1 .. Len(b) : c[i] = b[i]
  OBVIOUS
<1> HIDE DEF c
<1>2. \A i \in DOMAIN c : (i \in DOMAIN b /\ c[i] = b[i]) \/ (i = Len(b) + 1 /\ c[i] = l)
  BY <1>1
<1>3. \A i, j \in DOMAIN c : i < j => i \in DOMAIN b
  BY <1>1
<1>4. Ordered(b) /\ (l.t = "RemoteMSG2" => \A i \in DOMAIN b : b[i].m < l.m) => Ordered(c)
  BY <1>2, <1>3 DEF Ordered
<1> QED BY <1>1, <1>2, <1>4 DEF c, Later, Within

LEMMA NoteKeeps ==
  ASSUME NEW b \in Seq(Letters)
  PROVE  Keeps(b, b) /\ Keeps(b, Append(b, reconnectRemote))
<1>1. \A n \in Nat : reconnectRemote.m <= n
  BY BoxLetters
<1> QED BY <1>1, BoxAppend, BoxLetters DEF Keeps
-----------------------------------------------------------------------------
(* The invariant.                                                          *)

Busy    == pc \in {"publish", "ack"}
Flights == [copy : Copies, on : Conns \cup {Nil}]

Typed ==
  /\ box \in Seq(Letters)
  /\ pc \in {"idle", "address", "token", "dial", "publish", "ack"}
  /\ handler \in {"Started", "reconnectRemote", Nil}
  /\ token \in {"valid", "expired", Nil} /\ (pc = "dial" => token # Nil)
  /\ age \in 0 .. 3
  /\ cur \in Messages \cup {0} /\ try \in 0 .. Attempts /\ acked \in BOOLEAN
  /\ arrived \in 0 .. MaxMessages
  /\ stream \in Seq(Copies) /\ sent \subseteq Messages

Linked ==
  /\ conn \in Conns \cup {Nil}
  /\ link \in [Conns -> {"closed", "open", "lost"}]
  /\ flight \subseteq Flights
  /\ \A e \in flight : e.on # Nil => link[e.on] # "closed"

\* the message of copy x was taken from the mailbox
Behind(x) == x.m <= arrived /\ Later(box, x.m)

\* copy x is of an earlier message, or of an attempt that was made
Tried(x) ==
  /\ x.m <= cur
  /\ x.m = cur => IF pc = "publish" THEN x.try < try ELSE x.try <= try

\* what was published is behind what waits, and that in order
Passed ==
  /\ Ordered(box) /\ Within(box, arrived)
  /\ \A i \in DOMAIN stream : Behind(stream[i])
  /\ \A e \in flight : Behind(e.copy)
  /\ cur <= arrived /\ Later(box, cur)

Sending ==
  /\ Busy => /\ conn # Nil /\ cur # 0 /\ try # 0
             /\ \A i \in DOMAIN stream : Tried(stream[i])
             /\ \A e \in flight : Tried(e.copy)
  /\ ~Busy => cur = 0
  /\ acked => pc = "ack" /\ \E i \in DOMAIN stream : stream[i].m = cur

\* a copy is in one place
Once ==
  /\ \A i, j \in DOMAIN stream : stream[i] = stream[j] => i = j
  /\ \A d, e \in flight : d.copy = e.copy => d = e
  /\ \A i \in DOMAIN stream : \A e \in flight : stream[i] # e.copy

RemoteInv == Typed /\ Linked /\ Passed /\ Sending /\ Once /\ SentIsStored /\ SentPrecedesLater
Inv == KeycloakTypeOK /\ RemoteInv

LEMMA Numbers ==
  ASSUME Typed
  PROVE  /\ cur \in Nat /\ try \in Nat /\ arrived \in Nat
         /\ \A m \in Messages : m \in Nat \ {0} /\ m <= MaxMessages
         /\ Attempts \in Nat \ {0} /\ MaxMessages \in Nat
BY NatsAssumption DEF Typed, Messages

LEMMA CopyFacts ==
  /\ \A x \in Copies : x.m \in Messages /\ x.m \in Nat \ {0} /\ x.try \in 1 .. Attempts /\ x.try \in Nat
  /\ \A x, y \in Copies : x.m = y.m /\ x.try = y.try => x = y
BY NatsAssumption DEF Copies, Messages

\* the attempts of its copies tell them apart
LEMMA OncePerAttempt ==
  ASSUME Typed, Once PROVE CopiesBounded
<1> SUFFICES ASSUME NEW m \in Messages
             PROVE  Cardinality({i \in DOMAIN stream : stream[i].m = m}) <= Attempts
  BY DEF CopiesBounded
<1>1. stream \in Seq(Copies) /\ Attempts \in Nat
  BY Numbers DEF Typed
<1> DEFINE S == {i \in DOMAIN stream : stream[i].m = m}
           f == [i \in S |-> stream[i].try]
<1>2. \A i \in S : stream[i] \in Copies /\ stream[i].m = m /\ i \in DOMAIN stream
  BY <1>1
<1>3. f \in [S -> 1 .. Attempts]
  BY <1>2, CopyFacts
<1>4. \A i, j \in S : f[i] = f[j] => i = j
  BY <1>2, CopyFacts DEF Once
<1>5. IsFiniteSet(1 .. Attempts) /\ Cardinality(1 .. Attempts) = Attempts
  <2>1. Cardinality(1 .. Attempts) = IF 1 > Attempts THEN 0 ELSE Attempts - 1 + 1
    BY <1>1, FS_Interval
  <2> QED BY <1>1, <2>1, FS_Interval
<1> HIDE DEF S, f
<1>6. f \in Injection(S, 1 .. Attempts)
  BY <1>3, <1>4 DEF Injection, IsInjective
<1>7. Cardinality(S) <= Cardinality(1 .. Attempts)
  BY <1>5, <1>6, FS_Injection DEF ExistsInjection
<1> QED BY <1>5, <1>7 DEF S

LEMMA InvMeans ==
  Inv => NatsTypeOK /\ SentPrecedesLater /\ CopiesBounded /\ SentIsStored
<1> SUFFICES ASSUME Inv PROVE NatsTypeOK /\ SentPrecedesLater /\ CopiesBounded /\ SentIsStored
  OBVIOUS
<1>1. NatsTypeOK
  BY DEF Inv, RemoteInv, Typed, Linked, NatsTypeOK, Letters, Flights
<1>2. CopiesBounded
  BY OncePerAttempt DEF Inv, RemoteInv
<1> QED BY <1>1, <1>2 DEF Inv, RemoteInv

LEMMA LaterZero == ASSUME NEW b \in Seq(Letters) PROVE Later(b, 0)
BY BoxLetters DEF Later

-----------------------------------------------------------------------------
(* What is in flight.                                                      *)

\* what is in flight after the step was before it, wherever
Kept ==
  /\ \A f \in flight' : \E e \in flight : e.copy = f.copy
  /\ \A d, e \in flight' : d.copy = e.copy => d = e

LEMMA FlightKept ==
  ASSUME Linked, Once, NEW c \in Conns, flight' \in {flight, Adrift(c), Unsent(c)}
  PROVE  /\ Kept /\ flight' \subseteq Flights
         /\ \A f \in flight' : \E e \in flight : f.on \in {Nil, e.on} /\ (f.on = c => flight' = flight)
<1>1. CASE flight' = flight
  BY <1>1 DEF Kept, Once, Linked
<1>2. CASE flight' = Unsent(c)
  BY <1>2 DEF Kept, Once, Linked, Unsent
<1>3. CASE flight' = Adrift(c)
  <2>1. c # Nil
    BY NatsAssumption
  <2>2. ASSUME NEW e \in flight
        PROVE  /\ [e EXCEPT !.on = Nil] \in Flights /\ [e EXCEPT !.on = Nil].copy = e.copy
               /\ [e EXCEPT !.on = Nil].on = Nil
    BY DEF Linked, Flights
  <2> DEFINE g(e) == IF e.on = c THEN [e EXCEPT !.on = Nil] ELSE e
  <2>3. \A e \in flight : g(e) \in Flights /\ g(e).copy = e.copy /\ g(e).on # c /\ g(e).on \in {Nil, e.on}
    BY <2>1, <2>2 DEF Linked
  <2>4. \A f \in flight' : \E e \in flight : f = g(e)
    BY <1>3 DEF Adrift
  <2> HIDE DEF g
  <2>5. ASSUME NEW d \in flight', NEW e \in flight', d.copy = e.copy PROVE d = e
    BY <2>3, <2>4, <2>5 DEF Once
  <2> QED BY <2>3, <2>4, <2>5 DEF Kept
<1> QED BY <1>1, <1>2, <1>3

LEMMA CloseFacts ==
  ASSUME Linked, Once, NEW c \in Conns \cup {Nil}, Close(c) \/ UNCHANGED <<link, flight>>,
         conn' \in Conns \cup {Nil}
  PROVE  Linked' /\ Kept
<1>1. CASE c = Nil \/ UNCHANGED <<link, flight>>
  <2>1. UNCHANGED <<link, flight>>
    BY <1>1 DEF Close
  <2> QED BY <2>1 DEF Linked, Kept, Once
<1>2. CASE c # Nil /\ Close(c)
  <2>1. /\ c \in Conns /\ link' = [link EXCEPT ![c] = "closed"]
        /\ flight' \in {Adrift(c), Unsent(c)}
    BY <1>2 DEF Close
  <2>2. /\ Kept /\ flight' \subseteq Flights
    BY <2>1, FlightKept
  <2>3. ASSUME NEW f \in flight', f.on # Nil PROVE f.on # c /\ \E e \in flight : e.on = f.on
    BY <2>1, <2>3 DEF Adrift, Unsent, Linked, Flights
  <2>4. link' \in [Conns -> {"closed", "open", "lost"}]
    BY <2>1 DEF Linked
  <2>5. \A f \in flight' : f.on # Nil => link'[f.on] # "closed"
    BY <2>1, <2>2, <2>3 DEF Linked, Flights
  <2> QED BY <2>2, <2>4, <2>5 DEF Linked
<1> QED BY <1>1, <1>2

\* what takes a message from the mailbox, or adds a request to reconnect
LEMMA PassedKept ==
  ASSUME Typed, Passed, Keeps(box, box'), Kept, cur' \in {cur, 0}, UNCHANGED <<arrived, stream>>
  PROVE  Passed'
<1>1. Later(box', 0) /\ 0 <= arrived /\ arrived \in Nat
  BY LaterZero, Numbers DEF Keeps
<1>2. Later(box', cur')
  BY <1>1 DEF Passed, Keeps
<1>3. cur' <= arrived'
  BY <1>1 DEF Passed
<1>4. \A f \in flight' : f.copy.m <= arrived' /\ Later(box', f.copy.m)
  BY DEF Passed, Keeps, Kept, Behind
<1> QED BY <1>1, <1>2, <1>3, <1>4 DEF Passed, Keeps, Behind

LEMMA OnceKept == ASSUME Once, Kept, stream' = stream PROVE Once'
BY DEF Once, Kept

\* the remote is not in sendMSG after the step
LEMMA IdleKeeps ==
  ASSUME RemoteInv, Linked', Kept,
         pc' \in {"idle", "address", "token", "dial"},
         handler' \in {"Started", "reconnectRemote", Nil},
         token' \in {"valid", "expired", Nil}, pc' = "dial" => token' # Nil,
         age' \in 0 .. 3, cur' = 0, try' \in 0 .. Attempts, acked' = FALSE,
         Keeps(box, box'), UNCHANGED <<arrived, stream>>,
         sent' \subseteq Messages, SentIsStored', SentPrecedesLater'
  PROVE  RemoteInv'
<1>1. Typed'
  BY DEF RemoteInv, Typed, Keeps
<1>2. Passed' /\ Once'
  BY PassedKept, OnceKept DEF RemoteInv
<1>3. ~Busy'
  BY DEF Busy
<1>4. Sending'
  BY <1>3 DEF Sending, Busy
<1> QED BY <1>1, <1>2, <1>4 DEF RemoteInv

\* what sendMSG does is left alone
LEMMA SendingKept ==
  ASSUME RemoteInv, Typed', Linked', Kept, Keeps(box, box'),
         UNCHANGED <<pc, conn, cur, try, acked, arrived, stream, sent>>
  PROVE  RemoteInv'
<1>1. Passed' /\ Once'
  BY PassedKept, OnceKept DEF RemoteInv
<1>2. Sending'
  <2>1. Busy => \A f \in flight' : Tried(f.copy)
    BY DEF RemoteInv, Sending, Kept
  <2> QED BY <2>1 DEF RemoteInv, Sending, Busy, Tried
<1>3. SentIsStored' /\ SentPrecedesLater'
  BY DEF RemoteInv, SentIsStored, SentPrecedesLater
<1> QED BY <1>1, <1>2, <1>3 DEF RemoteInv

LEMMA BoxSame == ASSUME Typed PROVE Keeps(box, box)
BY NoteKeeps DEF Typed

LEMMA FlightSame == ASSUME Once, flight' = flight PROVE Kept
BY DEF Once, Kept

\* a request to reconnect is added, or not
LEMMA AskedKeeps ==
  ASSUME NEW b \in Seq(Letters) PROVE Keeps(b, AskedAgain(b))
BY NoteKeeps DEF AskedAgain

LEMMA TailAskedKeeps ==
  ASSUME NEW b \in Seq(Letters), b # <<>> PROVE Keeps(b, AskedAgain(Tail(b)))
<1>1. PICK c : c = Tail(b)
  OBVIOUS
<1>2. Keeps(b, c) /\ c \in Seq(Letters)
  BY <1>1, TailKeeps DEF Keeps
<1>3. Keeps(c, AskedAgain(c))
  BY <1>2, AskedKeeps
<1> QED BY <1>1, <1>2, <1>3 DEF Keeps
-----------------------------------------------------------------------------
(* The steps of connect().                                                 *)

\* outside sendMSG, where it stays and the stream is as it was
LEMMA Resting ==
  ASSUME RemoteInv, ~Busy, UNCHANGED <<cur, try, acked, stream, sent, token, age>>
  PROVE  /\ cur' = 0 /\ acked' = FALSE /\ sent' \subseteq Messages
         /\ SentIsStored' /\ SentPrecedesLater'
         /\ token' \in {"valid", "expired", Nil} /\ age' \in 0 .. 3 /\ try' \in 0 .. Attempts
BY DEF RemoteInv, Sending, Busy, Typed, SentIsStored, SentPrecedesLater

LEMMA AskTyped ==
  ASSUME KeycloakTypeOK, NEW h, AsksAddress(h)
  PROVE  abox' \in Seq(AppLetters) /\ future' \in [Callers -> Held]
<1>1. abox' = Append(abox, Letter("KeycloakAddressRequest", "Remote"))
  BY DEF AsksAddress
<1>2. abox' \in Seq(AppLetters)
  BY <1>1, AppLetter DEF KeycloakTypeOK
<1>3. future' \in [Callers -> Held]
  BY FutureTyped, HeldFacts DEF AsksAddress, KeycloakTypeOK
<1> QED BY <1>2, <1>3

LEMMA TakesKeeps ==
  ASSUME Typed, box # <<>>, box' = Tail(box) PROVE Keeps(box, box')
BY TailKeeps DEF Typed

\* a step of connect that is not in sendMSG before or after, whatever it closes
LEMMA ConnectKeeps ==
  ASSUME RemoteInv, ~Busy, NEW c \in Conns \cup {Nil}, Close(c) \/ UNCHANGED <<link, flight>>,
         conn' \in Conns \cup {Nil},
         pc' \in {"idle", "address", "token", "dial"},
         handler' \in {"Started", "reconnectRemote", Nil},
         token' \in {"valid", "expired", Nil}, pc' = "dial" => token' # Nil,
         age' \in 0 .. 3, Keeps(box, box'),
         UNCHANGED <<cur, try, acked, arrived, stream, sent>>
  PROVE  RemoteInv'
<1>1. Linked' /\ Kept
  BY CloseFacts DEF RemoteInv
<1>2. /\ cur' = 0 /\ acked' = FALSE /\ sent' \subseteq Messages
      /\ SentIsStored' /\ SentPrecedesLater' /\ try' \in 0 .. Attempts
  BY DEF RemoteInv, Sending, Busy, Typed, SentIsStored, SentPrecedesLater
<1> QED BY <1>1, <1>2, IdleKeeps

LEMMA AsksKeeps ==
  ASSUME Inv, NEW h \in {"Started", "reconnectRemote"}, pc = "idle", AsksAddress(h),
         age' \in 0 .. 3,
         Keeps(box, box'),
         UNCHANGED <<forward, kbox, serving, keyc, tokenSource, groupID, faults,
                     conn, token, cur, try, acked, arrived, stream, sent>>
  PROVE  Inv'
<1>1. KeycloakTypeOK'
  BY AskTyped DEF Inv, KeycloakTypeOK
<1>2. pc' = "address" /\ handler' = h /\ (Close(conn) \/ UNCHANGED <<link, flight>>)
  BY DEF AsksAddress
<1>3. conn \in Conns \cup {Nil} /\ conn' = conn
  BY DEF Inv, RemoteInv, Linked
<1>4. token' \in {"valid", "expired", Nil}
  BY DEF Inv, RemoteInv, Typed
<1>5. RemoteInv'
  BY <1>2, <1>3, <1>4, ConnectKeeps DEF Inv, Busy
<1> QED BY <1>1, <1>5 DEF Inv

LEMMA OnStartedKeeps == ASSUME Inv, OnStarted PROVE Inv'
<1>1. /\ pc = "idle" /\ box # <<>> /\ box' = Tail(box) /\ AsksAddress("Started")
      /\ UNCHANGED <<forward, kbox, serving, keyc, tokenSource, groupID, faults,
                     conn, token, age, cur, try, acked, arrived, stream, sent>>
  BY DEF OnStarted, Takes
<1>2. Keeps(box, box') /\ age' \in 0 .. 3
  BY <1>1, TakesKeeps DEF Inv, RemoteInv, Typed
<1> QED BY <1>1, <1>2, AsksKeeps

LEMMA OnReconnectRemoteKeeps == ASSUME Inv, OnReconnectRemote PROVE Inv'
<1>1. /\ pc = "idle" /\ box # <<>> /\ box' = Tail(box)
      /\ UNCHANGED <<forward, kbox, serving, keyc, tokenSource, groupID, faults,
                     conn, token, cur, try, acked, arrived, stream, sent>>
      /\ \/ UNCHANGED <<abox, future, pc, handler, link, flight, age>>
         \/ AsksAddress("reconnectRemote") /\ age' = 0
  BY DEF OnReconnectRemote, Takes
<1>2. Keeps(box, box')
  BY <1>1, TakesKeeps DEF Inv, RemoteInv
<1>3. CASE AsksAddress("reconnectRemote") /\ age' = 0
  <2>1. age' \in 0 .. 3
    BY <1>3
  <2> QED BY <1>1, <1>2, <1>3, <2>1, AsksKeeps
<1>4. CASE UNCHANGED <<abox, future, pc, handler, link, flight, age>>
  <2>1. KeycloakTypeOK'
    BY <1>1, <1>4 DEF Inv, KeycloakTypeOK
  <2>2. Linked' /\ Kept
    BY <1>1, <1>4, FlightSame DEF Inv, RemoteInv, Linked
  <2>3. Typed'
    BY <1>1, <1>2, <1>4 DEF Inv, RemoteInv, Typed, Keeps
  <2>4. RemoteInv'
    BY <1>1, <1>2, <1>4, <2>2, <2>3, SendingKept DEF Inv
  <2> QED BY <2>1, <2>4 DEF Inv
<1> QED BY <1>1, <1>3, <1>4

LEMMA HasAddressKeeps == ASSUME Inv, HasAddress PROVE Inv'
<1>1. /\ pc = "address" /\ pc' \in {"dial", "token"} /\ (pc' = "dial" => token' = "valid")
      /\ token' \in {token, "expired", Nil}
      /\ UNCHANGED <<abox, forward, serving, keyc, tokenSource, groupID, faults,
                     box, handler, conn, link, flight, age, cur, try, acked, arrived,
                     stream, sent>>
  BY DEF HasAddress
<1>2. kbox' \in Seq(KeycLetters)
  <2>1. kbox' = kbox \/ kbox' = Append(kbox, Letter("TokenRequest", "Remote"))
    BY DEF HasAddress
  <2> QED BY <2>1, KeycLetter DEF Inv, KeycloakTypeOK
<1>3. future' \in [Callers -> Held]
  BY FutureTyped, HeldFacts DEF HasAddress, Inv, KeycloakTypeOK
<1>4. KeycloakTypeOK'
  BY <1>1, <1>2, <1>3 DEF Inv, KeycloakTypeOK
<1>5. Keeps(box, box') /\ ~Busy /\ conn' \in Conns \cup {Nil}
  BY <1>1, BoxSame DEF Inv, RemoteInv, Busy, Linked
<1>6. /\ token' \in {"valid", "expired", Nil} /\ (pc' = "dial" => token' # Nil)
      /\ handler' \in {"Started", "reconnectRemote", Nil} /\ age' \in 0 .. 3
  BY <1>1, NatsAssumption DEF Inv, RemoteInv, Typed
<1>7. RemoteInv'
  BY <1>1, <1>5, <1>6, ConnectKeeps DEF Inv
<1> QED BY <1>4, <1>7 DEF Inv

LEMMA HasTokenKeeps == ASSUME Inv, HasToken PROVE Inv'
<1>1. /\ pc = "token"
      /\ token' \in {"valid", Nil}
      /\ \/ token' = Nil /\ pc' = "idle" /\ handler' = Nil
              /\ (Close(conn) \/ UNCHANGED <<link, flight>>)
         \/ token' # Nil /\ pc' = "dial" /\ UNCHANGED <<handler, link, flight>>
      /\ UNCHANGED <<abox, forward, kbox, serving, keyc, tokenSource, groupID, faults,
                     box, conn, age, cur, try, acked, arrived, stream, sent>>
  BY DEF HasToken, Fails
<1>2. future' \in [Callers -> Held]
  BY FutureTyped, HeldFacts DEF HasToken, Inv, KeycloakTypeOK
<1>3. KeycloakTypeOK'
  BY <1>1, <1>2 DEF Inv, KeycloakTypeOK
<1>4. Keeps(box, box') /\ ~Busy /\ conn \in Conns \cup {Nil} /\ conn' = conn
  BY <1>1, BoxSame DEF Inv, RemoteInv, Busy, Linked
<1>5. handler' \in {"Started", "reconnectRemote", Nil} /\ age' \in 0 .. 3
  BY <1>1 DEF Inv, RemoteInv, Typed
<1>6. pc' \in {"idle", "address", "token", "dial"} /\ (pc' = "dial" => token' # Nil)
  BY <1>1
<1>7. Close(conn) \/ UNCHANGED <<link, flight>>
  BY <1>1
<1>8. RemoteInv'
  BY <1>1, <1>4, <1>5, <1>6, <1>7, ConnectKeeps DEF Inv
<1> QED BY <1>3, <1>8 DEF Inv

LEMMA RequestExpiresKeeps == ASSUME Inv, RequestExpires PROVE Inv'
<1>1. /\ pc \in {"address", "token"} /\ Expires("Remote") /\ pc' = "idle" /\ handler' = Nil
      /\ (Close(conn) \/ UNCHANGED <<link, flight>>)
      /\ UNCHANGED <<forward, keyc, tokenSource, groupID,
                     box, conn, token, age, cur, try, acked, arrived, stream, sent>>
  BY DEF RequestExpires, Fails
<1>2. KeycloakTypeOK'
  BY <1>1, ExpiresTyped DEF Inv, KeycloakTypeOK
<1>3. Keeps(box, box') /\ ~Busy /\ conn \in Conns \cup {Nil} /\ conn' = conn
  BY <1>1, BoxSame DEF Inv, RemoteInv, Busy, Linked
<1>4. token' \in {"valid", "expired", Nil} /\ age' \in 0 .. 3
  BY <1>1 DEF Inv, RemoteInv, Typed
<1>5. RemoteInv'
  BY <1>1, <1>3, <1>4, ConnectKeeps DEF Inv
<1> QED BY <1>2, <1>5 DEF Inv

LEMMA DialKeeps == ASSUME Inv, NEW ok \in BOOLEAN, Dial(ok) PROVE Inv'
<1>1. /\ pc = "dial" /\ pc' = "idle" /\ handler' = Nil
      /\ UNCHANGED <<abox, forward, kbox, serving, keyc, tokenSource, future, groupID,
                     box, token, age, cur, try, acked, arrived, stream, sent>>
  BY DEF Dial, Fails
<1>2. KeycloakTypeOK'
  <2>1. faults' \in 0 .. MaxFaults
    BY FaultTyped DEF Dial, Inv, KeycloakTypeOK
  <2> QED BY <1>1, <2>1 DEF Inv, KeycloakTypeOK
<1>3. Keeps(box, box') /\ ~Busy
  BY <1>1, BoxSame DEF Inv, RemoteInv, Busy
<1>4. token' \in {"valid", "expired", Nil} /\ age' \in 0 .. 3
  BY <1>1 DEF Inv, RemoteInv, Typed
<1>5. CASE ok
  <2>1. PICK f : f = Fresh
    OBVIOUS
  <2>2. /\ \E c \in Conns : link[c] = "closed"
        /\ conn' = f /\ link' = [link EXCEPT ![f] = "open"] /\ flight' = flight
    BY <1>5, <2>1 DEF Dial
  <2>3. f \in Conns
    BY <2>1, <2>2 DEF Fresh
  <2>4. Linked' /\ Kept
    BY <2>2, <2>3, FlightSame DEF Inv, RemoteInv, Linked, Flights
  <2>5. /\ cur' = 0 /\ acked' = FALSE /\ sent' \subseteq Messages /\ try' \in 0 .. Attempts
        /\ SentIsStored' /\ SentPrecedesLater'
    BY <1>1, <1>3, Resting DEF Inv
  <2>6. RemoteInv'
    BY <1>1, <1>3, <1>4, <2>4, <2>5, IdleKeeps DEF Inv
  <2> QED BY <1>2, <2>6 DEF Inv
<1>6. CASE ~ok
  <2>1. conn' = Nil /\ (Close(Nil) \/ UNCHANGED <<link, flight>>)
    BY <1>6 DEF Dial, Fails
  <2>2. RemoteInv'
    BY <1>1, <1>3, <1>4, <2>1, ConnectKeeps DEF Inv
  <2> QED BY <1>2, <2>2 DEF Inv
<1> QED BY <1>5, <1>6
-----------------------------------------------------------------------------
(* The steps of sendMSG.                                                   *)

LEMMA OnRemoteMSG2Keeps == ASSUME Inv, NEW m \in Messages, OnRemoteMSG2(m) PROVE Inv'
<1>1. /\ pc = "idle" /\ box # <<>> /\ Head(box) = RemoteMSG2(m)
      /\ UNCHANGED <<keycloakVars, handler, conn, token, link, flight, age, acked, arrived,
                     stream, sent>>
  BY DEF OnRemoteMSG2
<1>2. KeycloakTypeOK'
  BY <1>1 DEF Inv, KeycloakTypeOK, keycloakVars
<1>3. ~Busy /\ cur = 0 /\ acked = FALSE
  BY <1>1 DEF Inv, RemoteInv, Sending, Busy, Typed
<1>4. Linked' /\ Kept
  BY <1>1, FlightSame DEF Inv, RemoteInv, Linked
<1>5. box \in Seq(Letters) /\ stream \in Seq(Copies)
  BY DEF Inv, RemoteInv, Typed
<1>6. SentIsStored' /\ SentPrecedesLater'
  BY <1>1 DEF Inv, RemoteInv, SentIsStored, SentPrecedesLater
<1>7. CASE IsConnected
  <2>1. pc' = "publish" /\ cur' = m /\ try' = 1 /\ box' = Tail(box) /\ conn # Nil /\ conn' = conn
    BY <1>1, <1>7 DEF OnRemoteMSG2, IsConnected
  <2>2. m \in Nat \ {0} /\ Attempts \in Nat \ {0}
    BY Numbers DEF Inv, RemoteInv
  <2>3. /\ Keeps(box, box') /\ Later(box', m) /\ m <= arrived
        /\ \A x : Later(box, x) => x < m
    <3>1. Head(box).t = "RemoteMSG2" /\ Head(box).m = m
      BY <1>1, BoxLetters
    <3>2. Ordered(box) /\ Within(box, arrived)
      BY DEF Inv, RemoteInv, Passed
    <3> QED BY <1>1, <1>5, <2>1, <3>1, <3>2, TailKeeps
  <2>4. \A x \in Copies : Behind(x) => Tried(x)' /\ Behind(x)'
    BY <1>1, <2>1, <2>2, <2>3, CopyFacts DEF Behind, Tried, Keeps
  <2>5. /\ \A i \in DOMAIN stream : stream[i] \in Copies /\ Behind(stream[i])
        /\ \A e \in flight : e.copy \in Copies /\ Behind(e.copy)
    BY <1>5 DEF Inv, RemoteInv, Passed, Linked, Flights
  <2>6. Typed'
    BY <1>1, <2>1, <2>2, <2>3 DEF Inv, RemoteInv, Typed, Keeps
  <2>7. stream' = stream /\ flight' = flight
    BY <1>1
  <2>8. /\ \A i \in DOMAIN stream' : Behind(stream[i])' /\ Tried(stream[i])'
        /\ \A e \in flight' : Behind(e.copy)' /\ Tried(e.copy)'
    <3>1. \A x \in Copies : Behind(x) =>
            /\ x.m <= cur' /\ (x.m = cur' => x.try < try')
            /\ x.m <= arrived' /\ Later(box', x.m)
      BY <2>1, <2>4 DEF Behind, Tried
    <3> QED BY <2>1, <2>5, <2>7, <3>1 DEF Behind, Tried
  <2>9. Passed'
    <3>1. Ordered(box') /\ Within(box', arrived') /\ cur' <= arrived' /\ Later(box', cur')
      <4>1. arrived \in Nat
        BY Numbers DEF Inv, RemoteInv
      <4> QED BY <1>1, <2>1, <2>3, <4>1 DEF Inv, RemoteInv, Passed, Keeps
    <3> QED BY <2>8, <3>1 DEF Passed
  <2>10. Sending'
    BY <1>1, <1>3, <2>1, <2>2, <2>8 DEF Sending, Busy
  <2>11. Once'
    BY <1>1, <1>4, OnceKept DEF Inv, RemoteInv
  <2> QED BY <1>2, <1>4, <1>6, <2>6, <2>9, <2>10, <2>11 DEF Inv, RemoteInv
<1>8. CASE ~IsConnected
  <2>1. pc' = "idle" /\ cur' = 0 /\ try' = 0 /\ box' = AskedAgain(Tail(box))
    BY <1>1, <1>8 DEF OnRemoteMSG2, SendError
  <2>2. Keeps(box, box')
    BY <1>1, <1>5, <2>1, TailAskedKeeps
  <2>3. /\ token' \in {"valid", "expired", Nil} /\ age' \in 0 .. 3
        /\ handler' \in {"Started", "reconnectRemote", Nil} /\ sent' \subseteq Messages
    BY <1>1 DEF Inv, RemoteInv, Typed
  <2>4. try' \in 0 .. Attempts
    BY <2>1, NatsAssumption
  <2>5. RemoteInv'
    BY <1>1, <1>3, <1>4, <1>6, <2>1, <2>2, <2>3, <2>4, IdleKeeps DEF Inv
  <2> QED BY <1>2, <2>5 DEF Inv
<1> QED BY <1>7, <1>8

LEMMA InSendMSG ==
  ASSUME RemoteInv, Busy
  PROVE  /\ conn \in Conns /\ cur \in Messages /\ try \in 1 .. Attempts
         /\ \A i \in DOMAIN stream : Tried(stream[i])
         /\ \A e \in flight : Tried(e.copy)
<1>1. conn \in Conns /\ cur \in Messages /\ try \in 1 .. Attempts
  BY NatsAssumption DEF RemoteInv, Sending, Linked, Typed
<1> QED BY <1>1 DEF RemoteInv, Sending

\* sendMSG ends
LEMMA SendEnds ==
  ASSUME Inv, Busy, KeycloakTypeOK', Close(conn) \/ UNCHANGED <<link, flight>>,
         pc' = "idle", cur' = 0, try' = 0, acked' = FALSE, box' = AskedAgain(box) \/ box' = box,
         sent' \subseteq Messages, SentIsStored', SentPrecedesLater',
         UNCHANGED <<handler, conn, token, age, arrived, stream>>
  PROVE  Inv'
<1>1. Linked' /\ Kept
  <2>1. conn \in Conns \cup {Nil} /\ conn' \in Conns \cup {Nil}
    BY DEF Inv, RemoteInv, Linked
  <2> QED BY <2>1, CloseFacts DEF Inv, RemoteInv
<1>2. Keeps(box, box')
  BY AskedKeeps, BoxSame DEF Inv, RemoteInv, Typed
<1>3. /\ token' \in {"valid", "expired", Nil} /\ age' \in 0 .. 3
      /\ handler' \in {"Started", "reconnectRemote", Nil}
  BY DEF Inv, RemoteInv, Typed
<1>4. try' \in 0 .. Attempts
  BY NatsAssumption
<1>5. RemoteInv'
  BY <1>1, <1>2, <1>3, <1>4, IdleKeeps DEF Inv
<1> QED BY <1>5 DEF Inv

LEMMA SendRefusedKeeps == ASSUME Inv, SendRefused PROVE Inv'
<1>1. /\ pc = "publish" /\ Close(conn) /\ pc' = "idle" /\ cur' = 0 /\ try' = 0
      /\ box' = AskedAgain(box)
      /\ UNCHANGED <<keycloakVars, handler, conn, token, age, acked, arrived, stream, sent>>
  BY DEF SendRefused, SendError
<1>2. KeycloakTypeOK'
  BY <1>1 DEF Inv, KeycloakTypeOK, keycloakVars
<1>3. Busy /\ acked' = FALSE /\ sent' \subseteq Messages /\ SentIsStored' /\ SentPrecedesLater'
  BY <1>1 DEF Inv, RemoteInv, Sending, SentIsStored, SentPrecedesLater, Typed, Busy
<1> QED BY <1>1, <1>2, <1>3, SendEnds

\* nothing of a later message is stored while a message is in sendMSG
LEMMA PublishAckedKeeps == ASSUME Inv, PublishAcked PROVE Inv'
<1>1. /\ pc = "ack" /\ acked /\ sent' = sent \cup {cur}
      /\ pc' = "idle" /\ cur' = 0 /\ try' = 0 /\ acked' = FALSE
      /\ UNCHANGED <<keycloakVars, box, handler, conn, token, link, flight, age, arrived, stream>>
  BY DEF PublishAcked
<1>2. KeycloakTypeOK'
  BY <1>1 DEF Inv, KeycloakTypeOK, keycloakVars
<1>3. /\ Busy /\ cur \in Messages
      /\ \A i \in DOMAIN stream : stream[i].m <= cur
      /\ \E i \in DOMAIN stream : stream[i].m = cur
  BY <1>1, InSendMSG DEF Inv, RemoteInv, Sending, Busy, Tried
<1>4. sent' \subseteq Messages /\ SentIsStored'
  BY <1>1, <1>3 DEF Inv, RemoteInv, SentIsStored, Typed
<1>5. SentPrecedesLater'
  <2>1. \A i \in DOMAIN stream : ~(stream[i].m > cur)
    <3> SUFFICES ASSUME NEW i \in DOMAIN stream PROVE ~(stream[i].m > cur)
      OBVIOUS
    <3>1. stream[i] \in Copies
      BY DEF Inv, RemoteInv, Typed
    <3>2. stream[i].m \in Nat /\ stream[i].m <= cur /\ cur \in Nat
      BY <1>3, <3>1, CopyFacts, Numbers DEF Inv, RemoteInv
    <3> QED BY <3>2
  <2> QED BY <1>1, <2>1 DEF Inv, RemoteInv, SentPrecedesLater
<1> QED BY <1>1, <1>2, <1>3, <1>4, <1>5, SendEnds

LEMMA NoAckTyped == ASSUME KeycloakTypeOK, NoAck PROVE faults' \in 0 .. MaxFaults
BY FaultTyped DEF NoAck, KeycloakTypeOK

LEMMA PublishFailsEnds == ASSUME Inv, PublishFails PROVE Inv'
<1>1. /\ pc = "ack" /\ acked' = FALSE /\ Close(conn) /\ pc' = "idle" /\ cur' = 0 /\ try' = 0
      /\ box' = AskedAgain(box)
      /\ UNCHANGED <<abox, forward, kbox, serving, keyc, tokenSource, future, groupID,
                     handler, conn, token, age, arrived, stream, sent>>
  BY DEF PublishFails, NoAck, SendError
<1>2. KeycloakTypeOK'
  <2>1. faults' \in 0 .. MaxFaults
    BY NoAckTyped DEF PublishFails, Inv
  <2> QED BY <1>1, <2>1 DEF Inv, KeycloakTypeOK
<1>3. Busy /\ sent' \subseteq Messages /\ SentIsStored' /\ SentPrecedesLater'
  BY <1>1 DEF Inv, RemoteInv, SentIsStored, SentPrecedesLater, Typed, Busy
<1> QED BY <1>1, <1>2, <1>3, SendEnds

LEMMA PublishAgainKeeps == ASSUME Inv, PublishAgain PROVE Inv'
<1>1. /\ pc = "ack" /\ acked' = FALSE /\ try < Attempts /\ try' = try + 1 /\ pc' = "publish"
      /\ UNCHANGED <<abox, forward, kbox, serving, keyc, tokenSource, future, groupID,
                     box, handler, conn, token, link, flight, age, cur, arrived, stream, sent>>
  BY DEF PublishAgain, NoAck
<1>2. KeycloakTypeOK'
  <2>1. faults' \in 0 .. MaxFaults
    BY NoAckTyped DEF PublishAgain, Inv
  <2> QED BY <1>1, <2>1 DEF Inv, KeycloakTypeOK
<1>3. /\ conn \in Conns /\ cur \in Messages /\ try \in 1 .. Attempts /\ Attempts \in Nat
      /\ \A i \in DOMAIN stream : Tried(stream[i])
      /\ \A e \in flight : Tried(e.copy)
  BY <1>1, InSendMSG, NatsAssumption DEF Inv, Busy
<1>4. try' \in 1 .. Attempts /\ try' # 0 /\ Linked' /\ Kept
  BY <1>1, <1>3, FlightSame DEF Inv, RemoteInv, Linked
<1>5. Typed'
  <2>1. try' \in 0 .. Attempts
    BY <1>4, NatsAssumption
  <2>2. acked' \in BOOLEAN
    BY <1>1
  <2> QED BY <1>1, <2>1, <2>2 DEF Inv, RemoteInv, Typed
<1>6. Passed' /\ Once'
  <2>1. Keeps(box, box')
    BY <1>1, BoxSame DEF Inv, RemoteInv
  <2> QED BY <1>1, <1>4, <2>1, PassedKept, OnceKept DEF Inv, RemoteInv
<1>7. Sending'
  <2>1. \A x \in Copies : Tried(x) => x.m <= cur' /\ (x.m = cur' => x.try < try')
    BY <1>1, <1>3, CopyFacts DEF Tried
  <2>2. /\ \A i \in DOMAIN stream : stream[i] \in Copies
        /\ \A e \in flight : e.copy \in Copies
    BY DEF Inv, RemoteInv, Typed, Linked, Flights
  <2>3. /\ \A i \in DOMAIN stream' : Tried(stream[i])'
        /\ \A e \in flight' : Tried(e.copy)'
    BY <1>1, <1>3, <2>1, <2>2 DEF Tried
  <2> QED BY <1>1, <1>4, <2>3 DEF Inv, RemoteInv, Sending, Busy
<1>8. SentIsStored' /\ SentPrecedesLater'
  BY <1>1 DEF Inv, RemoteInv, SentIsStored, SentPrecedesLater
<1> QED BY <1>2, <1>4, <1>5, <1>6, <1>7, <1>8 DEF Inv, RemoteInv

LEMMA PublishKeeps == ASSUME Inv, Publish PROVE Inv'
<1>1. /\ pc = "publish" /\ pc' = "ack"
      /\ UNCHANGED <<keycloakVars, box, handler, conn, token, link, age, cur, try, acked, arrived,
                     stream, sent>>
  BY DEF Publish
<1>2. KeycloakTypeOK'
  BY <1>1 DEF Inv, KeycloakTypeOK, keycloakVars
<1>3. /\ Busy /\ conn \in Conns /\ conn # Nil /\ cur \in Messages /\ try \in 1 .. Attempts /\ try \in Nat
      /\ \A i \in DOMAIN stream : Tried(stream[i])
      /\ \A e \in flight : Tried(e.copy)
  BY <1>1, InSendMSG, Numbers, NatsAssumption DEF Inv, RemoteInv, Busy
<1>4. PICK x : x = [m |-> cur, try |-> try]
  OBVIOUS
<1>5. PICK n : n = [copy |-> x, on |-> conn]
  OBVIOUS
<1>6. /\ x \in Copies /\ x.m = cur /\ x.try = try /\ n \in Flights /\ n.copy = x /\ n.on = conn
  BY <1>3, <1>4, <1>5 DEF Copies, Flights
<1>7. \/ flight' = flight
      \/ link[conn] # "closed" /\ flight' = flight \cup {n}
  BY <1>4, <1>5 DEF Publish
<1>8. \A e \in flight' : e \in flight \/ (e = n /\ link[conn] # "closed")
  BY <1>7
<1>9. /\ \A i \in DOMAIN stream : stream[i] \in Copies /\ stream[i] # x
      /\ \A e \in flight : e.copy \in Copies /\ e.copy # x
  <2>1. \A y \in Copies : Tried(y) => y # x
    BY <1>1, <1>3, <1>6, CopyFacts DEF Tried
  <2> QED BY <1>3, <2>1 DEF Inv, RemoteInv, Typed, Linked, Flights
<1>10. Typed'
  BY <1>1 DEF Inv, RemoteInv, Typed
<1>11. Linked'
  BY <1>1, <1>6, <1>8 DEF Inv, RemoteInv, Linked
<1>12. Passed'
  <2>1. Behind(x)
    BY <1>6 DEF Inv, RemoteInv, Passed, Behind
  <2>2. \A e \in flight' : Behind(e.copy)
    BY <1>6, <1>8, <2>1 DEF Inv, RemoteInv, Passed
  <2> QED BY <1>1, <2>2 DEF Inv, RemoteInv, Passed, Behind
<1>13. Sending'
  <2>1. \A y \in Copies : Tried(y) => y.m <= cur /\ (y.m = cur => y.try <= try)
    BY <1>1, <1>3, CopyFacts DEF Tried
  <2>2. x.m <= cur /\ x.try <= try
    BY <1>3, <1>6, Numbers DEF Inv, RemoteInv
  <2>3. /\ \A i \in DOMAIN stream' : Tried(stream[i])'
        /\ \A e \in flight' : Tried(e.copy)'
    BY <1>1, <1>3, <1>6, <1>8, <1>9, <2>1, <2>2 DEF Tried
  <2> QED BY <1>1, <1>3, <2>3 DEF Inv, RemoteInv, Sending, Busy
<1>14. Once'
  BY <1>1, <1>6, <1>8, <1>9 DEF Inv, RemoteInv, Once
<1>15. SentIsStored' /\ SentPrecedesLater'
  BY <1>1 DEF Inv, RemoteInv, SentIsStored, SentPrecedesLater
<1> QED BY <1>2, <1>10, <1>11, <1>12, <1>13, <1>14, <1>15 DEF Inv, RemoteInv

-----------------------------------------------------------------------------
(* Time, the App and the connections.                                      *)

LEMMA ClockKeeps == ASSUME Inv, Clock PROVE Inv'
<1>1. /\ UNCHANGED <<keycloakVars, box, pc, handler, conn, token, link, flight, cur, try, acked,
                     arrived, stream, sent>>
      /\ age' \in 0 .. 3
  BY DEF Clock, Inv, RemoteInv, Typed
<1>2. KeycloakTypeOK' /\ Linked' /\ Kept
  BY <1>1, FlightSame DEF Inv, RemoteInv, KeycloakTypeOK, keycloakVars, Linked
<1>3. Typed' /\ Keeps(box, box')
  BY <1>1, BoxSame DEF Inv, RemoteInv, Typed
<1>4. RemoteInv'
  BY <1>1, <1>2, <1>3, SendingKept DEF Inv
<1> QED BY <1>2, <1>4 DEF Inv

LEMMA TickKeeps == ASSUME Inv, Tick PROVE Inv'
<1>1. /\ UNCHANGED <<keycloakVars, pc, handler, conn, token, link, flight, age, cur, try, acked,
                     arrived, stream, sent>>
      /\ box' = Append(box, reconnectRemote)
  BY DEF Tick
<1>2. KeycloakTypeOK' /\ Linked' /\ Kept
  BY <1>1, FlightSame DEF Inv, RemoteInv, KeycloakTypeOK, keycloakVars, Linked
<1>3. Keeps(box, box')
  BY <1>1, NoteKeeps DEF Inv, RemoteInv, Typed
<1>4. Typed'
  BY <1>1, <1>3 DEF Inv, RemoteInv, Typed, Keeps
<1>5. RemoteInv'
  BY <1>1, <1>2, <1>3, <1>4, SendingKept DEF Inv
<1> QED BY <1>2, <1>5 DEF Inv

LEMMA ArriveKeeps == ASSUME Inv, Arrive PROVE Inv'
<1>1. /\ arrived < MaxMessages /\ arrived' = arrived + 1
      /\ box' = Append(box, RemoteMSG2(arrived + 1))
      /\ UNCHANGED <<keycloakVars, pc, handler, conn, token, link, flight, age, cur, try, acked,
                     stream, sent>>
  BY DEF Arrive
<1>2. KeycloakTypeOK' /\ Linked'
  BY <1>1 DEF Inv, RemoteInv, KeycloakTypeOK, keycloakVars, Linked
<1>3. PICK n : n = arrived + 1
  OBVIOUS
<1>4. /\ n \in Messages /\ n \in Nat /\ n \in 0 .. MaxMessages /\ arrived < n /\ arrived' = n
      /\ arrived \in Nat /\ box \in Seq(Letters)
  BY <1>1, <1>3, NatsAssumption DEF Inv, RemoteInv, Typed, Messages
<1>5. PICK l : l = RemoteMSG2(n)
  OBVIOUS
<1>6. l \in Letters /\ l.t = "RemoteMSG2" /\ l.m = n /\ box' = Append(box, l)
  BY <1>1, <1>3, <1>4, <1>5, BoxLetters
<1>7. \A i \in DOMAIN box : box[i].m \in Nat /\ box[i].m <= arrived
  BY <1>4, BoxLetters DEF Inv, RemoteInv, Passed, Within
<1>8. \A i \in DOMAIN box : box[i].m <= n /\ box[i].m < n
  BY <1>4, <1>7
<1>9. box' \in Seq(Letters) /\ Ordered(box') /\ Within(box', n)
  <2>1. Within(box, n) /\ Ordered(box)
    BY <1>8 DEF Within, Inv, RemoteInv, Passed
  <2> QED BY <1>4, <1>6, <1>8, <2>1, BoxAppend
<1>10. ASSUME NEW x \in Nat, Later(box, x), x <= arrived PROVE Later(box', x) /\ x <= n
  <2>1. x < n /\ x <= n
    BY <1>4, <1>10
  <2> QED BY <1>4, <1>6, <1>10, <2>1, BoxAppend
<1>11. Passed'
  <2>1. ASSUME NEW x \in Copies, Behind(x) PROVE x.m <= n /\ Later(box', x.m)
    BY <1>10, <2>1, CopyFacts DEF Behind
  <2>2. cur <= n /\ Later(box', cur)
    <3>1. cur \in Nat /\ cur <= arrived /\ Later(box, cur)
      BY Numbers DEF Inv, RemoteInv, Passed
    <3> QED BY <1>10, <3>1
  <2>3. /\ \A i \in DOMAIN stream : stream[i] \in Copies /\ Behind(stream[i])
        /\ \A e \in flight : e.copy \in Copies /\ Behind(e.copy)
    BY DEF Inv, RemoteInv, Passed, Typed, Linked, Flights
  <2> QED BY <1>1, <1>4, <1>9, <2>1, <2>2, <2>3 DEF Passed, Behind
<1>12. Typed'
  BY <1>1, <1>4, <1>9 DEF Inv, RemoteInv, Typed
<1>13. Sending' /\ Once' /\ SentIsStored' /\ SentPrecedesLater'
  BY <1>1 DEF Inv, RemoteInv, Sending, Once, SentIsStored, SentPrecedesLater, Busy, Tried
<1> QED BY <1>2, <1>11, <1>12, <1>13 DEF Inv, RemoteInv

\* a connection changes, and what is in flight at most loses its socket
LEMMA LinkKeeps ==
  ASSUME Inv, KeycloakTypeOK', NEW c \in Conns, flight' \in {flight, Adrift(c), Unsent(c)},
         link' \in [Conns -> {"closed", "open", "lost"}],
         \A d \in Conns : d # c => link'[d] = link[d],
         link'[c] = "closed" => flight' # flight,
         UNCHANGED <<box, pc, handler, conn, token, age, cur, try, acked, arrived, stream, sent>>
  PROVE  Inv'
<1>1. /\ Kept /\ flight' \subseteq Flights
      /\ \A f \in flight' : \E e \in flight : f.on \in {Nil, e.on} /\ (f.on = c => flight' = flight)
  BY FlightKept DEF Inv, RemoteInv
<1>2. ASSUME NEW f \in flight', f.on # Nil PROVE link'[f.on] # "closed"
  <2>1. f.on \in Conns /\ \E e \in flight : f.on = e.on /\ (f.on = c => flight' = flight)
    BY <1>1, <1>2 DEF Flights
  <2> QED BY <1>2, <2>1 DEF Inv, RemoteInv, Linked
<1>3. Linked'
  BY <1>1, <1>2 DEF Inv, RemoteInv, Linked
<1>4. Keeps(box, box') /\ Typed'
  BY BoxSame DEF Inv, RemoteInv, Typed
<1>5. RemoteInv'
  BY <1>1, <1>3, <1>4, SendingKept DEF Inv
<1> QED BY <1>5 DEF Inv

LEMMA LosesKeeps == ASSUME Inv, NEW c \in Conns, Loses(c) PROVE Inv'
<1>1. /\ Fault /\ link' = [link EXCEPT ![c] = "lost"] /\ flight' = Adrift(c)
      /\ UNCHANGED <<abox, forward, kbox, serving, keyc, tokenSource, future, groupID,
                     box, pc, handler, conn, token, age, cur, try, acked, arrived, stream, sent>>
  BY DEF Loses
<1>2. KeycloakTypeOK'
  <2>1. faults' \in 0 .. MaxFaults
    BY <1>1, FaultTyped DEF Inv, KeycloakTypeOK
  <2> QED BY <1>1, <2>1 DEF Inv, KeycloakTypeOK
<1>3. /\ link' \in [Conns -> {"closed", "open", "lost"}] /\ link'[c] # "closed"
      /\ \A d \in Conns : d # c => link'[d] = link[d]
  BY <1>1 DEF Inv, RemoteInv, Linked
<1> QED BY <1>1, <1>2, <1>3, LinkKeeps

LEMMA ResumesKeeps == ASSUME Inv, NEW c \in Conns, Resumes(c) PROVE Inv'
<1>1. /\ link' = [link EXCEPT ![c] = "open"] /\ flight' = flight
      /\ UNCHANGED <<keycloakVars, box, pc, handler, conn, token, age, cur, try, acked, arrived,
                     stream, sent>>
  BY DEF Resumes
<1>2. KeycloakTypeOK'
  BY <1>1 DEF Inv, KeycloakTypeOK, keycloakVars
<1>3. /\ link' \in [Conns -> {"closed", "open", "lost"}] /\ link'[c] # "closed"
      /\ \A d \in Conns : d # c => link'[d] = link[d]
  BY <1>1 DEF Inv, RemoteInv, Linked
<1> QED BY <1>1, <1>2, <1>3, LinkKeeps

LEMMA GivesUpKeeps == ASSUME Inv, NEW c \in Conns, GivesUp(c) PROVE Inv'
<1>1. /\ link' = [link EXCEPT ![c] = "closed"] /\ flight' = Unsent(c)
      /\ UNCHANGED <<keycloakVars, box, pc, handler, conn, token, age, cur, try, acked, arrived,
                     stream, sent>>
  BY DEF GivesUp
<1>2. KeycloakTypeOK'
  BY <1>1 DEF Inv, KeycloakTypeOK, keycloakVars
<1>3. Kept /\ flight' \subseteq Flights
  BY <1>1, FlightKept DEF Inv, RemoteInv
<1>4. Linked'
  <2>1. \A e \in flight' : e \in flight /\ e.on # c
    BY <1>1 DEF Unsent
  <2>2. ASSUME NEW e \in flight', e.on # Nil PROVE link'[e.on] # "closed"
    BY <1>1, <1>3, <2>1, <2>2 DEF Inv, RemoteInv, Linked, Flights
  <2> QED BY <1>1, <1>3, <2>2 DEF Inv, RemoteInv, Linked
<1>5. Keeps(box, box') /\ Typed'
  BY <1>1, BoxSame DEF Inv, RemoteInv, Typed
<1>6. RemoteInv'
  BY <1>1, <1>3, <1>4, <1>5, SendingKept DEF Inv
<1> QED BY <1>2, <1>6 DEF Inv

\* the server stores what comes out of a socket, behind all it has
LEMMA StoresKeeps == ASSUME Inv, NEW e \in flight, Stores(e) PROVE Inv'
<1>1. /\ flight' = flight \ {e} /\ stream' = Append(stream, e.copy)
      /\ acked' = (acked \/ Awaited(e))
      /\ UNCHANGED <<keycloakVars, box, pc, handler, conn, token, link, age, cur, try, arrived,
                     sent>>
  BY DEF Stores
<1>2. KeycloakTypeOK' /\ Linked'
  BY <1>1 DEF Inv, RemoteInv, KeycloakTypeOK, keycloakVars, Linked
<1>3. PICK x : x = e.copy
  OBVIOUS
<1>4. PICK n : n = Len(stream) + 1
  OBVIOUS
<1>5. x \in Copies /\ stream \in Seq(Copies) /\ Once
  BY <1>3 DEF Inv, RemoteInv, Typed, Linked, Flights
<1>6. /\ stream' \in Seq(Copies) /\ n \in DOMAIN stream' /\ stream'[n] = x /\ n \in Nat
      /\ \A i \in DOMAIN stream : i \in DOMAIN stream' /\ stream'[i] = stream[i] /\ i < n
      /\ \A i \in DOMAIN stream' : i \in DOMAIN stream \/ i = n
      /\ n \notin DOMAIN stream
  BY <1>1, <1>3, <1>4, <1>5
<1>7. Once'
  <2>1. \A f \in flight' : f \in flight /\ f.copy # x
    BY <1>1, <1>3, <1>5 DEF Once
  <2>2. \A i \in DOMAIN stream : stream[i] # x
    BY <1>3, <1>5 DEF Once
  <2> QED BY <1>5, <1>6, <2>1, <2>2 DEF Once
<1>8. Passed'
  <2>1. Behind(x) /\ \A i \in DOMAIN stream' : Behind(stream'[i])
    BY <1>3, <1>6 DEF Inv, RemoteInv, Passed
  <2> QED BY <1>1, <2>1 DEF Inv, RemoteInv, Passed, Behind
<1>9. acked' \in BOOLEAN /\ (acked' => pc = "ack" /\ \E i \in DOMAIN stream' : stream'[i].m = cur)
  <2>1. Awaited(e) => pc = "ack" /\ x.m = cur
    BY <1>3 DEF Awaited
  <2>2. acked => pc = "ack" /\ \E i \in DOMAIN stream' : stream'[i].m = cur
    BY <1>6 DEF Inv, RemoteInv, Sending
  <2>3. acked' \in BOOLEAN
    BY <1>1
  <2> QED BY <1>1, <1>6, <2>1, <2>2, <2>3
<1>10. Typed'
  BY <1>1, <1>6, <1>9 DEF Inv, RemoteInv, Typed
<1>11. Sending'
  <2>1. Busy => \A i \in DOMAIN stream' : Tried(stream'[i])
    BY <1>3, <1>6 DEF Inv, RemoteInv, Sending
  <2> QED BY <1>1, <1>9, <2>1 DEF Inv, RemoteInv, Sending, Busy, Tried
<1>12. SentIsStored'
  BY <1>1, <1>6 DEF Inv, RemoteInv, SentIsStored
<1>13. SentPrecedesLater'
  <2> SUFFICES ASSUME NEW m \in sent, NEW i \in DOMAIN stream', stream'[i].m > m
               PROVE  \E j \in DOMAIN stream' : j < i /\ stream'[j].m = m
    BY <1>1 DEF SentPrecedesLater
  <2>1. CASE i = n
    BY <1>6, <2>1 DEF Inv, RemoteInv, SentIsStored
  <2>2. CASE i \in DOMAIN stream
    BY <1>6, <2>2 DEF Inv, RemoteInv, SentPrecedesLater
  <2> QED BY <1>6, <2>1, <2>2
<1> QED BY <1>2, <1>7, <1>8, <1>10, <1>11, <1>12, <1>13 DEF Inv, RemoteInv

LEMMA VanishesKeeps == ASSUME Inv, NEW e \in flight, Vanishes(e) PROVE Inv'
<1>1. /\ Fault /\ flight' = flight \ {e}
      /\ UNCHANGED <<abox, forward, kbox, serving, keyc, tokenSource, future, groupID,
                     box, pc, handler, conn, token, link, age, cur, try, acked, arrived,
                     stream, sent>>
  BY DEF Vanishes
<1>2. KeycloakTypeOK'
  <2>1. faults' \in 0 .. MaxFaults
    BY <1>1, FaultTyped DEF Inv, KeycloakTypeOK
  <2> QED BY <1>1, <2>1 DEF Inv, KeycloakTypeOK
<1>3. Linked' /\ Kept
  BY <1>1 DEF Inv, RemoteInv, Linked, Once, Kept
<1>4. Keeps(box, box') /\ Typed'
  BY <1>1, BoxSame DEF Inv, RemoteInv, Typed
<1>5. RemoteInv'
  BY <1>1, <1>3, <1>4, SendingKept DEF Inv
<1> QED BY <1>2, <1>5 DEF Inv

-----------------------------------------------------------------------------
LEMMA InitInv == Init => Inv
<1> SUFFICES ASSUME Init PROVE Inv
  OBVIOUS
<1>1. KeycloakTypeOK
  <2>1. /\ abox = <<>> /\ forward = Nil /\ kbox = <<>> /\ serving = Nil /\ keyc = FALSE
        /\ tokenSource = FALSE /\ future = [c \in Callers |-> "none"] /\ groupID = Nil /\ faults = 0
    BY DEF Init, KeycloakInit, KeycloakFresh
  <2>2. faults \in 0 .. MaxFaults
    BY <2>1, MaxFaultsAssumption
  <2>3. keyc \in BOOLEAN /\ tokenSource \in BOOLEAN /\ (tokenSource => keyc)
    BY <2>1
  <2>4. abox \in Seq(AppLetters) /\ kbox \in Seq(KeycLetters)
    BY <2>1
  <2>5. future \in [Callers -> Held]
    BY <2>1, HeldFacts
  <2> QED BY <2>1, <2>2, <2>3, <2>4, <2>5 DEF KeycloakTypeOK
<1>2. /\ box = <<Started>> /\ pc = "idle" /\ handler = Nil /\ conn = Nil /\ token = Nil
      /\ link = [c \in Conns |-> "closed"] /\ flight = {}
      /\ age = 3 /\ cur = 0 /\ try = 0 /\ acked = FALSE
      /\ arrived = 0 /\ stream = <<>> /\ sent = {}
  BY DEF Init
<1>3. box \in Seq(Letters) /\ Len(box) = 1 /\ DOMAIN box = {1} /\ box[1] = Started
  <2>1. PICK l \in Letters : l = Started
    BY BoxLetters
  <2>2. <<l>> \in Seq(Letters) /\ Len(<<l>>) = 1 /\ DOMAIN <<l>> = {1} /\ <<l>>[1] = l
    OBVIOUS
  <2> QED BY <1>2, <2>1, <2>2
<1>4. Started.t # "RemoteMSG2" /\ Started.m = 0
  BY DEF Started
<1>5. Typed
  <2>1. acked \in BOOLEAN
    BY <1>2
  <2>2. try \in 0 .. Attempts /\ arrived \in 0 .. MaxMessages /\ age \in 0 .. 3
    BY <1>2, NatsAssumption
  <2>3. stream \in Seq(Copies)
    BY <1>2
  <2> QED BY <1>2, <1>3, <2>1, <2>2, <2>3 DEF Typed
<1>6. Linked /\ DOMAIN stream = {}
  BY <1>2 DEF Linked
<1>7. Passed
  BY <1>2, <1>3, <1>4, <1>6 DEF Passed, Ordered, Within, Later
<1>8. Sending
  BY <1>2, <1>6 DEF Sending, Busy
<1>9. Once /\ SentIsStored /\ SentPrecedesLater
  BY <1>2, <1>6 DEF Once, SentIsStored, SentPrecedesLater
<1> QED BY <1>1, <1>5, <1>6, <1>7, <1>8, <1>9 DEF Inv, RemoteInv

LEMMA NextInv == Inv /\ [Next]_vars => Inv'
<1> SUFFICES ASSUME Inv, [Next]_vars PROVE Inv'
  OBVIOUS
<1>1. CASE RemoteStep
  <2>1. ASSUME NEW ok \in BOOLEAN, Dial(ok) PROVE Inv'
    BY <2>1, DialKeeps
  <2>2. ASSUME NEW m \in Messages, OnRemoteMSG2(m) PROVE Inv'
    BY <2>2, OnRemoteMSG2Keeps
  <2> QED BY <1>1, <2>1, <2>2, OnStartedKeeps, OnReconnectRemoteKeeps, HasAddressKeeps,
             HasTokenKeeps, RequestExpiresKeeps, SendRefusedKeeps, PublishKeeps, PublishAckedKeeps,
             PublishAgainKeeps, PublishFailsEnds DEF RemoteStep
<1>2. CASE Environment
  <2>1. ASSUME NEW c \in Conns, Loses(c) \/ Resumes(c) \/ GivesUp(c) PROVE Inv'
    BY <2>1, LosesKeeps, ResumesKeeps, GivesUpKeeps
  <2>2. ASSUME NEW e \in flight, Stores(e) \/ Vanishes(e) PROVE Inv'
    BY <2>2, StoresKeeps, VanishesKeeps
  <2> QED BY <1>2, <2>1, <2>2, ClockKeeps, TickKeeps, ArriveKeeps DEF Environment
<1>3. CASE UNCHANGED natsVars /\ (KeycloakNext \/ UNCHANGED keycloakVars)
  <2>1. KeycloakTypeOK'
    BY <1>3, KeycloakTyped DEF Inv, KeycloakTypeOK, keycloakVars
  <2>2. Typed' /\ Linked' /\ Passed' /\ Sending'
    BY <1>3 DEF Inv, RemoteInv, natsVars, Typed, Linked, Passed, Behind, Sending, Busy, Tried
  <2>3. Once' /\ SentIsStored' /\ SentPrecedesLater'
    BY <1>3 DEF Inv, RemoteInv, natsVars, Once, SentIsStored, SentPrecedesLater
  <2> QED BY <2>1, <2>2, <2>3 DEF Inv, RemoteInv
<1> QED BY <1>1, <1>2, <1>3 DEF Next, vars

LEMMA AlwaysInv == Spec => []Inv
BY InitInv, NextInv, PTL DEF Spec

(* The remote actor, the token actor, App and their futures keep their      *)
(* types; nothing but a token is dialled with, and no connection that is    *)
(* closed or given up has a socket (remote-actor.go:30-42), for any         *)
(* connections and attempts.                                                *)
THEOREM TypeCorrect == Spec => []NatsTypeOK
BY AlwaysInv, InvMeans, PTL

(* A message that sendMSG reported as sent is stored before anything of a   *)
(* later message, whatever stays in the sockets of connections that stall,  *)
(* are lost, are closed or are given up, and comes out of them afterwards   *)
(* (client-nats.go:83-92, remote-actor.go:173-174).                         *)
THEOREM SentIsFirst == Spec => []SentPrecedesLater
BY AlwaysInv, InvMeans, PTL

(* The stream has at most one copy of a message per attempt of sendMSG.     *)
THEOREM CopiesAreBounded == Spec => []CopiesBounded
BY AlwaysInv, InvMeans, PTL

(* What sendMSG reported as sent is in the stream (client-nats.go:94-98).   *)
THEOREM SentIsThere == Spec => []SentIsStored
BY AlwaysInv, InvMeans, PTL
=============================================================================
