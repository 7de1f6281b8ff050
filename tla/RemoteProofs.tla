---------------------------- MODULE RemoteProofs ----------------------------
(***************************************************************************)
(* Proofs about Remote: what the store holds and what the callbacks do to  *)
(* it, for any messages, queries, limit, faults and restarts.  The proofs  *)
(* of QueryStream are used for the query machinery; what is added is where *)
(* each message is, and why each request to delete an entry may be served. *)
(***************************************************************************)
EXTENDS Remote, QueryStreamProofs

Notices == [t : {"verifyReplay", "verifyRetry", "MsgReconnect"}, m : {Nobody}]
             \cup [t : {"RemoteMSG2"}, m : Messages]
Sends   == [m : Keys, from : Senders]

Contains(s, e) == \E i \in DOMAIN s : s[i] = e
Holds(s, m)    == \E i \in DOMAIN s : s[i].m = m

\* f has a request in s; each of f's is for m; nobody has two
Asks(s, f)       == \E i \in DOMAIN s : s[i].from = f
AskedBy(s, f, m) == \A i \in DOMAIN s : s[i].from = f => s[i].m = m
OneEach(s)       == \A i, j \in DOMAIN s : s[i].from = s[j].from /\ s[i].from # Nobody => i = j

\* a delete that waits is of an entry in S, or behind the write of its copy
Ordered(s, S) ==
  \A i \in DOMAIN s : s[i].op = "MsgDeleteData" =>
    /\ s[i].coll = Scanned
    /\ s[i].key \in S \/ \E j \in DOMAIN s : j < i /\ s[j] = MsgUpdateData(Dated, s[i].key)

\* what is written to the collection that is replayed is a message of the App
OnlyMessages(s) ==
  \A i \in DOMAIN s :
    s[i].op = "MsgUpdateData" /\ s[i].coll = Scanned => s[i].key \in Messages

-----------------------------------------------------------------------------
(* What the program may lose, and where each message is.                   *)

Safe == published \cup store[Dated] \cup BadIds \cup unarchived

Requests == Ordered(dbox, Safe) /\ OnlyMessages(dbox)

InDbox(m) == Contains(dbox, MsgUpdateData(Scanned, m))
InMbox(m) == Holds(mbox, m)

\* the handler of RemoteMSG2 works on one message, which it sends or has written
Working ==
  /\ pc = "idle" <=> cur = Nobody
  /\ pc = "saving" => cur \in dropped \/ InDbox(cur)

\* the requests of the client actor come from who waits, for what it waits with
Asked ==
  /\ OneEach(cbox)
  /\ Asks(cbox, Direct) => pc = "sending"
  /\ AskedBy(cbox, Direct, cur)
  /\ \A q \in Queries : /\ Asks(cbox, q) => calling[q]
                        /\ AskedBy(cbox, q, child[q].key)
                        /\ calling[q] => child[q].st = "busy"

Settled(m) == m \in Stored \cup published \cup refused \cup dropped \cup unarchived

Known(m) == (m \in Messages /\ (m = cur \/ InMbox(m) \/ InDbox(m))) \/ Settled(m)

\* what the program answers for
Mine == arrived \cup (Legacy \ BadIds)

AllKnown == \A m \in Mine : Known(m)

RemoteInv == StreamInv /\ RemoteTypeOK /\ Requests /\ Working /\ Asked /\ AllKnown

-----------------------------------------------------------------------------
(* Mailboxes.                                                              *)

LEMMA HoldsFacts ==
  ASSUME NEW T, NEW s \in Seq(T), NEW e \in T, NEW m
  PROVE  /\ Holds(s, m) => Holds(Append(s, e), m)
         /\ Holds(Append(s, e), e.m)
         /\ s # <<>> /\ Holds(s, m) => Head(s).m = m \/ Holds(Tail(s), m)
<1>1. (Holds(s, m) => Holds(Append(s, e), m)) /\ Holds(Append(s, e), e.m)
  BY AppendFacts DEF Holds
<1>2. ASSUME s # <<>>, Holds(s, m), Head(s).m # m PROVE Holds(Tail(s), m)
  <2>1. PICK i \in DOMAIN s : s[i].m = m
    BY <1>2 DEF Holds
  <2>2. i # 1
    BY <1>2, <2>1, TailFacts
  <2> QED BY <1>2, <2>1, <2>2, TailFacts DEF Holds
<1> QED BY <1>1, <1>2

LEMMA ContainsFacts ==
  ASSUME NEW T, NEW s \in Seq(T), NEW e \in T, NEW x
  PROVE  /\ Contains(s, x) => Contains(Append(s, e), x)
         /\ Contains(Append(s, e), e)
         /\ s # <<>> /\ Contains(s, x) => Head(s) = x \/ Contains(Tail(s), x)
<1>1. (Contains(s, x) => Contains(Append(s, e), x)) /\ Contains(Append(s, e), e)
  BY AppendFacts DEF Contains
<1>2. ASSUME s # <<>>, Contains(s, x), Head(s) # x PROVE Contains(Tail(s), x)
  <2>1. PICK i \in DOMAIN s : s[i] = x
    BY <1>2 DEF Contains
  <2>2. i # 1
    BY <1>2, <2>1, TailFacts
  <2> QED BY <1>2, <2>1, <2>2, TailFacts DEF Contains
<1> QED BY <1>1, <1>2

(* The client actor gets a request, or serves the first.                    *)
LEMMA AsksAppend ==
  ASSUME NEW T, NEW s \in Seq(T), NEW e \in T, NEW f, NEW m
  PROVE  /\ Asks(Append(s, e), f) <=> Asks(s, f) \/ e.from = f
         /\ AskedBy(s, f, m) /\ (e.from = f => e.m = m) => AskedBy(Append(s, e), f, m)
         /\ OneEach(s) /\ ~Asks(s, e.from) => OneEach(Append(s, e))
<1>1. Asks(Append(s, e), f) <=> Asks(s, f) \/ e.from = f
  BY AppendFacts DEF Asks
<1>2. AskedBy(s, f, m) /\ (e.from = f => e.m = m) => AskedBy(Append(s, e), f, m)
  BY AppendFacts DEF AskedBy
<1>3. ASSUME OneEach(s), ~Asks(s, e.from) PROVE OneEach(Append(s, e))
  BY <1>3, AppendFacts DEF OneEach, Asks
<1> QED BY <1>1, <1>2, <1>3

LEMMA AsksTail ==
  ASSUME NEW T, NEW s \in Seq(T), s # <<>>, NEW f, NEW m
  PROVE  /\ Asks(Tail(s), f) => Asks(s, f)
         /\ AskedBy(s, f, m) => AskedBy(Tail(s), f, m)
         /\ OneEach(s) => OneEach(Tail(s))
         /\ OneEach(s) /\ Head(s).from = f /\ f # Nobody => ~Asks(Tail(s), f)
         /\ Asks(s, Head(s).from)
         /\ AskedBy(s, f, m) /\ Head(s).from = f => Head(s).m = m
<1>1. (Asks(Tail(s), f) => Asks(s, f)) /\ Asks(s, Head(s).from)
  BY TailFacts DEF Asks
<1>2. /\ AskedBy(s, f, m) => AskedBy(Tail(s), f, m)
      /\ AskedBy(s, f, m) /\ Head(s).from = f => Head(s).m = m
  BY TailFacts DEF AskedBy
<1>3. ASSUME OneEach(s) PROVE OneEach(Tail(s))
  <2> SUFFICES ASSUME NEW i \in DOMAIN Tail(s), NEW j \in DOMAIN Tail(s),
                      Tail(s)[i].from = Tail(s)[j].from, Tail(s)[i].from # Nobody
               PROVE  i = j
    BY DEF OneEach
  <2>1. i + 1 = j + 1
    BY <1>3, TailFacts DEF OneEach
  <2> QED BY <2>1, TailFacts
<1>4. OneEach(s) /\ Head(s).from = f /\ f # Nobody => ~Asks(Tail(s), f)
  BY TailFacts DEF OneEach, Asks
<1> QED BY <1>1, <1>2, <1>3, <1>4

(* Nobody waits any more for the requests of d.                             *)
LEMMA OrphanFacts ==
  ASSUME cbox \in Seq(Sends), NEW d \in Queries \cup {Direct}
  PROVE  /\ Orphan(d) \in Seq(Sends) /\ ~Asks(Orphan(d), d)
         /\ OneEach(cbox) => OneEach(Orphan(d))
         /\ \A f \in Queries \cup {Direct} : Asks(Orphan(d), f) => Asks(cbox, f)
         /\ \A f \in Queries \cup {Direct} : \A m :
              AskedBy(cbox, f, m) => AskedBy(Orphan(d), f, m)
<1>1. Nobody \notin Queries \cup {Direct}
  BY QueriesAssumption, RemoteAssumption
<1>2. /\ Orphan(d) \in Seq(Sends) /\ DOMAIN Orphan(d) = DOMAIN cbox
      /\ \A i \in DOMAIN cbox :
           /\ cbox[i].from = d => Orphan(d)[i].from = Nobody
           /\ cbox[i].from # d => Orphan(d)[i] = cbox[i]
  <2>1. \A i \in DOMAIN cbox : cbox[i] \in Sends
    OBVIOUS
  <2>2. \A i \in DOMAIN cbox : [cbox[i] EXCEPT !.from = Nobody] \in Sends
                               /\ [cbox[i] EXCEPT !.from = Nobody].from = Nobody
    BY <2>1 DEF Sends, Senders
  <2>3. /\ DOMAIN Orphan(d) = DOMAIN cbox
        /\ \A i \in DOMAIN cbox : /\ Orphan(d)[i] \in Sends
                                  /\ cbox[i].from = d => Orphan(d)[i].from = Nobody
                                  /\ cbox[i].from # d => Orphan(d)[i] = cbox[i]
    BY <2>1, <2>2 DEF Orphan
  <2>4. Orphan(d) \in [1 .. Len(cbox) -> Sends]
    BY <2>1, <2>2 DEF Orphan
  <2> QED BY <2>3, <2>4
<1>3. ~Asks(Orphan(d), d)
  BY <1>1, <1>2 DEF Asks
<1>4. OneEach(cbox) => OneEach(Orphan(d))
  BY <1>1, <1>2 DEF OneEach
<1>5. \A f \in Queries \cup {Direct} : Asks(Orphan(d), f) => Asks(cbox, f)
  BY <1>1, <1>2 DEF Asks
<1>6. \A f \in Queries \cup {Direct} : \A m : AskedBy(cbox, f, m) => AskedBy(Orphan(d), f, m)
  BY <1>1, <1>2 DEF AskedBy
<1> QED BY <1>2, <1>3, <1>4, <1>5, <1>6

-----------------------------------------------------------------------------
(* The requests of the db actor.                                           *)

LEMMA OrderedAppend ==
  ASSUME NEW s \in Seq(DbMessages), NEW e \in DbMessages, NEW S, NEW R, S \subseteq R,
         Ordered(s, S),
         e.op = "MsgDeleteData" =>
           /\ e.coll = Scanned
           /\ e.key \in R \/ Contains(s, MsgUpdateData(Dated, e.key))
  PROVE  Ordered(Append(s, e), R)
<1> SUFFICES ASSUME NEW i \in DOMAIN Append(s, e), Append(s, e)[i].op = "MsgDeleteData"
             PROVE  /\ Append(s, e)[i].coll = Scanned
                    /\ \/ Append(s, e)[i].key \in R
                       \/ \E j \in DOMAIN Append(s, e) :
                            j < i /\ Append(s, e)[j] = MsgUpdateData(Dated, Append(s, e)[i].key)
  BY DEF Ordered
<1>1. CASE i \in DOMAIN s
  BY <1>1, AppendFacts DEF Ordered
<1>2. CASE i = Len(s) + 1
  <2>1. Append(s, e)[i] = e
    BY <1>2, AppendFacts
  <2>2. ASSUME NEW j \in DOMAIN s, s[j] = MsgUpdateData(Dated, e.key)
        PROVE  j \in DOMAIN Append(s, e) /\ j < i /\ Append(s, e)[j] = MsgUpdateData(Dated, e.key)
    BY <1>2, <2>2, AppendFacts
  <2> QED BY <2>1, <2>2 DEF Contains
<1> QED BY <1>1, <1>2, AppendFacts

LEMMA OrderedTail ==
  ASSUME NEW s \in Seq(DbMessages), s # <<>>, NEW S, NEW R, S \subseteq R, Ordered(s, S),
         \A k : Head(s) = MsgUpdateData(Dated, k) => k \in R
  PROVE  Ordered(Tail(s), R)
<1> SUFFICES ASSUME NEW i \in DOMAIN Tail(s), Tail(s)[i].op = "MsgDeleteData"
             PROVE  /\ Tail(s)[i].coll = Scanned
                    /\ \/ Tail(s)[i].key \in R
                       \/ \E j \in DOMAIN Tail(s) :
                            j < i /\ Tail(s)[j] = MsgUpdateData(Dated, Tail(s)[i].key)
  BY DEF Ordered
<1>1. i \in Nat /\ i + 1 \in DOMAIN s /\ Tail(s)[i] = s[i + 1]
  BY TailFacts
<1>2. /\ s[i + 1].coll = Scanned
      /\ \/ s[i + 1].key \in S
         \/ \E j \in DOMAIN s : j < i + 1 /\ s[j] = MsgUpdateData(Dated, s[i + 1].key)
  BY <1>1 DEF Ordered
<1>3. ASSUME NEW j \in DOMAIN s, j < i + 1, s[j] = MsgUpdateData(Dated, s[i + 1].key),
             s[i + 1].key \notin R
      PROVE  j - 1 \in DOMAIN Tail(s) /\ j - 1 < i
             /\ Tail(s)[j - 1] = MsgUpdateData(Dated, s[i + 1].key)
  BY <1>1, <1>3, TailFacts
<1> QED BY <1>1, <1>2, <1>3

LEMMA OrderedHead ==
  ASSUME NEW s \in Seq(DbMessages), s # <<>>, NEW S, Ordered(s, S), Head(s).op = "MsgDeleteData"
  PROVE  Head(s).coll = Scanned /\ Head(s).key \in S
<1>1. \A j \in DOMAIN s : ~(j < 1)
  OBVIOUS
<1> QED BY <1>1, TailFacts DEF Ordered

LEMMA OrderedMore ==
  ASSUME NEW s, NEW S, NEW R, S \subseteq R, Ordered(s, S)
  PROVE  Ordered(s, R)
BY DEF Ordered

LEMMA OnlyMessagesFacts ==
  ASSUME NEW s \in Seq(DbMessages), OnlyMessages(s), NEW e \in DbMessages
  PROVE  /\ (e.op = "MsgUpdateData" /\ e.coll = Scanned => e.key \in Messages)
              => OnlyMessages(Append(s, e))
         /\ s # <<>> => OnlyMessages(Tail(s))
         /\ s # <<>> /\ Head(s).op = "MsgUpdateData" /\ Head(s).coll = Scanned
              => Head(s).key \in Messages
<1>1. (e.op = "MsgUpdateData" /\ e.coll = Scanned => e.key \in Messages)
        => OnlyMessages(Append(s, e))
  BY AppendFacts DEF OnlyMessages
<1>2. s # <<>> => OnlyMessages(Tail(s))
  BY TailFacts DEF OnlyMessages
<1>3. s # <<>> /\ Head(s).op = "MsgUpdateData" /\ Head(s).coll = Scanned
        => Head(s).key \in Messages
  BY TailFacts DEF OnlyMessages
<1> QED BY <1>1, <1>2, <1>3

-----------------------------------------------------------------------------
(* What a step leaves as it was.                                           *)

LEMMA RequestFacts ==
  /\ \A c, k : /\ MsgUpdateData(c, k).op = "MsgUpdateData" /\ MsgDeleteData(c, k).op = "MsgDeleteData"
              /\ MsgUpdateData(c, k).coll = c /\ MsgDeleteData(c, k).coll = c
              /\ MsgUpdateData(c, k).key = k /\ MsgDeleteData(c, k).key = k
  /\ \A q : MsgQueryData(q).op = "MsgQueryData"
  /\ \A w \in DbMessages : w.op = "MsgUpdateData" => w = MsgUpdateData(w.coll, w.key)
BY DEF MsgUpdateData, MsgDeleteData, MsgQueryData, DbMessages

LEMMA NoticeFacts ==
  /\ Messages \subseteq Keys /\ Nobody \notin Messages
  /\ \A t \in {"verifyReplay", "verifyRetry", "MsgReconnect"} : Note(t) \in Notices
  /\ \A m \in Messages : RemoteMSG2(m) \in Notices /\ RemoteMSG2(m).m = m
  /\ \A n \in Notices : n.t = "RemoteMSG2" => n.m \in Messages
  /\ \A n \in Notices : n.t # "RemoteMSG2" => n.m \notin Messages
<1>1. Messages \subseteq Keys /\ Nobody \notin Messages
  BY KeysAssumption DEF Messages
<1> QED BY <1>1 DEF Notices, Note, RemoteMSG2

LEMMA SameStream == ASSUME StreamInv, UNCHANGED streamVars PROVE StreamInv'
BY StreamInduction

LEMMA SameRequests ==
  ASSUME Requests, dbox' = dbox, Safe \subseteq Safe'
  PROVE  Requests'
BY OrderedMore DEF Requests

LEMMA SameAsked ==
  ASSUME Asked, UNCHANGED <<cbox, pc, cur, calling, child>>
  PROVE  Asked'
BY DEF Asked

LEMMA SameWorking ==
  ASSUME Working, UNCHANGED <<pc, cur>>, dropped \subseteq dropped', InDbox(cur) => InDbox(cur)' \/ cur \in dropped'
  PROVE  Working'
BY DEF Working

\* nothing that was settled is forgotten, and what was in memory has a place again
LEMMA StillKnown ==
  ASSUME AllKnown,
         \A m \in Mine' : \/ m \in Mine
                          \/ m \in Messages /\ InMbox(m)',
         \A m \in Mine : Settled(m) => Settled(m)',
         \A m \in Messages : m = cur \/ InMbox(m) \/ InDbox(m) =>
                               m = cur' \/ InMbox(m)' \/ InDbox(m)' \/ Settled(m)'
  PROVE  AllKnown'
<1> SUFFICES ASSUME NEW m \in Mine' PROVE Known(m)'
  BY DEF AllKnown
<1>1. CASE m \in Mine
  BY <1>1 DEF AllKnown, Known
<1>2. CASE m \in Messages /\ InMbox(m)'
  BY <1>2 DEF Known
<1> QED BY <1>1, <1>2

-----------------------------------------------------------------------------
(* What reaches RemoteActor, and its handlers.                             *)

\* steps that change nothing of the store, the replays or the client
LEMMA NotesInv ==
  ASSUME RemoteInv,
         UNCHANGED <<streamVars, pc, cur, count, calling, cbox, published, refused, dropped,
                     unarchived, faults, crashes>>,
         isConnected' \in BOOLEAN, retryFlag' \in BOOLEAN, isDatabaseOpen' \in BOOLEAN,
         old' \subseteq Keys, mbox' \in Seq(Notices),
         arrived' \subseteq Messages,
         \A m \in arrived' \ arrived : InMbox(m)',
         \A m \in Messages : InMbox(m) => InMbox(m)'
  PROVE  RemoteInv'
<1>1. StreamInv'
  BY SameStream DEF RemoteInv
<1>2. RemoteTypeOK'
  BY <1>1 DEF RemoteInv, StreamInv, RemoteTypeOK, Notices
<1>3. Requests'
  BY SameRequests DEF RemoteInv, Safe, streamVars
<1>4. Asked'
  BY SameAsked DEF RemoteInv, streamVars
<1>5. Working'
  BY DEF RemoteInv, Working, InDbox, streamVars
<1>6. AllKnown'
  <2>1. \A m \in Mine' : m \in Mine \/ (m \in Messages /\ InMbox(m)')
    BY DEF Mine
  <2>2. \A m : (Settled(m) => Settled(m)') /\ (InDbox(m) => InDbox(m)')
    BY DEF Settled, Stored, InDbox, streamVars
  <2> QED BY <2>1, <2>2, StillKnown DEF RemoteInv
<1> QED BY <1>1, <1>2, <1>3, <1>4, <1>5, <1>6 DEF RemoteInv

LEMMA MboxFacts ==
  ASSUME RemoteTypeOK, NEW e \in Notices
  PROVE  /\ mbox \in Seq(Notices) /\ Append(mbox, e) \in Seq(Notices)
         /\ \A m : InMbox(m) => Holds(Append(mbox, e), m)
         /\ Holds(Append(mbox, e), e.m)
         /\ mbox # <<>> =>
              /\ Tail(mbox) \in Seq(Notices) /\ Append(Tail(mbox), e) \in Seq(Notices)
              /\ Head(mbox) \in Notices
              /\ \A m : InMbox(m) => m = Head(mbox).m \/ Holds(Tail(mbox), m)
              /\ \A m : InMbox(m) => m = Head(mbox).m \/ Holds(Append(Tail(mbox), e), m)
<1>1. mbox \in Seq(Notices)
  BY DEF RemoteTypeOK, Notices
<1>2. Append(mbox, e) \in Seq(Notices) /\ Holds(Append(mbox, e), e.m)
      /\ \A m : InMbox(m) => Holds(Append(mbox, e), m)
  BY <1>1, AppendFacts, HoldsFacts DEF InMbox
<1>3. ASSUME mbox # <<>>
      PROVE  /\ Tail(mbox) \in Seq(Notices) /\ Append(Tail(mbox), e) \in Seq(Notices)
             /\ Head(mbox) \in Notices
             /\ \A m : InMbox(m) => m = Head(mbox).m \/ Holds(Tail(mbox), m)
             /\ \A m : InMbox(m) => m = Head(mbox).m \/ Holds(Append(Tail(mbox), e), m)
  <2>1. Tail(mbox) \in Seq(Notices) /\ Head(mbox) \in Notices
    BY <1>1, <1>3, TailFacts
  <2>2. Append(Tail(mbox), e) \in Seq(Notices)
    BY <2>1, AppendFacts
  <2>3. \A m : InMbox(m) => m = Head(mbox).m \/ Holds(Tail(mbox), m)
    BY <1>1, <1>3, HoldsFacts DEF InMbox
  <2>4. \A m : Holds(Tail(mbox), m) => Holds(Append(Tail(mbox), e), m)
    BY <2>1, HoldsFacts
  <2> QED BY <2>1, <2>2, <2>3, <2>4
<1> QED BY <1>1, <1>2, <1>3

LEMMA ArriveInv == ASSUME RemoteInv, Arrive PROVE RemoteInv'
<1>1. PICK m \in Messages \ arrived : arrived' = arrived \cup {m} /\ mbox' = Append(mbox, RemoteMSG2(m))
  BY DEF Arrive
<1>2. RemoteTypeOK /\ RemoteMSG2(m) \in Notices /\ RemoteMSG2(m).m = m
  BY NoticeFacts DEF RemoteInv
<1>3. /\ mbox' \in Seq(Notices) /\ Holds(mbox', m)
      /\ \A n \in Messages : InMbox(n) => Holds(mbox', n)
  BY <1>1, <1>2, MboxFacts
<1> QED BY <1>1, <1>2, <1>3, NotesInv DEF Arrive, InMbox, RemoteTypeOK

LEMMA NotifyInv ==
  ASSUME RemoteInv, NEW t \in {"verifyReplay", "verifyRetry", "MsgReconnect"}, Notify(t)
  PROVE  RemoteInv'
<1>1. RemoteTypeOK /\ Note(t) \in Notices /\ mbox' = Append(mbox, Note(t))
  BY NoticeFacts DEF RemoteInv, Notify
<1>2. mbox' \in Seq(Notices) /\ \A n \in Messages : InMbox(n) => Holds(mbox', n)
  BY <1>1, MboxFacts
<1> QED BY <1>1, <1>2, NotesInv DEF Notify, InMbox, RemoteTypeOK

LEMMA AgeInv == ASSUME RemoteInv, NEW k \in Keys, Age(k) PROVE RemoteInv'
<1>1. RemoteTypeOK /\ mbox \in Seq(Notices)
  BY DEF RemoteInv, RemoteTypeOK, Notices
<1> QED BY <1>1, NotesInv DEF Age, InMbox, RemoteTypeOK

(* Taking a note takes no message with it.                                  *)
LEMMA NoteTaken ==
  ASSUME RemoteTypeOK, mbox # <<>>, Head(mbox).t # "RemoteMSG2",
         NEW s \in {Tail(mbox), Append(Tail(mbox), Note("verifyReplay"))}
  PROVE  s \in Seq(Notices) /\ \A m \in Messages : InMbox(m) => Holds(s, m)
<1>1. Note("verifyReplay") \in Notices
  BY NoticeFacts
<1>2. /\ s \in Seq(Notices) /\ Head(mbox) \in Notices
      /\ \A m : InMbox(m) => m = Head(mbox).m \/ Holds(s, m)
  BY <1>1, MboxFacts
<1>3. \A n \in Notices : n.t # "RemoteMSG2" => n.m \notin Messages
  BY NoticeFacts
<1>4. Head(mbox).m \notin Messages
  BY <1>2, <1>3
<1> QED BY <1>2, <1>4

\* a note that is taken, with or without another one sent
LEMMA NoteTakenInv == ASSUME RemoteInv, VerifyRetry \/ OnMsgReconnect PROVE RemoteInv'
<1>1. /\ mbox # <<>> /\ Head(mbox).t # "RemoteMSG2"
      /\ mbox' \in {Tail(mbox), Append(Tail(mbox), Note("verifyReplay"))}
  BY DEF VerifyRetry, OnMsgReconnect, Takes
<1>2. mbox' \in Seq(Notices) /\ \A m \in Messages : InMbox(m) => InMbox(m)'
  BY <1>1, NoteTaken DEF RemoteInv, InMbox
<1> QED BY <1>2, NotesInv DEF VerifyRetry, OnMsgReconnect, RemoteInv, RemoteTypeOK

LEMMA VerifyReplayInv == ASSUME RemoteInv, VerifyReplay PROVE RemoteInv'
<1>1. /\ mbox # <<>> /\ Head(mbox).t = "verifyReplay" /\ mbox' = Tail(mbox)
      /\ retryFlag' = FALSE /\ isDatabaseOpen' \in BOOLEAN
      /\ UNCHANGED <<pc, cur, isConnected, calling, cbox, old, arrived, published, refused,
                     dropped, unarchived, faults, crashes>>
  BY DEF VerifyReplay, Takes, OpenDatabase
<1>2. CASE ~isDatabaseOpen'
  <2>1. UNCHANGED <<streamVars, count>>
    BY <1>2 DEF VerifyReplay
  <2>2. mbox' \in Seq(Notices) /\ \A m \in Messages : InMbox(m) => Holds(mbox', m)
    BY <1>1, NoteTaken DEF RemoteInv
  <2> QED BY <1>1, <2>1, <2>2, NotesInv DEF InMbox, RemoteInv, RemoteTypeOK
<1>3. CASE isDatabaseOpen'
  <2>1. PICK q \in Queries : /\ QueryCall(q, [prefix |-> Keys, reverse |-> FALSE])
                             /\ count' = [count EXCEPT ![q] = 0]
    BY <1>3 DEF VerifyReplay
  <2>2. [prefix |-> Keys, reverse |-> FALSE] \in [prefix : SUBSET Keys, reverse : BOOLEAN]
    OBVIOUS
  <2>3. StreamInv'
    BY <2>1, <2>2, QueryCallInv DEF RemoteInv
  <2>4. mbox' \in Seq(Notices) /\ \A m \in Messages : InMbox(m) => InMbox(m)'
    BY <1>1, NoteTaken DEF RemoteInv, InMbox
  <2>5. /\ UNCHANGED <<dbox, store>> /\ child' = [child EXCEPT ![q] = [st |-> "ready", key |-> Nobody]]
        /\ child[q].st = "stopped"
    BY <2>1 DEF QueryCall, Free
  <2>6. RemoteTypeOK'
    <3>1. count' \in [Queries -> 0 .. Limit + 1]
      BY <2>1, RemoteAssumption DEF RemoteInv, RemoteTypeOK
    <3> QED BY <1>1, <2>3, <2>4, <3>1 DEF RemoteInv, RemoteTypeOK, StreamInv, Notices
  <2>7. Requests' /\ Working'
    BY <1>1, <2>5, SameRequests DEF RemoteInv, Safe, Working, InDbox
  <2>8. Asked'
    <3>1. ~calling[q] /\ ~Asks(cbox, q)
      BY <2>5 DEF RemoteInv, Asked
    <3>2. AskedBy(cbox, q, child'[q].key)
      BY <3>1 DEF AskedBy, Asks
    <3>3. \A p \in Queries : p # q => child'[p] = child[p]
      BY <2>5 DEF RemoteInv, StreamInv, StreamTypeOK
    <3> QED BY <1>1, <3>1, <3>2, <3>3 DEF RemoteInv, Asked
  <2>9. AllKnown'
    <3>1. \A m : (Settled(m) => Settled(m)') /\ (InDbox(m) => InDbox(m)')
      BY <1>1, <2>5 DEF Settled, Stored, InDbox
    <3>2. Mine' = Mine
      BY <1>1 DEF Mine
    <3> QED BY <1>1, <2>4, <3>1, <3>2, StillKnown DEF RemoteInv
  <2> QED BY <2>3, <2>6, <2>7, <2>8, <2>9 DEF RemoteInv
<1> QED BY <1>2, <1>3

LEMMA CboxType == RemoteTypeOK => cbox \in Seq(Sends)
BY DEF RemoteTypeOK, Sends

\* the message goes to the store, or is lost
LEMMA BackupFacts ==
  ASSUME RemoteInv, NEW m \in Messages, Backup(m),
         UNCHANGED <<store, published, unarchived>>
  PROVE  /\ isDatabaseOpen' \in BOOLEAN /\ pc' \in {"idle", "saving"}
         /\ cur' \in Messages \cup {Nobody}
         /\ dropped \subseteq dropped' /\ dropped' \subseteq Messages
         /\ dbox' \in Seq(DbMessages) /\ \A p \in Queries : NoNewQuery(p)
         /\ Requests' /\ Working'
         /\ InDbox(m)' \/ m \in dropped'
         /\ \A x : InDbox(x) => InDbox(x)'
<1> DEFINE e == MsgUpdateData(Scanned, m)
<1>1. m \in Keys /\ m # Nobody /\ dbox \in Seq(DbMessages) /\ dropped \subseteq Messages
  BY NoticeFacts DEF RemoteInv, StreamInv, StreamTypeOK, RemoteTypeOK
<1>2. e \in DbMessages /\ e.op = "MsgUpdateData" /\ e.coll = Scanned /\ e.key = m
      /\ \A q \in Queries : e # MsgQueryData(q)
  BY <1>1, DbMessage, RequestFacts, ScannedAssumption
<1>3. CASE dbox' = Append(dbox, e) /\ pc' = "saving" /\ cur' = m /\ dropped' = dropped
  <2>1. dbox' \in Seq(DbMessages) /\ \A p \in Queries : NoNewQuery(p)
    BY <1>1, <1>2, <1>3, AppendFacts, DboxChanges
  <2>2. Requests'
    <3>1. Ordered(dbox', Safe)
      BY <1>1, <1>2, <1>3, OrderedAppend DEF RemoteInv, Requests
    <3>2. OnlyMessages(dbox')
      BY <1>1, <1>2, <1>3, OnlyMessagesFacts DEF RemoteInv, Requests
    <3> QED BY <3>1, <3>2 DEF Requests, Safe
  <2>3. InDbox(m)' /\ \A x : InDbox(x) => InDbox(x)'
    BY <1>1, <1>2, <1>3, ContainsFacts DEF InDbox
  <2>4. Working'
    BY <1>1, <1>3, <2>3 DEF Working, InDbox
  <2> QED BY <1>1, <1>3, <2>1, <2>2, <2>3, <2>4 DEF Backup, OpenDatabase
<1>4. CASE dbox' = dbox /\ pc' = "idle" /\ cur' = Nobody /\ dropped' = dropped \cup {m}
  <2>1. \A p \in Queries : NoNewQuery(p)
    BY <1>1, <1>4, DboxChanges
  <2>2. Requests'
    BY <1>4 DEF RemoteInv, Requests, Safe
  <2>3. \A x : InDbox(x) => InDbox(x)'
    BY <1>4 DEF InDbox
  <2> QED BY <1>1, <1>4, <2>1, <2>2, <2>3 DEF Backup, OpenDatabase, Working
<1> QED BY <1>3, <1>4 DEF Backup

LEMMA OnRemoteMSG2Inv == ASSUME RemoteInv, OnRemoteMSG2 PROVE RemoteInv'
<1>1. /\ pc = "idle" /\ mbox # <<>> /\ Head(mbox).t = "RemoteMSG2" /\ mbox' = Tail(mbox)
      /\ UNCHANGED <<serving, store, scan, fwd, child, kbox, caller, args, left,
                     isConnected, retryFlag, count, calling, old, arrived, published, refused,
                     unarchived, faults, crashes>>
  BY DEF OnRemoteMSG2, Takes, Idle
<1>2. PICK m \in Messages : m = Head(mbox).m
  <2>1. Head(mbox) \in Notices
    BY <1>1, TailFacts DEF RemoteInv, RemoteTypeOK, Notices
  <2> QED BY <1>1, <2>1, NoticeFacts
<1>3. /\ mbox' \in Seq(Notices)
      /\ \A x : InMbox(x) => x = m \/ InMbox(x)'
  BY <1>1, <1>2, NoticeFacts, MboxFacts DEF RemoteInv, InMbox
<1>4. /\ cur = Nobody /\ ~Asks(cbox, Direct) /\ cbox \in Seq(Sends) /\ m \in Keys /\ m # Nobody
      /\ Direct \notin Queries
  BY <1>1, CboxType, NoticeFacts, RemoteAssumption DEF RemoteInv, Working, Asked
<1>5. CASE isConnected
  <2> DEFINE e == MsgSendData(m, Direct)
  <2>1. /\ pc' = "sending" /\ cur' = m /\ cbox' = Append(cbox, e)
        /\ UNCHANGED <<dbox, dropped, isDatabaseOpen>>
    BY <1>2, <1>5 DEF OnRemoteMSG2
  <2>2. e \in Sends /\ e.m = m /\ e.from = Direct
    BY <1>4 DEF Sends, Senders, MsgSendData
  <2> HIDE DEF e
  <2>3. StreamInv'
    BY <1>1, <2>1, SameStream DEF streamVars, RemoteInv
  <2>4. RemoteTypeOK'
    <3>1. cbox' \in Seq([m : Keys, from : Senders])
      BY <1>4, <2>1, <2>2, AppendFacts DEF Sends
    <3> QED BY <1>1, <1>3, <1>4, <2>1, <2>3, <3>1 DEF RemoteInv, RemoteTypeOK, StreamInv, Notices
  <2>5. Requests' /\ Working'
    BY <1>1, <1>4, <2>1, SameRequests DEF RemoteInv, Safe, Working
  <2>6. Asked'
    <3>1. OneEach(cbox')
      BY <1>4, <2>1, <2>2, AsksAppend DEF RemoteInv, Asked
    <3>2. AskedBy(cbox', Direct, m)
      BY <1>4, <2>1, <2>2, AsksAppend DEF AskedBy, Asks
    <3>3. ASSUME NEW q \in Queries
          PROVE  (Asks(cbox', q) => calling[q]) /\ AskedBy(cbox', q, child[q].key)
      BY <1>4, <2>1, <2>2, AsksAppend DEF RemoteInv, Asked
    <3> QED BY <1>1, <2>1, <3>1, <3>2, <3>3 DEF RemoteInv, Asked
  <2>7. AllKnown'
    <3>1. \A x : (Settled(x) => Settled(x)') /\ (InDbox(x) => InDbox(x)')
      BY <1>1, <2>1 DEF Settled, Stored, InDbox
    <3>2. Mine' = Mine
      BY <1>1 DEF Mine
    <3> QED BY <1>3, <1>4, <2>1, <3>1, <3>2, NoticeFacts, StillKnown DEF RemoteInv
  <2> QED BY <2>3, <2>4, <2>5, <2>6, <2>7 DEF RemoteInv
<1>6. CASE ~isConnected
  <2>1. Backup(m) /\ cbox' = cbox
    BY <1>2, <1>6 DEF OnRemoteMSG2
  <2>2. /\ isDatabaseOpen' \in BOOLEAN /\ pc' \in {"idle", "saving"}
        /\ cur' \in Messages \cup {Nobody}
        /\ dropped \subseteq dropped' /\ dropped' \subseteq Messages
        /\ dbox' \in Seq(DbMessages) /\ \A p \in Queries : NoNewQuery(p)
        /\ Requests' /\ Working'
        /\ InDbox(m)' \/ m \in dropped'
        /\ \A x : InDbox(x) => InDbox(x)'
    BY <1>1, <2>1, BackupFacts
  <2>3. StreamInv'
    BY <1>1, <2>2, OutsideScanInv DEF RemoteInv, StreamInv, StreamTypeOK
  <2>4. RemoteTypeOK'
    BY <1>1, <1>3, <2>1, <2>2, <2>3 DEF RemoteInv, RemoteTypeOK, StreamInv, Notices
  <2>5. Asked'
    BY <1>1, <1>4, <2>1 DEF RemoteInv, Asked, AskedBy, Asks
  <2>6. AllKnown'
    <3>1. \A x : Settled(x) => Settled(x)'
      BY <1>1, <2>2 DEF Settled, Stored
    <3>2. m \in dropped' => Settled(m)'
      BY DEF Settled
    <3>3. Mine' = Mine
      BY <1>1 DEF Mine
    <3> QED BY <1>3, <1>4, <2>2, <3>1, <3>2, <3>3, NoticeFacts, StillKnown DEF RemoteInv
  <2> QED BY <2>2, <2>3, <2>4, <2>5, <2>6 DEF RemoteInv
<1> QED BY <1>5, <1>6

LEMMA DirectTimeoutInv == ASSUME RemoteInv, DirectTimeout PROVE RemoteInv'
<1>1. /\ pc = "sending" /\ cbox' = Orphan(Direct) /\ Backup(cur)
      /\ faults < MaxFaults /\ faults' = faults + 1
      /\ UNCHANGED <<serving, store, scan, fwd, child, kbox, caller, args, left, mbox,
                     isConnected, retryFlag, count, calling, old, arrived, published, refused,
                     unarchived, crashes>>
  BY DEF DirectTimeout, Fault
<1>2. PICK m \in Messages : m = cur
  BY <1>1 DEF RemoteInv, RemoteTypeOK, Working
<1>3. /\ isDatabaseOpen' \in BOOLEAN /\ pc' \in {"idle", "saving"}
      /\ cur' \in Messages \cup {Nobody}
      /\ dropped \subseteq dropped' /\ dropped' \subseteq Messages
      /\ dbox' \in Seq(DbMessages) /\ \A p \in Queries : NoNewQuery(p)
      /\ Requests' /\ Working'
      /\ InDbox(m)' \/ m \in dropped'
      /\ \A x : InDbox(x) => InDbox(x)'
  BY <1>1, <1>2, BackupFacts
<1>4. /\ cbox' \in Seq(Sends) /\ ~Asks(cbox', Direct) /\ OneEach(cbox')
      /\ \A q \in Queries : Asks(cbox', q) => Asks(cbox, q)
      /\ \A q \in Queries : \A x : AskedBy(cbox, q, x) => AskedBy(cbox', q, x)
  BY <1>1, CboxType, OrphanFacts DEF RemoteInv, Asked
<1>5. StreamInv'
  BY <1>1, <1>3, OutsideScanInv DEF RemoteInv, StreamInv, StreamTypeOK
<1>6. RemoteTypeOK'
  <2>1. faults' \in 0 .. MaxFaults
    BY <1>1, RemoteAssumption DEF RemoteInv, RemoteTypeOK
  <2> QED BY <1>1, <1>3, <1>4, <1>5, <2>1 DEF RemoteInv, RemoteTypeOK, StreamInv, Sends
<1>7. Asked'
  <2>1. \A x : AskedBy(cbox', Direct, x)
    BY <1>4 DEF AskedBy, Asks
  <2>2. ASSUME NEW q \in Queries
        PROVE  /\ Asks(cbox', q) => calling'[q]
               /\ AskedBy(cbox', q, child'[q].key)
               /\ calling'[q] => child'[q].st = "busy"
    BY <1>1, <1>4 DEF RemoteInv, Asked
  <2> QED BY <1>4, <2>1, <2>2 DEF Asked
<1>8. AllKnown'
  <2>1. \A x : (Settled(x) => Settled(x)') /\ (InMbox(x) => InMbox(x)')
    BY <1>1, <1>3 DEF Settled, Stored, InMbox
  <2>2. m \in dropped' => Settled(m)'
    BY DEF Settled
  <2>3. Mine' = Mine
    BY <1>1 DEF Mine
  <2> QED BY <1>2, <1>3, <2>1, <2>2, <2>3, StillKnown DEF RemoteInv
<1> QED BY <1>3, <1>5, <1>6, <1>7, <1>8 DEF RemoteInv

LEMMA SaveTimeoutInv == ASSUME RemoteInv, SaveTimeout PROVE RemoteInv'
<1> PICK m \in Messages : m = cur
  BY DEF SaveTimeout, RemoteInv, RemoteTypeOK, Working
<1>1. /\ pc = "saving" /\ pc' = "idle" /\ cur' = Nobody
      /\ UNCHANGED <<streamVars, mbox, isConnected, retryFlag, isDatabaseOpen, count, calling,
                     cbox, old, arrived, published, refused, dropped, unarchived, faults, crashes>>
  BY DEF SaveTimeout
<1>2. ~Asks(cbox, Direct)
  BY <1>1 DEF RemoteInv, Asked
<1>3. StreamInv'
  BY <1>1, SameStream DEF RemoteInv
<1>4. RemoteTypeOK'
  BY <1>1, <1>3 DEF RemoteInv, RemoteTypeOK, StreamInv
<1>5. Requests' /\ Working'
  BY <1>1, SameRequests DEF RemoteInv, Safe, Working, streamVars
<1>6. Asked'
  BY <1>1, <1>2 DEF RemoteInv, Asked, AskedBy, Asks, streamVars
<1>7. AllKnown'
  <2>1. /\ \A x : Settled(x) => Settled(x)'
        /\ \A x : InMbox(x) => InMbox(x)'
        /\ \A x : InDbox(x) => InDbox(x)'
    BY <1>1 DEF Settled, Stored, InMbox, InDbox, streamVars
  <2>2. InDbox(m) \/ m \in dropped
    BY <1>1 DEF RemoteInv, Working
  <2>3. InDbox(m)' \/ Settled(m)'
    BY <1>1, <2>1, <2>2 DEF Settled
  <2>4. Mine' = Mine
    BY <1>1 DEF Mine
  <2> QED BY <2>1, <2>3, <2>4, StillKnown DEF RemoteInv
<1> QED BY <1>3, <1>4, <1>5, <1>6, <1>7 DEF RemoteInv

-----------------------------------------------------------------------------
(* The db actor.                                                           *)

(* A request that is taken leaves a trace: what it wrote is stored, what it *)
(* did not write is counted as lost, and it deletes only what is safe.      *)
LEMMA DbTakesSettles ==
  ASSUME RemoteInv, dbox # <<>>, dbox' = Tail(dbox),
         published' = published, refused' = refused,
         dropped \subseteq dropped', unarchived \subseteq unarchived',
         store' \in [Collections -> SUBSET Keys],
         \A c \in Collections : \A k \in store[c] :
           k \in store'[c] \/ Head(dbox) = MsgDeleteData(c, k),
         \A k : Head(dbox) = MsgUpdateData(Scanned, k) => k \in store'[Scanned] \cup dropped',
         \A k : Head(dbox) = MsgUpdateData(Dated, k) => k \in store'[Dated] \cup unarchived'
  PROVE  /\ Requests' /\ Safe \subseteq Safe'
         /\ \A m \in Mine : Settled(m) => Settled(m)'
         /\ \A m \in Messages : InDbox(m) => InDbox(m)' \/ Settled(m)'
<1>1. dbox \in Seq(DbMessages) /\ Scanned # Dated /\ Scanned \in Collections /\ Dated \in Collections
  BY ScannedAssumption, RemoteAssumption DEF RemoteInv, StreamInv, StreamTypeOK
<1>2. \A c, k : Head(dbox) = MsgDeleteData(c, k) => c = Scanned /\ k \in Safe
  BY <1>1, OrderedHead, RequestFacts DEF RemoteInv, Requests
<1>3. store[Dated] \subseteq store'[Dated]
  BY <1>1, <1>2
<1>4. Safe \subseteq Safe'
  BY <1>3 DEF Safe
<1>5. Requests'
  <2>1. \A k : Head(dbox) = MsgUpdateData(Dated, k) => k \in Safe'
    BY <1>1 DEF Safe
  <2>2. Ordered(dbox', Safe')
    BY <1>1, <1>4, <2>1, OrderedTail DEF RemoteInv, Requests
  <2>3. OnlyMessages(dbox')
    BY <1>1, OnlyMessagesFacts, ScannedAssumption DEF RemoteInv, Requests, OnlyMessages
  <2> QED BY <2>2, <2>3 DEF Requests
<1>6. ASSUME NEW m \in Mine, Settled(m) PROVE Settled(m)'
  <2>1. CASE m \in published \cup refused \cup dropped \cup unarchived
    BY <2>1 DEF Settled
  <2>2. CASE m \in Stored
    <3>1. PICK c \in Collections : m \in store[c]
      BY <2>2 DEF Stored
    <3>2. CASE m \in store'[c]
      BY <3>2 DEF Settled, Stored
    <3>3. CASE Head(dbox) = MsgDeleteData(c, m)
      <4>1. m \in Safe /\ m \notin BadIds
        BY <1>2, <3>3, RemoteAssumption DEF RemoteInv, RemoteTypeOK, Mine, Messages
      <4> QED BY <1>1, <1>3, <4>1 DEF Safe, Settled, Stored
    <3> QED BY <3>1, <3>2, <3>3
  <2> QED BY <1>6, <2>1, <2>2 DEF Settled
<1>7. ASSUME NEW m \in Messages, InDbox(m) PROVE InDbox(m)' \/ Settled(m)'
  <2>1. InDbox(m)' \/ Head(dbox) = MsgUpdateData(Scanned, m)
    BY <1>1, <1>7, ContainsFacts DEF InDbox
  <2>2. Head(dbox) = MsgUpdateData(Scanned, m) => Settled(m)'
    BY <1>1 DEF Settled, Stored
  <2> QED BY <2>1, <2>2
<1> QED BY <1>4, <1>5, <1>6, <1>7


\* a step of the db actor, with the answer to who waits for the write
LEMMA DbStepInv ==
  ASSUME RemoteInv, StreamInv', dbox # <<>>, dbox' = Tail(dbox),
         UNCHANGED <<child, mbox, isConnected, retryFlag, isDatabaseOpen, count, calling, cbox, old,
                     arrived, published, refused, crashes>>,
         faults' \in 0 .. MaxFaults,
         dropped \subseteq dropped', dropped' \subseteq Messages,
         unarchived \subseteq unarchived', unarchived' \subseteq Keys,
         \A c \in Collections : \A k \in store[c] :
           k \in store'[c] \/ Head(dbox) = MsgDeleteData(c, k),
         \A k : Head(dbox) = MsgUpdateData(Scanned, k) => k \in store'[Scanned] \cup dropped',
         \A k : Head(dbox) = MsgUpdateData(Dated, k) => k \in store'[Dated] \cup unarchived',
         \/ /\ UNCHANGED <<pc, cur>>
            /\ pc = "saving" /\ Head(dbox) = MsgUpdateData(Scanned, cur) => cur \in dropped'
         \/ pc = "saving" /\ pc' = "idle" /\ cur' = Nobody /\ Head(dbox) = MsgUpdateData(Scanned, cur)
  PROVE  RemoteInv'
<1> PICK u : u = cur
  OBVIOUS
<1>1. dbox \in Seq(DbMessages) /\ store' \in [Collections -> SUBSET Keys]
  BY DEF RemoteInv, StreamInv, StreamTypeOK
<1>2. /\ Requests' /\ Safe \subseteq Safe'
      /\ \A m \in Mine : Settled(m) => Settled(m)'
      /\ \A m \in Messages : InDbox(m) => InDbox(m)' \/ Settled(m)'
  BY <1>1, DbTakesSettles
<1>3. RemoteTypeOK'
  BY DEF RemoteInv, RemoteTypeOK, StreamInv
<1>4. InDbox(u) => InDbox(u)' \/ Head(dbox) = MsgUpdateData(Scanned, u)
  BY <1>1, ContainsFacts DEF InDbox
<1>5. CASE UNCHANGED <<pc, cur>> /\ (pc = "saving" /\ Head(dbox) = MsgUpdateData(Scanned, cur)
                                     => cur \in dropped')
  <2>1. Working'
    <3>1. pc = "saving" => u \in dropped \/ InDbox(u)
      BY DEF RemoteInv, Working
    <3>2. pc = "saving" => u \in dropped' \/ InDbox(u)'
      BY <1>4, <1>5, <3>1
    <3> QED BY <1>5, <3>2 DEF RemoteInv, Working
  <2>2. Asked'
    BY <1>5, SameAsked DEF RemoteInv
  <2>3. AllKnown'
    <3>1. \A x : InMbox(x) => InMbox(x)'
      BY DEF InMbox
    <3>2. Mine' = Mine
      BY DEF Mine
    <3> QED BY <1>2, <1>5, <3>1, <3>2, StillKnown DEF RemoteInv
  <2> QED BY <1>2, <1>3, <2>1, <2>2, <2>3 DEF RemoteInv
<1>6. CASE pc = "saving" /\ pc' = "idle" /\ cur' = Nobody /\ Head(dbox) = MsgUpdateData(Scanned, cur)
  <2>1. Working'
    BY <1>6 DEF Working
  <2>2. Asked'
    <3>1. ~Asks(cbox', Direct)
      BY <1>6 DEF RemoteInv, Asked
    <3>2. \A x : AskedBy(cbox', Direct, x)
      BY <3>1 DEF AskedBy, Asks
    <3> QED BY <3>1, <3>2 DEF RemoteInv, Asked
  <2>3. AllKnown'
    <3>1. \A x : InMbox(x) => InMbox(x)'
      BY DEF InMbox
    <3>2. InDbox(u)
      BY <1>1, <1>6, TailFacts DEF InDbox, Contains
    <3>3. u \in Messages => InDbox(u)' \/ Settled(u)'
      BY <1>2, <3>2
    <3>4. Mine' = Mine
      BY DEF Mine
    <3> QED BY <1>2, <1>6, <3>1, <3>3, <3>4, StillKnown DEF RemoteInv
  <2> QED BY <1>2, <1>3, <2>1, <2>2, <2>3 DEF RemoteInv
<1> QED BY <1>5, <1>6

LEMMA UnwrittenFacts ==
  ASSUME RemoteInv, dbox # <<>>, Head(dbox).op = "MsgUpdateData", Unwritten(Head(dbox))
  PROVE  /\ dropped \subseteq dropped' /\ dropped' \subseteq Messages
         /\ unarchived \subseteq unarchived' /\ unarchived' \subseteq Keys
         /\ \A k : Head(dbox) = MsgUpdateData(Scanned, k) => k \in dropped'
         /\ \A k : Head(dbox) = MsgUpdateData(Dated, k) => k \in unarchived'
<1>1. dbox \in Seq(DbMessages)
  BY DEF RemoteInv, StreamInv, StreamTypeOK
<1>2. Head(dbox).key \in Keys /\ (Head(dbox).coll = Scanned => Head(dbox).key \in Messages)
  <2>1. Head(dbox).key \in Keys
    BY <1>1, HeadOfDbox
  <2>2. Head(dbox).coll = Scanned => Head(dbox).key \in Messages
    BY <1>1, TailFacts DEF RemoteInv, Requests, OnlyMessages
  <2> QED BY <2>1, <2>2
<1> QED BY <1>2, RequestFacts DEF Unwritten, RemoteInv, RemoteTypeOK

LEMMA RemoteDbUpdateInv ==
  ASSUME RemoteInv, NEW ok \in BOOLEAN, RemoteDbUpdate(ok) PROVE RemoteInv'
<1>1. /\ dbox # <<>> /\ Head(dbox).op = "MsgUpdateData" /\ dbox' = Tail(dbox)
      /\ store' = IF ok THEN [store EXCEPT ![Head(dbox).coll] = @ \cup {Head(dbox).key}] ELSE store
      /\ UNCHANGED <<child, mbox, isConnected, retryFlag, isDatabaseOpen, count, calling, cbox, old,
                     arrived, published, refused, crashes>>
      /\ SaveAnswer(Head(dbox))
      /\ IF ok THEN UNCHANGED <<dropped, unarchived, faults>> ELSE Unwritten(Head(dbox)) /\ Fault
  BY DEF RemoteDbUpdate, DbUpdate, DbReady
<1>2. StreamInv'
  BY DbTakesInv DEF RemoteDbUpdate, RemoteInv
<1>3. dbox \in Seq(DbMessages) /\ store \in [Collections -> SUBSET Keys]
  BY DEF RemoteInv, StreamInv, StreamTypeOK
<1>4. Head(dbox).coll \in Collections /\ Head(dbox) = MsgUpdateData(Head(dbox).coll, Head(dbox).key)
  BY <1>1, <1>3, HeadOfDbox, TailFacts, RequestFacts
<1>5. faults' \in 0 .. MaxFaults
  BY <1>1, RemoteAssumption DEF Fault, RemoteInv, RemoteTypeOK
<1>6. \/ UNCHANGED <<pc, cur>> /\ ~(pc = "saving" /\ Head(dbox) = MsgUpdateData(Scanned, cur))
      \/ pc = "saving" /\ pc' = "idle" /\ cur' = Nobody /\ Head(dbox) = MsgUpdateData(Scanned, cur)
  BY <1>1 DEF SaveAnswer, Answered
<1>7. \A c \in Collections : \A k \in store[c] : k \in store'[c]
  BY <1>1, <1>3, <1>4
<1>8. CASE ok
  <2>1. /\ \A k : Head(dbox) = MsgUpdateData(Scanned, k) => k \in store'[Scanned]
        /\ \A k : Head(dbox) = MsgUpdateData(Dated, k) => k \in store'[Dated]
    BY <1>1, <1>3, <1>4, <1>8, RequestFacts
  <2> QED BY <1>1, <1>2, <1>5, <1>6, <1>7, <1>8, <2>1, DbStepInv DEF RemoteInv, RemoteTypeOK
<1>9. CASE ~ok
  BY <1>1, <1>2, <1>5, <1>6, <1>7, <1>9, UnwrittenFacts, DbStepInv
<1> QED BY <1>8, <1>9

LEMMA RemoteDbDeleteInv ==
  ASSUME RemoteInv, NEW ok \in BOOLEAN, RemoteDbDelete(ok) PROVE RemoteInv'
<1>1. /\ dbox # <<>> /\ Head(dbox).op = "MsgDeleteData" /\ dbox' = Tail(dbox)
      /\ store' = IF ok THEN [store EXCEPT ![Head(dbox).coll] = @ \ {Head(dbox).key}] ELSE store
      /\ UNCHANGED <<child, mbox, pc, cur, isConnected, retryFlag, isDatabaseOpen, count, calling,
                     cbox, old, arrived, published, refused, dropped, unarchived, crashes>>
      /\ IF ok THEN UNCHANGED faults ELSE Fault
  BY DEF RemoteDbDelete, DbDelete, DbReady
<1>2. StreamInv'
  BY DbTakesInv DEF RemoteDbDelete, RemoteInv
<1>3. dbox \in Seq(DbMessages) /\ store \in [Collections -> SUBSET Keys]
  BY DEF RemoteInv, StreamInv, StreamTypeOK
<1>4. /\ Head(dbox) = MsgDeleteData(Head(dbox).coll, Head(dbox).key)
      /\ \A c, k : Head(dbox) # MsgUpdateData(c, k)
  BY <1>1, <1>3, TailFacts, RequestFacts DEF DbMessages, MsgDeleteData
<1>5. faults' \in 0 .. MaxFaults
  BY <1>1, RemoteAssumption DEF Fault, RemoteInv, RemoteTypeOK
<1>6. \A c \in Collections : \A k \in store[c] :
        k \in store'[c] \/ Head(dbox) = MsgDeleteData(c, k)
  BY <1>1, <1>3, <1>4
<1> QED BY <1>1, <1>2, <1>4, <1>5, <1>6, DbStepInv DEF RemoteInv, RemoteTypeOK

LEMMA RemoteDbDropsInv == ASSUME RemoteInv, RemoteDbDrops PROVE RemoteInv'
<1>1. /\ dbox # <<>> /\ dbox' = Tail(dbox)
      /\ UNCHANGED <<store, child, mbox, pc, cur, isConnected, retryFlag, isDatabaseOpen, count,
                     calling, cbox, old, arrived, published, refused, faults, crashes>>
      /\ IF Head(dbox).op = "MsgUpdateData" THEN Unwritten(Head(dbox))
                                            ELSE UNCHANGED <<dropped, unarchived>>
  BY DEF RemoteDbDrops, DbDrops
<1>2. StreamInv'
  BY DbTakesInv DEF RemoteDbDrops, RemoteInv
<1>3. /\ dropped \subseteq dropped' /\ dropped' \subseteq Messages
      /\ unarchived \subseteq unarchived' /\ unarchived' \subseteq Keys
      /\ \A k : Head(dbox) = MsgUpdateData(Scanned, k) => k \in dropped'
      /\ \A k : Head(dbox) = MsgUpdateData(Dated, k) => k \in unarchived'
  <2>1. CASE Head(dbox).op = "MsgUpdateData"
    BY <1>1, <2>1, UnwrittenFacts
  <2>2. CASE Head(dbox).op # "MsgUpdateData"
    BY <1>1, <2>2, RequestFacts DEF RemoteInv, RemoteTypeOK
  <2> QED BY <2>1, <2>2
<1> QED BY <1>1, <1>2, <1>3, DbStepInv DEF RemoteInv, RemoteTypeOK


-----------------------------------------------------------------------------
(* The callback of a replay.                                               *)

\* a callback that returns, whatever it asked of the db actor
LEMMA ReturnsInv ==
  ASSUME RemoteInv, NEW q \in Queries, NEW more \in BOOLEAN, CallbackReturns(q, more),
         dbox' \in Seq(DbMessages), \A p \in Queries : NoNewQuery(p), Requests',
         \A x : InDbox(x) => InDbox(x)',
         calling' = [calling EXCEPT ![q] = FALSE],
         cbox' \in Seq(Sends), OneEach(cbox'), ~Asks(cbox', q),
         \A f \in Queries \cup {Direct} : Asks(cbox', f) => Asks(cbox, f),
         \A f \in Queries \cup {Direct} : \A m : AskedBy(cbox, f, m) => AskedBy(cbox', f, m),
         published \subseteq published', published' \subseteq Keys,
         retryFlag' \in BOOLEAN, count' \in [Queries -> 0 .. Limit + 1], faults' \in 0 .. MaxFaults,
         UNCHANGED <<mbox, pc, cur, isConnected, isDatabaseOpen, old, arrived, refused, dropped,
                     unarchived, crashes>>
  PROVE  RemoteInv'
<1>1. StreamInv'
  BY CallbackReturnsInv DEF RemoteInv
<1>2. store' = store /\ \A p \in Queries : p # q => child'[p] = child[p] /\ calling'[p] = calling[p]
  BY DEF CallbackReturns, RemoteInv, StreamInv, StreamTypeOK, RemoteTypeOK
<1>3. calling' \in [Queries -> BOOLEAN] /\ ~calling'[q]
  BY DEF RemoteInv, RemoteTypeOK
<1>4. RemoteTypeOK'
  BY <1>1, <1>3 DEF RemoteInv, RemoteTypeOK, StreamInv, Sends
<1>5. Working'
  BY DEF RemoteInv, Working
<1>6. Asked'
  <2>1. ASSUME NEW p \in Queries
        PROVE  /\ Asks(cbox', p) => calling'[p]
               /\ AskedBy(cbox', p, child'[p].key)
               /\ calling'[p] => child'[p].st = "busy"
    <3>1. CASE p = q
      <4>1. \A x : AskedBy(cbox', q, x)
        BY DEF AskedBy, Asks
      <4> QED BY <1>3, <3>1, <4>1
    <3>2. CASE p # q
      BY <1>2, <3>2 DEF RemoteInv, Asked
    <3> QED BY <3>1, <3>2
  <2>2. (Asks(cbox', Direct) => pc' = "sending") /\ AskedBy(cbox', Direct, cur')
    BY DEF RemoteInv, Asked
  <2> QED BY <2>1, <2>2 DEF Asked
<1>7. AllKnown'
  <2>1. \A x : Settled(x) => Settled(x)'
    BY <1>2 DEF Settled, Stored
  <2>2. \A x : InMbox(x) => InMbox(x)'
    BY DEF InMbox
  <2>3. Mine' = Mine
    BY DEF Mine
  <2> QED BY <2>1, <2>2, <2>3, StillKnown DEF RemoteInv
<1> QED BY <1>1, <1>4, <1>5, <1>6, <1>7 DEF RemoteInv

\* the callback adds to the requests of the db actor
LEMMA RequestAdded ==
  ASSUME RemoteInv, NEW e \in DbMessages, e.op # "MsgQueryData", dbox' = Append(dbox, e),
         e.op = "MsgDeleteData" => e.coll = Scanned /\ e.key \in Safe',
         e.op = "MsgUpdateData" => e.coll # Scanned,
         Safe \subseteq Safe'
  PROVE  /\ dbox' \in Seq(DbMessages) /\ Requests'
         /\ \A p \in Queries : NoNewQuery(p)
         /\ \A x : InDbox(x) => InDbox(x)'
<1>1. dbox \in Seq(DbMessages)
  BY DEF RemoteInv, StreamInv, StreamTypeOK
<1>2. \A p \in Queries : e # MsgQueryData(p)
  BY RequestFacts
<1>3. dbox' \in Seq(DbMessages) /\ \A p \in Queries : NoNewQuery(p)
  BY <1>1, <1>2, AppendFacts, DboxChanges
<1>4. Ordered(dbox', Safe')
  BY <1>1, OrderedAppend DEF RemoteInv, Requests
<1>5. OnlyMessages(dbox')
  BY <1>1, OnlyMessagesFacts DEF RemoteInv, Requests
<1>6. \A x : InDbox(x) => InDbox(x)'
  BY <1>1, ContainsFacts DEF InDbox
<1> QED BY <1>3, <1>4, <1>5, <1>6 DEF Requests

LEMMA NoRequest ==
  ASSUME RemoteInv, dbox' = dbox, Safe \subseteq Safe'
  PROVE  /\ dbox' \in Seq(DbMessages) /\ Requests'
         /\ \A p \in Queries : NoNewQuery(p)
         /\ \A x : InDbox(x) => InDbox(x)'
<1>1. dbox \in Seq(DbMessages)
  BY DEF RemoteInv, StreamInv, StreamTypeOK
<1>2. \A p \in Queries : NoNewQuery(p)
  BY <1>1, DboxChanges
<1>3. Requests'
  BY SameRequests DEF RemoteInv
<1> QED BY <1>1, <1>2, <1>3 DEF InDbox

\* a callback that does not wait for the client
LEMMA AtEntryFacts ==
  ASSUME RemoteInv, NEW q \in Queries, AtEntry(q), UNCHANGED <<calling, cbox>>
  PROVE  /\ child[q].key \in Keys /\ calling' = [calling EXCEPT ![q] = FALSE]
         /\ cbox' \in Seq(Sends) /\ OneEach(cbox') /\ ~Asks(cbox', q)
         /\ \A f \in Queries \cup {Direct} : Asks(cbox', f) => Asks(cbox, f)
         /\ \A f \in Queries \cup {Direct} : \A m : AskedBy(cbox, f, m) => AskedBy(cbox', f, m)
<1>1. child[q].key \in Keys
  BY DEF AtEntry, RemoteInv, StreamInv, QueryInv, ChildAlive
<1>2. ~Asks(cbox, q) /\ OneEach(cbox)
  BY DEF AtEntry, RemoteInv, Asked
<1>3. calling' = [calling EXCEPT ![q] = FALSE]
  BY DEF AtEntry, RemoteInv, RemoteTypeOK
<1> QED BY <1>1, <1>2, <1>3, CboxType DEF RemoteInv

LEMMA CallbackInv ==
  ASSUME RemoteInv, NEW q \in Queries,
         CallbackLimit(q) \/ CallbackBadId(q) \/ CallbackExpired(q) \/ CallbackOffline(q)
  PROVE  RemoteInv'
<1>1. /\ AtEntry(q)
      /\ UNCHANGED <<mbox, pc, cur, isConnected, isDatabaseOpen, calling, cbox, old, arrived,
                     published, refused, dropped, unarchived, faults, crashes>>
      /\ retryFlag' \in BOOLEAN
  BY DEF CallbackLimit, CallbackBadId, CallbackExpired, CallbackOffline, RemoteInv, RemoteTypeOK
<1>2. PICK more \in BOOLEAN : CallbackReturns(q, more)
  BY DEF CallbackLimit, CallbackBadId, CallbackExpired, CallbackOffline
<1>3. PICK k \in Keys : k = child[q].key
  BY <1>1, AtEntryFacts
<1>4. count' \in [Queries -> 0 .. Limit + 1]
  <2>1. CASE CallbackLimit(q)
    BY <2>1 DEF CallbackLimit, RemoteInv, RemoteTypeOK
  <2>2. CASE Counted(q)
    <3>1. count \in [Queries -> 0 .. Limit + 1] /\ Limit \in Nat /\ ~(count[q] > Limit)
      BY <2>2, RemoteAssumption DEF RemoteInv, RemoteTypeOK, Counted, OverLimit
    <3>2. count[q] + 1 \in 0 .. Limit + 1
      BY <3>1
    <3> QED BY <2>2, <3>1, <3>2 DEF Counted
  <2> QED BY <2>1, <2>2 DEF CallbackBadId, CallbackExpired, CallbackOffline
<1>5. store' = store /\ Safe' = Safe
  BY <1>1, <1>2 DEF CallbackReturns, Safe
<1>6. /\ dbox' \in Seq(DbMessages) /\ Requests'
      /\ \A p \in Queries : NoNewQuery(p)
      /\ \A x : InDbox(x) => InDbox(x)'
  <2>1. CASE CallbackLimit(q) \/ CallbackOffline(q)
    BY <1>5, <2>1, NoRequest DEF CallbackLimit, CallbackOffline
  <2> DEFINE del == MsgDeleteData(Scanned, k)
             copy == MsgUpdateData(Dated, k)
  <2>2. /\ del \in DbMessages /\ del.op = "MsgDeleteData" /\ del.coll = Scanned /\ del.key = k
        /\ copy \in DbMessages /\ copy.op = "MsgUpdateData" /\ copy.coll = Dated /\ copy.key = k
        /\ \A p : del # MsgQueryData(p) /\ copy # MsgQueryData(p)
    BY DbMessage, RequestFacts, ScannedAssumption, RemoteAssumption
  <2> HIDE DEF del, copy
  <2>3. CASE CallbackBadId(q)
    <3>1. dbox' = Append(dbox, del) /\ k \in Safe'
      BY <1>3, <1>5, <2>3 DEF CallbackBadId, Safe, del
    <3> QED BY <1>5, <2>2, <3>1, RequestAdded
  <2>4. CASE CallbackExpired(q)
    <3>1. dbox \in Seq(DbMessages) /\ Ordered(dbox, Safe) /\ OnlyMessages(dbox)
      BY DEF RemoteInv, StreamInv, StreamTypeOK, Requests
    <3> DEFINE d == Append(dbox, copy)
    <3>2. dbox' = Append(d, del)
      <4>1. dbox' = dbox \o <<copy, del>>
        BY <1>3, <2>4 DEF CallbackExpired, del, copy
      <4> QED BY <2>2, <3>1, <4>1
    <3>3. /\ d \in Seq(DbMessages) /\ Ordered(d, Safe) /\ OnlyMessages(d) /\ Contains(d, copy)
          /\ \A x : InDbox(x) => Contains(d, MsgUpdateData(Scanned, x))
      BY <2>2, <3>1, AppendFacts, OrderedAppend, OnlyMessagesFacts, ContainsFacts, RemoteAssumption
         DEF InDbox
    <3>4. \A p \in Queries : (Queued(p)' => Queued(p)) /\ (QueuedOnce(p) => QueuedOnce(p)')
      <4>1. ASSUME NEW p \in Queries
            PROVE  \A i \in DOMAIN dbox' : dbox'[i] = MsgQueryData(p) =>
                     i \in DOMAIN dbox /\ dbox[i] = MsgQueryData(p)
        <5>1. \A i \in DOMAIN d : d[i] = MsgQueryData(p) =>
                 i \in DOMAIN dbox /\ dbox[i] = MsgQueryData(p)
          BY <2>2, <3>1, AppendFacts
        <5> HIDE DEF d
        <5> QED BY <2>2, <3>2, <3>3, <5>1, AppendFacts
      <4> QED BY <4>1 DEF Queued, QueuedOnce
    <3> HIDE DEF d
    <3>5. dbox' \in Seq(DbMessages) /\ Ordered(dbox', Safe) /\ OnlyMessages(dbox')
      BY <2>2, <3>2, <3>3, AppendFacts, OrderedAppend, OnlyMessagesFacts DEF copy
    <3>6. \A x : InDbox(x) => InDbox(x)'
      BY <2>2, <3>2, <3>3, ContainsFacts DEF InDbox
    <3> QED BY <1>5, <3>4, <3>5, <3>6 DEF Requests, NoNewQuery
  <2> QED BY <2>1, <2>3, <2>4
<1>7. /\ calling' = [calling EXCEPT ![q] = FALSE]
      /\ cbox' \in Seq(Sends) /\ OneEach(cbox') /\ ~Asks(cbox', q)
      /\ \A f \in Queries \cup {Direct} : Asks(cbox', f) => Asks(cbox, f)
      /\ \A f \in Queries \cup {Direct} : \A m : AskedBy(cbox, f, m) => AskedBy(cbox', f, m)
  BY <1>1, AtEntryFacts
<1> QED BY <1>1, <1>2, <1>4, <1>6, <1>7, ReturnsInv DEF RemoteInv, RemoteTypeOK


LEMMA CallbackSendInv == ASSUME RemoteInv, NEW q \in Queries, CallbackSend(q) PROVE RemoteInv'
<1> PICK k \in Keys : k = child[q].key
  BY DEF CallbackSend, AtEntry, RemoteInv, StreamInv, QueryInv, ChildAlive
<1> DEFINE e == MsgSendData(k, q)
<1>1. /\ AtEntry(q) /\ Counted(q)
      /\ calling' = [calling EXCEPT ![q] = TRUE] /\ cbox' = Append(cbox, e)
      /\ UNCHANGED <<streamVars, mbox, pc, cur, isConnected, retryFlag, isDatabaseOpen, old,
                     arrived, published, refused, dropped, unarchived, faults, crashes>>
  BY DEF CallbackSend
<1>2. /\ e \in Sends /\ e.m = k /\ e.from = q /\ q # Direct /\ Direct \notin Queries
      /\ cbox \in Seq(Sends) /\ ~Asks(cbox, q)
  BY <1>1, CboxType, RemoteAssumption DEF Sends, Senders, MsgSendData, RemoteInv, Asked, AtEntry
<1> HIDE DEF e
<1>3. StreamInv'
  BY <1>1, SameStream DEF RemoteInv
<1>4. RemoteTypeOK'
  <2>1. count' \in [Queries -> 0 .. Limit + 1]
    <3>1. count \in [Queries -> 0 .. Limit + 1] /\ Limit \in Nat /\ ~(count[q] > Limit)
      BY <1>1, RemoteAssumption DEF RemoteInv, RemoteTypeOK, Counted, OverLimit
    <3>2. count[q] + 1 \in 0 .. Limit + 1
      BY <3>1
    <3> QED BY <1>1, <3>1, <3>2 DEF Counted
  <2>2. cbox' \in Seq(Sends)
    BY <1>1, <1>2, AppendFacts
  <2>3. calling' \in [Queries -> BOOLEAN]
    BY <1>1 DEF RemoteInv, RemoteTypeOK
  <2> QED BY <1>1, <1>3, <2>1, <2>2, <2>3 DEF RemoteInv, RemoteTypeOK, StreamInv, Sends
<1>5. Requests'
  BY <1>1, SameRequests DEF RemoteInv, Safe, streamVars
<1>6. Working'
  BY <1>1 DEF RemoteInv, Working, InDbox, streamVars
<1>7. Asked'
  <2>1. OneEach(cbox')
    BY <1>1, <1>2, AsksAppend DEF RemoteInv, Asked
  <2>2. (Asks(cbox', Direct) => pc' = "sending") /\ AskedBy(cbox', Direct, cur')
    BY <1>1, <1>2, AsksAppend DEF RemoteInv, Asked
  <2>3. ASSUME NEW p \in Queries
        PROVE  /\ Asks(cbox', p) => calling'[p]
               /\ AskedBy(cbox', p, child'[p].key)
               /\ calling'[p] => child'[p].st = "busy"
    <3>1. child' = child
      BY <1>1 DEF streamVars
    <3>2. CASE p = q
      <4>1. calling'[q] /\ child[q].st = "busy"
        BY <1>1 DEF RemoteInv, RemoteTypeOK, AtEntry
      <4>2. AskedBy(cbox', q, child[q].key)
        BY <1>1, <1>2, AsksAppend DEF RemoteInv, Asked
      <4> QED BY <3>1, <3>2, <4>1, <4>2
    <3>3. CASE p # q
      <4>1. calling'[p] = calling[p]
        BY <1>1, <3>3 DEF RemoteInv, RemoteTypeOK
      <4> QED BY <1>1, <1>2, <3>1, <3>3, <4>1, AsksAppend DEF RemoteInv, Asked
    <3> QED BY <3>2, <3>3
  <2> QED BY <2>1, <2>2, <2>3 DEF Asked
<1>8. AllKnown'
  <2>1. /\ \A x : Settled(x) => Settled(x)'
        /\ \A x : InMbox(x) => InMbox(x)'
        /\ \A x : InDbox(x) => InDbox(x)'
    BY <1>1 DEF Settled, Stored, InMbox, InDbox, streamVars
  <2>2. Mine' = Mine
    BY <1>1 DEF Mine
  <2> QED BY <1>1, <2>1, <2>2, StillKnown DEF RemoteInv
<1> QED BY <1>3, <1>4, <1>5, <1>6, <1>7, <1>8 DEF RemoteInv

LEMMA ReplayTimeoutInv == ASSUME RemoteInv, NEW q \in Queries, ReplayTimeout(q) PROVE RemoteInv'
<1>1. /\ CallbackReturns(q, FALSE) /\ dbox' = dbox /\ cbox' = Orphan(q)
      /\ calling' = [calling EXCEPT ![q] = FALSE]
      /\ faults < MaxFaults /\ faults' = faults + 1
      /\ UNCHANGED <<mbox, pc, cur, isConnected, retryFlag, isDatabaseOpen, count, old,
                     arrived, published, refused, dropped, unarchived, crashes>>
  BY DEF ReplayTimeout, Fault
<1>2. Safe' = Safe
  BY <1>1 DEF CallbackReturns, Safe
<1>3. /\ dbox' \in Seq(DbMessages) /\ Requests'
      /\ \A p \in Queries : NoNewQuery(p)
      /\ \A x : InDbox(x) => InDbox(x)'
  BY <1>1, <1>2, NoRequest
<1>4. /\ cbox' \in Seq(Sends) /\ OneEach(cbox') /\ ~Asks(cbox', q)
      /\ \A f \in Queries \cup {Direct} : Asks(cbox', f) => Asks(cbox, f)
      /\ \A f \in Queries \cup {Direct} : \A m : AskedBy(cbox, f, m) => AskedBy(cbox', f, m)
  BY <1>1, CboxType, OrphanFacts DEF RemoteInv, Asked
<1>5. faults' \in 0 .. MaxFaults
  BY <1>1, RemoteAssumption DEF RemoteInv, RemoteTypeOK
<1> QED BY <1>1, <1>3, <1>4, <1>5, ReturnsInv DEF RemoteInv, RemoteTypeOK

-----------------------------------------------------------------------------
(* The client.                                                             *)

LEMMA ServesFacts ==
  ASSUME RemoteInv, NEW ack \in BOOLEAN, NEW out \in BOOLEAN, ClientServes(ack, out)
  PROVE  /\ cbox # <<>> /\ cbox \in Seq(Sends) /\ cbox' \in Seq(Sends) /\ OneEach(cbox')
         /\ published \subseteq published' /\ published' \subseteq Keys
         /\ (out => Head(cbox).m \in published') /\ (ack => out)
         /\ faults' \in 0 .. MaxFaults
         /\ Asks(cbox, Head(cbox).from)
         /\ \A f : f # Nobody /\ Head(cbox).from = f => ~Asks(cbox', f)
         /\ \A f, m : AskedBy(cbox, f, m) /\ Head(cbox).from = f => Head(cbox).m = m
         /\ \A f : Asks(cbox', f) => Asks(cbox, f)
         /\ \A f, m : AskedBy(cbox, f, m) => AskedBy(cbox', f, m)
<1>1. /\ cbox # <<>> /\ (ack => out) /\ cbox' = Tail(cbox)
      /\ IF ack THEN UNCHANGED faults ELSE Fault
      /\ published' = IF out THEN published \cup {Head(cbox).m} ELSE published
      /\ cbox \in Seq(Sends) /\ OneEach(cbox) /\ published \subseteq Keys
  BY CboxType DEF ClientServes, RemoteInv, RemoteTypeOK, Asked
<1>2. cbox' \in Seq(Sends) /\ Head(cbox) \in Sends
  BY <1>1, TailFacts
<1>3. Head(cbox).m \in Keys
  BY <1>2 DEF Sends
<1>4. faults' \in 0 .. MaxFaults
  BY <1>1, RemoteAssumption DEF Fault, RemoteInv, RemoteTypeOK
<1>5. /\ OneEach(cbox') /\ Asks(cbox, Head(cbox).from)
      /\ \A f : f # Nobody /\ Head(cbox).from = f => ~Asks(cbox', f)
      /\ \A f, m : AskedBy(cbox, f, m) /\ Head(cbox).from = f => Head(cbox).m = m
      /\ \A f : Asks(cbox', f) => Asks(cbox, f)
      /\ \A f, m : AskedBy(cbox, f, m) => AskedBy(cbox', f, m)
  BY <1>1, AsksTail
<1> QED BY <1>1, <1>2, <1>3, <1>4, <1>5

LEMMA ReplayAnswerInv ==
  ASSUME RemoteInv, NEW q \in Queries, NEW ack \in BOOLEAN, NEW out \in BOOLEAN,
         ReplayAnswer(q, ack, out)
  PROVE  RemoteInv'
<1> PICK k : k = child[q].key
  OBVIOUS
<1> DEFINE e == MsgDeleteData(Scanned, k)
<1>1. /\ ClientServes(ack, out) /\ Head(cbox).from = q /\ CallbackReturns(q, ack)
      /\ calling' = [calling EXCEPT ![q] = FALSE]
      /\ dbox' = IF ack THEN Append(dbox, e) ELSE dbox
      /\ UNCHANGED <<mbox, pc, cur, isConnected, retryFlag, isDatabaseOpen, count, old,
                     arrived, refused, dropped, unarchived, crashes>>
  BY DEF ReplayAnswer
<1>2. /\ cbox' \in Seq(Sends) /\ OneEach(cbox')
      /\ published \subseteq published' /\ published' \subseteq Keys
      /\ (ack => Head(cbox).m \in published')
      /\ faults' \in 0 .. MaxFaults
      /\ \A f : Asks(cbox', f) => Asks(cbox, f)
      /\ \A f, m : AskedBy(cbox, f, m) => AskedBy(cbox', f, m)
  BY <1>1, ServesFacts
<1>3. ~Asks(cbox', q)
  BY <1>1, ServesFacts, QueriesAssumption
<1>4. Head(cbox).m = k
  <2>1. AskedBy(cbox, q, k)
    BY DEF RemoteInv, Asked
  <2> QED BY <1>1, <2>1, ServesFacts
<1>5. Safe \subseteq Safe' /\ (ack => k \in Safe')
  BY <1>1, <1>2, <1>4 DEF CallbackReturns, Safe
<1>6. /\ dbox' \in Seq(DbMessages) /\ Requests'
      /\ \A p \in Queries : NoNewQuery(p)
      /\ \A x : InDbox(x) => InDbox(x)'
  <2>1. CASE ~ack
    BY <1>1, <1>5, <2>1, NoRequest
  <2>2. CASE ack
    <3>1. k \in Keys
      BY <1>2, <1>4, <2>2
    <3>2. e \in DbMessages /\ e.op = "MsgDeleteData" /\ e.coll = Scanned /\ e.key = k
      BY <3>1, DbMessage, RequestFacts, ScannedAssumption
    <3> HIDE DEF e
    <3> QED BY <1>1, <1>5, <2>2, <3>2, RequestAdded
  <2> QED BY <2>1, <2>2
<1> QED BY <1>1, <1>2, <1>3, <1>6, ReturnsInv DEF RemoteInv, RemoteTypeOK

\* the answers that no callback waits for
LEMMA OtherAnswerInv ==
  ASSUME RemoteInv, NEW ack \in BOOLEAN, NEW out \in BOOLEAN,
         DirectAnswer(ack, out) \/ LateAnswer(ack, out)
  PROVE  RemoteInv'
<1> PICK u : u = cur
  OBVIOUS
<1>1. /\ ClientServes(ack, out)
      /\ UNCHANGED <<streamVars, mbox, isConnected, retryFlag, isDatabaseOpen, count, calling, old,
                     arrived, dropped, unarchived, crashes>>
      /\ \/ UNCHANGED <<pc, cur, refused>>
         \/ /\ Head(cbox).from = Direct /\ pc' = "idle" /\ cur' = Nobody
            /\ refused' = IF out THEN refused ELSE refused \cup {u}
  BY DEF DirectAnswer, LateAnswer
<1>2. /\ cbox' \in Seq(Sends) /\ OneEach(cbox')
      /\ published \subseteq published' /\ published' \subseteq Keys
      /\ (out => Head(cbox).m \in published') /\ Asks(cbox, Head(cbox).from)
      /\ faults' \in 0 .. MaxFaults
      /\ \A f : Asks(cbox', f) => Asks(cbox, f)
      /\ \A f, m : AskedBy(cbox, f, m) => AskedBy(cbox', f, m)
  BY <1>1, ServesFacts
<1>3. Head(cbox).from = Direct =>
        /\ pc = "sending" /\ u \in Messages /\ Head(cbox).m = u /\ ~Asks(cbox', Direct)
  <2>1. AskedBy(cbox, Direct, u) /\ Direct # Nobody
    BY RemoteAssumption DEF RemoteInv, Asked
  <2>2. Head(cbox).from = Direct => pc = "sending"
    BY <1>2 DEF RemoteInv, Asked
  <2>3. pc = "sending" => u \in Messages
    BY DEF RemoteInv, RemoteTypeOK, Working
  <2> QED BY <1>1, <2>1, <2>2, <2>3, ServesFacts
<1>4. StreamInv'
  BY <1>1, SameStream DEF RemoteInv
<1>5. RemoteTypeOK'
  <2>1. refused' \subseteq Messages /\ pc' \in {"idle", "sending", "saving"} /\ cur' \in Messages \cup {Nobody}
    BY <1>1, <1>3 DEF RemoteInv, RemoteTypeOK
  <2> QED BY <1>1, <1>2, <1>4, <2>1 DEF RemoteInv, RemoteTypeOK, StreamInv, Sends
<1>6. Requests'
  BY <1>1, <1>2, SameRequests DEF RemoteInv, Safe, streamVars
<1>7. Working'
  BY <1>1 DEF RemoteInv, Working, InDbox, streamVars
<1>8. Asked'
  <2>1. \A q \in Queries : /\ Asks(cbox', q) => calling'[q]
                           /\ AskedBy(cbox', q, child'[q].key)
                           /\ calling'[q] => child'[q].st = "busy"
    BY <1>1, <1>2 DEF RemoteInv, Asked, streamVars
  <2>2. (Asks(cbox', Direct) => pc' = "sending") /\ AskedBy(cbox', Direct, cur')
    <3>1. CASE UNCHANGED <<pc, cur>>
      BY <1>2, <3>1 DEF RemoteInv, Asked
    <3>2. CASE Head(cbox).from = Direct
      BY <1>3, <3>2 DEF AskedBy, Asks
    <3> QED BY <1>1, <3>1, <3>2
  <2> QED BY <1>2, <2>1, <2>2 DEF Asked
<1>9. AllKnown'
  <2>1. Stored' = Stored /\ (\A x : InMbox(x) => InMbox(x)') /\ (\A x : InDbox(x) => InDbox(x)')
    BY <1>1 DEF Stored, InMbox, InDbox, streamVars
  <2>2. \A x : Settled(x) => Settled(x)'
    BY <1>1, <1>2, <2>1 DEF Settled
  <2>3. u \in Messages => u = cur' \/ Settled(u)'
    BY <1>1, <1>2, <1>3 DEF Settled
  <2>4. Mine' = Mine
    BY <1>1 DEF Mine
  <2> QED BY <2>1, <2>2, <2>3, <2>4, StillKnown DEF RemoteInv
<1> QED BY <1>4, <1>5, <1>6, <1>7, <1>8, <1>9 DEF RemoteInv


-----------------------------------------------------------------------------
(* The query machinery, a restart, and the start.                          *)

LEMMA BesideInv ==
  ASSUME RemoteInv, StreamInv', store' = store,
         \A q \in Queries : child[q].st = "busy" => child'[q] = child[q],
         \/ dbox' = dbox
         \/ \E e \in DbMessages : e.op = "MsgQueryData" /\ dbox' = Append(dbox, e)
         \/ dbox # <<>> /\ Head(dbox).op = "MsgQueryData" /\ dbox' = Tail(dbox),
         UNCHANGED <<mbox, pc, cur, isConnected, retryFlag, isDatabaseOpen, count, calling, cbox,
                     old, arrived, published, refused, dropped, unarchived, crashes>>,
         faults' \in 0 .. MaxFaults
  PROVE  RemoteInv'
<1>1. dbox \in Seq(DbMessages) /\ Safe' = Safe /\ Ordered(dbox, Safe) /\ OnlyMessages(dbox)
  BY DEF RemoteInv, StreamInv, StreamTypeOK, Safe, Requests
<1>2. Requests' /\ \A x : InDbox(x) => InDbox(x)'
  <2>1. CASE dbox' = dbox
    BY <1>1, <2>1 DEF Requests, InDbox
  <2>2. ASSUME NEW e \in DbMessages, e.op = "MsgQueryData", dbox' = Append(dbox, e)
        PROVE  Requests' /\ \A x : InDbox(x) => InDbox(x)'
    <3>1. Ordered(dbox', Safe) /\ OnlyMessages(dbox')
      BY <1>1, <2>2, OrderedAppend, OnlyMessagesFacts
    <3>2. \A x : InDbox(x) => InDbox(x)'
      BY <1>1, <2>2, ContainsFacts DEF InDbox
    <3> QED BY <1>1, <3>1, <3>2 DEF Requests
  <2>3. CASE dbox # <<>> /\ Head(dbox).op = "MsgQueryData" /\ dbox' = Tail(dbox)
    <3>1. \A c, k : Head(dbox) # MsgUpdateData(c, k)
      BY <2>3, RequestFacts
    <3>2. Ordered(dbox', Safe)
      BY <1>1, <2>3, <3>1, OrderedTail
    <3>3. OnlyMessages(dbox')
      BY <1>1, <2>3, TailFacts DEF OnlyMessages
    <3>4. ASSUME NEW x, InDbox(x) PROVE InDbox(x)'
      <4>1. PICK i \in DOMAIN dbox : dbox[i] = MsgUpdateData(Scanned, x)
        BY <3>4 DEF InDbox, Contains
      <4>2. i # 1
        BY <1>1, <2>3, <3>1, <4>1, TailFacts
      <4> QED BY <1>1, <2>3, <4>1, <4>2, TailFacts DEF InDbox, Contains
    <3> QED BY <1>1, <3>2, <3>3, <3>4 DEF Requests
  <2> QED BY <2>1, <2>2, <2>3
<1>3. RemoteTypeOK'
  BY DEF RemoteInv, RemoteTypeOK, StreamInv
<1>4. Working'
  BY <1>2 DEF RemoteInv, Working
<1>5. Asked'
  <2>1. ASSUME NEW q \in Queries
        PROVE  /\ Asks(cbox', q) => calling'[q]
               /\ AskedBy(cbox', q, child'[q].key)
               /\ calling'[q] => child'[q].st = "busy"
    <3>1. CASE calling[q]
      BY <3>1 DEF RemoteInv, Asked
    <3>2. CASE ~calling[q]
      <4>1. ~Asks(cbox, q)
        BY <3>2 DEF RemoteInv, Asked
      <4>2. \A x : AskedBy(cbox, q, x)
        BY <4>1 DEF AskedBy, Asks
      <4> QED BY <3>2, <4>1, <4>2
    <3> QED BY <3>1, <3>2
  <2> QED BY <2>1 DEF RemoteInv, Asked
<1>6. AllKnown'
  <2>1. /\ \A x : Settled(x) => Settled(x)'
        /\ \A x : InMbox(x) => InMbox(x)'
    BY DEF Settled, Stored, InMbox
  <2>2. Mine' = Mine
    BY DEF Mine
  <2> QED BY <1>2, <2>1, <2>2, StillKnown DEF RemoteInv
<1> QED BY <1>2, <1>3, <1>4, <1>5, <1>6 DEF RemoteInv

LEMMA MachineryInv == ASSUME RemoteInv, Machinery PROVE RemoteInv'
<1>1. StreamInv'
  <2>1. CASE DbServes
    BY <2>1, DbTakesInv DEF RemoteInv
  <2>2. CASE ScanStart \/ ScanHandOff \/ ScanEnd
    BY <2>2, ScanStartInv, ScanHandOffInv, ScanEndInv DEF RemoteInv
  <2> QED BY <2>1, <2>2, OwnStepInv DEF Machinery, RemoteInv
<1>2. /\ store' = store /\ UNCHANGED remoteVars
      /\ \A q \in Queries : child[q].st = "busy" => child'[q] = child[q]
      /\ \/ dbox' = dbox
         \/ \E e \in DbMessages : e.op = "MsgQueryData" /\ dbox' = Append(dbox, e)
         \/ dbox # <<>> /\ Head(dbox).op = "MsgQueryData" /\ dbox' = Tail(dbox)
  <2> USE DEF RemoteInv, StreamInv, StreamTypeOK
  <2>0. UNCHANGED remoteVars
    BY DEF Machinery
  <2>1. CASE DbServes \/ ScanStart \/ ScanHandOff \/ ScanEnd
    BY <2>0, <2>1 DEF DbServes, ScanStart, ScanHandOff, ScanEnd, DbReady
  <2>2. ASSUME NEW p \in Queries,
               SendPoison(p) \/ ForwarderSend(p) \/ ForwarderTimeout(p) \/ ForwarderDone(p)
        PROVE  UNCHANGED <<store, child, dbox>>
    BY <2>2 DEF SendPoison, ForwarderSend, ForwarderTimeout, ForwarderDone
  <2>3. ASSUME NEW p \in Queries, ChildStart(p)
        PROVE  /\ UNCHANGED <<store, child>>
               /\ \E e \in DbMessages : e.op = "MsgQueryData" /\ dbox' = Append(dbox, e)
    BY <2>3, DbMessage, RequestFacts DEF ChildStart
  <2>4. ASSUME NEW p \in Queries, ChildItem(p) \/ ChildAck(p) \/ ChildPoison(p)
        PROVE  /\ UNCHANGED <<store, dbox>> /\ child[p].st # "busy"
               /\ \A q \in Queries : q # p => child'[q] = child[q]
    BY <2>4 DEF ChildItem, ChildAck, ChildPoison, ChildTakes
  <2> QED BY <2>0, <2>1, <2>2, <2>3, <2>4 DEF Machinery, QueryProcesses
<1> QED BY <1>1, <1>2, BesideInv DEF remoteVars, RemoteInv, RemoteTypeOK

(* A scan that fails, and an entry that is left after 10 s.                 *)
LEMMA RemoteScanFailsInv == ASSUME RemoteInv, RemoteScanFails PROVE RemoteInv'
<1>1. /\ ScanFails /\ faults' \in 0 .. MaxFaults
      /\ dbox # <<>> /\ Head(dbox).op = "MsgQueryData" /\ dbox' = Tail(dbox)
      /\ UNCHANGED <<store, child>>
  BY RemoteAssumption DEF RemoteScanFails, ScanFails, DbReady, Fault, RemoteInv, RemoteTypeOK
<1>2. StreamInv'
  BY <1>1, ScanFailsInv DEF RemoteInv
<1> QED BY <1>1, <1>2, BesideInv DEF RemoteScanFails

LEMMA RemoteScanSkipInv == ASSUME RemoteInv, RemoteScanSkip PROVE RemoteInv'
<1>1. ScanSkip /\ UNCHANGED <<store, child, dbox>>
  BY DEF RemoteScanSkip, ScanSkip
<1>2. faults' \in 0 .. MaxFaults
  <2>1. faults' = faults \/ (faults < MaxFaults /\ faults' = faults + 1)
    BY DEF RemoteScanSkip, Fault
  <2> QED BY <2>1, RemoteAssumption DEF RemoteInv, RemoteTypeOK
<1>3. StreamInv'
  BY <1>1, ScanSkipInv DEF RemoteInv
<1> QED BY <1>1, <1>2, <1>3, BesideInv DEF RemoteScanSkip

LEMMA RemoteQueryTimeoutInv ==
  ASSUME RemoteInv, NEW q \in Queries, RemoteQueryTimeout(q) PROVE RemoteInv'
<1>1. QueryTimeout(q) /\ faults' \in 0 .. MaxFaults
  BY RemoteAssumption DEF RemoteQueryTimeout, Fault, RemoteInv, RemoteTypeOK
<1>2. StreamInv'
  BY <1>1, QueryTimeoutInv DEF RemoteInv
<1> QED BY <1>1, <1>2, BesideInv DEF RemoteQueryTimeout, QueryTimeout

LEMMA CrashInv == ASSUME RemoteInv, Crash PROVE RemoteInv'
<1>1. StreamInv'
  <2>1. Quiet' => StreamInv'
    BY QuietInv, PTL
  <2>2. StreamTypeOK'
    BY ArgumentAssumption DEF Crash, RemoteInv, StreamInv, StreamTypeOK, NoScan
  <2> QED BY <2>1, <2>2 DEF Quiet, Crash
<1>2. RemoteTypeOK'
  <2>1. crashes' \in 0 .. MaxCrashes
    BY RemoteAssumption DEF Crash, RemoteInv, RemoteTypeOK
  <2>2. dropped' \subseteq Messages
    BY DEF Crash, RemoteInv, RemoteTypeOK, InMemory
  <2>3. count' \in [Queries -> 0 .. Limit + 1] /\ calling' \in [Queries -> BOOLEAN]
    BY RemoteAssumption DEF Crash
  <2>4. isConnected' \in BOOLEAN /\ retryFlag' \in BOOLEAN /\ isDatabaseOpen' \in BOOLEAN
    BY DEF Crash
  <2>5. /\ mbox' = <<>> /\ cbox' = <<>>
        /\ pc' \in {"idle", "sending", "saving"} /\ cur' \in Messages \cup {Nobody}
    BY DEF Crash
  <2>6. /\ UNCHANGED <<old, published, unarchived, arrived, refused, faults>>
    BY DEF Crash
  <2>7. StreamTypeOK'
    BY <1>1 DEF StreamInv
  <2> QED BY <2>1, <2>2, <2>3, <2>4, <2>5, <2>6, <2>7 DEF RemoteInv, RemoteTypeOK, Messages
<1>3. Requests'
  BY DEF Crash, Requests, Ordered, OnlyMessages
<1>4. Working' /\ Asked'
  BY DEF Crash, Working, Asked, OneEach, Asks, AskedBy
<1>5. AllKnown'
  <2>1. UNCHANGED <<store, arrived, published, refused, unarchived>> /\ dropped \subseteq dropped'
    BY DEF Crash
  <2>2. \A x : Settled(x) => Settled(x)'
    BY <2>1 DEF Settled, Stored
  <2>3. ASSUME NEW m \in Messages, m = cur \/ InMbox(m) \/ InDbox(m) PROVE Settled(m)'
    <3>1. m \in InMemory
      BY <2>3 DEF InMemory, InMbox, InDbox, Holds, Contains
    <3>2. m \in Stored \cup published \cup dropped'
      BY <3>1 DEF Crash
    <3> QED BY <2>1, <3>2 DEF Settled, Stored
  <2>4. Mine' = Mine
    BY <2>1 DEF Mine
  <2> QED BY <2>2, <2>3, <2>4, StillKnown DEF RemoteInv
<1> QED BY <1>1, <1>2, <1>3, <1>4, <1>5 DEF RemoteInv

LEMMA RemoteInit == Init => RemoteInv
<1> SUFFICES ASSUME Init PROVE RemoteInv
  OBVIOUS
<1>1. Legacy \subseteq Keys /\ BadIds \subseteq Legacy /\ Scanned \in Collections
  BY RemoteAssumption, ScannedAssumption
<1>2. store \in [Collections -> SUBSET Keys] /\ store[Scanned] = Legacy
  BY <1>1 DEF Init
<1>3. StreamInv
  BY <1>2, FreshInv DEF Init
<1>4. RemoteTypeOK
  <2>1. count \in [Queries -> 0 .. Limit + 1] /\ calling \in [Queries -> BOOLEAN]
    BY RemoteAssumption DEF Init, Fresh
  <2>2. isConnected \in BOOLEAN /\ retryFlag \in BOOLEAN /\ isDatabaseOpen \in BOOLEAN
    BY DEF Init, Fresh
  <2>3. /\ mbox = <<>> /\ cbox = <<>>
        /\ pc \in {"idle", "sending", "saving"} /\ cur \in Messages \cup {Nobody}
    BY DEF Init, Fresh
  <2>4. /\ old = {} /\ published = {} /\ unarchived = {} /\ arrived = {} /\ refused = {}
        /\ dropped = {} /\ faults \in 0 .. MaxFaults /\ crashes \in 0 .. MaxCrashes
    BY RemoteAssumption DEF Init
  <2>5. StreamTypeOK
    BY <1>3 DEF StreamInv
  <2> QED BY <2>1, <2>2, <2>3, <2>4, <2>5 DEF RemoteTypeOK, Messages
<1>5. Requests /\ Working /\ Asked
  BY DEF Init, Fresh, StreamFresh, Requests, Ordered, OnlyMessages, Working, Asked, OneEach, Asks,
         AskedBy
<1>6. AllKnown
  BY <1>1, <1>2 DEF Init, AllKnown, Mine, Known, Settled, Stored
<1> QED BY <1>3, <1>4, <1>5, <1>6 DEF RemoteInv

LEMMA RemoteInduction == ASSUME RemoteInv, [Next]_vars PROVE RemoteInv'
<1>1. CASE UNCHANGED vars
  <2>1. StreamInv'
    BY <1>1, SameStream DEF RemoteInv, vars
  <2> QED BY <1>1, <2>1, BesideInv DEF vars, streamVars, remoteVars, RemoteInv, RemoteTypeOK
<1>2. CASE Arrive \/ TickReplay \/ TickRetry \/ Reconnect \/ \E k \in Keys : Age(k)
  BY <1>2, ArriveInv, NotifyInv, AgeInv DEF TickReplay, TickRetry, Reconnect
<1>3. CASE VerifyRetry \/ OnMsgReconnect \/ VerifyReplay \/ OnRemoteMSG2 \/ DirectTimeout \/ SaveTimeout
  BY <1>3, NoteTakenInv, VerifyReplayInv, OnRemoteMSG2Inv, DirectTimeoutInv, SaveTimeoutInv
<1>4. CASE \/ \E ok \in BOOLEAN : RemoteDbUpdate(ok) \/ RemoteDbDelete(ok)
           \/ RemoteDbDrops \/ RemoteScanFails \/ RemoteScanSkip
  BY <1>4, RemoteDbUpdateInv, RemoteDbDeleteInv, RemoteDbDropsInv, RemoteScanFailsInv,
     RemoteScanSkipInv
<1>5. CASE \E q \in Queries : Callback(q) \/ ReplayTimeout(q) \/ RemoteQueryTimeout(q)
  BY <1>5, CallbackInv, CallbackSendInv, ReplayTimeoutInv, RemoteQueryTimeoutInv DEF Callback
<1>6. CASE \E ack, out \in BOOLEAN : Answer(ack, out)
  BY <1>6, ReplayAnswerInv, OtherAnswerInv DEF Answer
<1>7. CASE Machinery \/ Crash
  BY <1>7, MachineryInv, CrashInv
<1> QED BY <1>1, <1>2, <1>3, <1>4, <1>5, <1>6, <1>7 DEF Next

LEMMA RemoteInductive == Spec => []RemoteInv
BY RemoteInit, RemoteInduction, PTL DEF Spec

-----------------------------------------------------------------------------
(* What RemoteInv says of the messages.                                    *)

LEMMA KnownAccounted == RemoteInv => Accounted
BY DEF RemoteInv, AllKnown, Mine, Known, Settled, Accounted, InMemory, InMbox, InDbox, Holds, Contains

LEMMA RemovesSafe ==
  ASSUME RemoteInv, RemoteInv', [Next]_vars, NEW k \in store[Scanned] \ store'[Scanned]
  PROVE  k \in published \cup store[Dated] \cup BadIds \cup unarchived
<1>1. /\ dbox \in Seq(DbMessages) /\ store \in [Collections -> SUBSET Keys] /\ Ordered(dbox, Safe)
      /\ Scanned \in Collections
  BY ScannedAssumption DEF RemoteInv, StreamInv, StreamTypeOK, Requests
<1>2. \E ok \in BOOLEAN : RemoteDbDelete(ok)
  <2>1. store' # store
    OBVIOUS
  <2>2. CASE \E ok \in BOOLEAN : RemoteDbUpdate(ok)
    <3>1. dbox # <<>> /\ Head(dbox).op = "MsgUpdateData" /\
          store' \in {store, [store EXCEPT ![Head(dbox).coll] = @ \cup {Head(dbox).key}]}
      BY <2>2 DEF RemoteDbUpdate, DbUpdate, DbReady
    <3> QED BY <1>1, <3>1
  <2> QED
    BY <2>1, <2>2 DEF Next, vars, streamVars, Arrive, TickReplay, TickRetry, Reconnect, Notify, Age,
       VerifyRetry, OnMsgReconnect, VerifyReplay, QueryCall, OnRemoteMSG2, DirectTimeout, SaveTimeout,
       RemoteDbDrops, DbDrops, RemoteScanFails, ScanFails, RemoteScanSkip, ScanSkip, Callback, CallbackLimit, CallbackBadId, CallbackExpired,
       CallbackOffline, CallbackSend, CallbackReturns, ReplayTimeout, RemoteQueryTimeout, QueryTimeout,
       Answer, DirectAnswer, ReplayAnswer, LateAnswer, Machinery, QueryProcesses, DbServes, ScanStart,
       ScanHandOff, ScanEnd, SendPoison, ChildStart, ChildItem, ChildAck, ChildPoison, ForwarderSend,
       ForwarderTimeout, ForwarderDone, Crash
<1>3. /\ dbox # <<>> /\ Head(dbox).op = "MsgDeleteData"
      /\ store' \in {store, [store EXCEPT ![Head(dbox).coll] = @ \ {Head(dbox).key}]}
  BY <1>2 DEF RemoteDbDelete, DbDelete, DbReady
<1>4. k = Head(dbox).key
  BY <1>1, <1>3
<1> QED BY <1>1, <1>3, <1>4, OrderedHead DEF Safe

(* RemoteActor, the client and the query machinery only ever exchange what  *)
(* they should, and the count of a replay stays within its limit.           *)
THEOREM RemoteTypeCorrect == Spec => []RemoteTypeOK
BY RemoteInductive, PTL DEF RemoteInv

(* No message is lost but for a reason that the code spells out, whatever   *)
(* timers, refusals, failed transactions and restarts come together.        *)
THEOREM NothingLost == Spec => []Accounted
BY RemoteInductive, KnownAccounted, PTL

(* An entry is deleted only once it was published, archived, given up as    *)
(* unreadable, or the write of its copy failed.                             *)
THEOREM OnlySafeRemoved == Spec => RemovedOnlyWhenSafe
<1>1. ASSUME RemoteInv, RemoteInv', [Next]_vars
      PROVE  [\A k \in store[Scanned] \ store'[Scanned] :
                k \in published \cup store[Dated] \cup BadIds \cup unarchived]_vars
  BY <1>1, RemovesSafe
<1> QED BY <1>1, RemoteInductive, PTL DEF Spec, RemovedOnlyWhenSafe

(* The callback of a replay has the entries in the order they were stored   *)
(* and none twice, also when replays overlap, and passes over none but those*)
(* the cursor left after 10 s and, at the end, one that is overtaken.       *)
THEOREM ReplayInOrder == Spec => [](DeliveredInOrder /\ AtMostOneOvertaken)
BY RemoteInductive, InOrder, OvertakesOne, PTL DEF RemoteInv
=============================================================================
