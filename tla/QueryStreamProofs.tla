------------------------- MODULE QueryStreamProofs -------------------------
(***************************************************************************)
(* Proofs about QueryStream, for any keys, queries, collections, prefixes  *)
(* and number of requests.  StreamInv says, for each query, where the      *)
(* entries of its scan are that the callback has not had: in the scan, with*)
(* the forwarder or in the child's mailbox.                                *)
(***************************************************************************)
EXTENDS QueryStream, FiniteSetTheorems, TLAPS

\* a message of this type waits in s; at most one does
Has(s, t)    == \E i \in DOMAIN s : s[i].t = t
Single(s, t) == \A i, j \in DOMAIN s : s[i].t = t /\ s[j].t = t => i = j

\* every message of s is one of r
Within(s, r) == \A i \in DOMAIN s : \E j \in DOMAIN r : s[i] = r[j]

\* the db actor has yet to take the query
Queued(q)     == \E i \in DOMAIN dbox : dbox[i] = MsgQueryData(q)
QueuedOnce(q) == \A i, j \in DOMAIN dbox :
                   dbox[i] = MsgQueryData(q) /\ dbox[j] = MsgQueryData(q) => i = j

\* what the scan has yet to hand over for q
Rest(q) == IF scan.q = q THEN scan.rest ELSE {}

\* a child that stopped has no mailbox, and stops only after its caller returned;
\* its callback runs on an entry
ChildAlive(q) ==
  /\ child[q].st = "busy" => child[q].key \in Keys
  /\ child[q].st = "stopped" => kbox[q] = <<>>
  /\ caller[q] \in {"waiting", "returned"} =>
       child[q].st # "stopped" /\ ~Has(kbox[q], "PoisonPill")

\* start, MsgQueryData, the scan and MsgAckGetData follow one another, once each
OneAfterAnother(q) ==
  /\ Single(kbox[q], "start")
  /\ QueuedOnce(q)
  /\ Has(kbox[q], "start") =>
       fwd[q].st = "off" /\ scan.q # q /\ ~Queued(q) /\ ~Has(kbox[q], "MsgAckGetData")
  /\ Queued(q) => fwd[q].st = "off" /\ scan.q # q /\ ~Has(kbox[q], "MsgAckGetData")
  /\ Has(kbox[q], "MsgAckGetData") => scan.q # q
  /\ fwd[q].st \in {"off", "stuck"} => scan.q # q

\* an entry is with the forwarder or in the mailbox, and it is the next one
Entries(q) ==
  /\ Single(kbox[q], "MsgQueryResponse")
  /\ fwd[q].st \in {"off", "range", "got", "stuck"} => ~Has(kbox[q], "MsgQueryResponse")
  /\ \A i \in DOMAIN kbox[q] : kbox[q][i].t = "MsgQueryResponse" =>
       IsFirst(q, kbox[q][i].key, left[q]) /\ kbox[q][i].key \notin Rest(q)

Unread(q) ==
  child[q].st # "stopped" =>
    /\ fwd[q].st \in {"off", "stuck"} => left[q] = {}
    /\ fwd[q].st = "range" => left[q] = Rest(q)
    /\ fwd[q].st = "got" =>
         /\ left[q] = Rest(q) \cup {fwd[q].key} /\ fwd[q].key \notin Rest(q)
         /\ IsFirst(q, fwd[q].key, left[q]) /\ fwd[q].key \in Keys
    /\ fwd[q].st = "await" =>
         /\ Has(kbox[q], "MsgQueryResponse")
         /\ \A i \in DOMAIN kbox[q] : kbox[q][i].t = "MsgQueryResponse" =>
              left[q] = Rest(q) \cup {kbox[q][i].key} /\ kbox[q][i].key \notin Rest(q)

QueryInv(q) == ChildAlive(q) /\ OneAfterAnother(q) /\ Entries(q) /\ Unread(q)

StreamInv == StreamTypeOK /\ \A q \in Queries : QueryInv(q)

-----------------------------------------------------------------------------
(* Mailboxes.                                                              *)

(* A set any two elements of which are equal has at most one.               *)
LEMMA AtMostOne ==
  ASSUME NEW S, \A c, d \in S : c = d
  PROVE  Cardinality(S) <= 1
<1>1. CASE S = {}
  BY <1>1, FS_EmptySet
<1>2. CASE S # {}
  <2>1. PICK c \in S : TRUE
    BY <1>2
  <2>2. S = {c}
    BY <2>1
  <2>3. Cardinality(S) = 1
    BY <2>2, FS_Singleton
  <2> QED BY <2>3
<1> QED BY <1>1, <1>2

(* The mailbox after its first message was taken.                           *)
LEMMA TailFacts ==
  ASSUME NEW T, NEW s \in Seq(T), s # <<>>
  PROVE  /\ Tail(s) \in Seq(T) /\ Head(s) = s[1] /\ s[1] \in T /\ 1 \in DOMAIN s
         /\ \A i \in DOMAIN s : i \in Nat /\ (i # 1 => i - 1 \in DOMAIN Tail(s)
                                                  /\ Tail(s)[i - 1] = s[i])
         /\ \A i \in DOMAIN Tail(s) : /\ i \in Nat /\ i + 1 \in DOMAIN s /\ i + 1 # 1
                                     /\ Tail(s)[i] = s[i + 1]
OBVIOUS

(* The mailbox after a message was sent to it.                              *)
LEMMA AppendFacts ==
  ASSUME NEW T, NEW s \in Seq(T), NEW e \in T
  PROVE  /\ Append(s, e) \in Seq(T)
         /\ Len(s) + 1 \notin DOMAIN s
         /\ Len(s) + 1 \in DOMAIN Append(s, e) /\ Append(s, e)[Len(s) + 1] = e
         /\ \A i \in DOMAIN s : i \in DOMAIN Append(s, e) /\ Append(s, e)[i] = s[i]
         /\ \A i \in DOMAIN Append(s, e) : i \in DOMAIN s \/ i = Len(s) + 1
OBVIOUS

(* What taking the first message does to the messages of a type.            *)
LEMMA HasTail ==
  ASSUME NEW T, NEW s \in Seq(T), s # <<>>, NEW t
  PROVE  /\ Has(Tail(s), t) => Has(s, t)
         /\ Single(s, t) => Single(Tail(s), t)
         /\ Single(s, t) /\ Head(s).t = t => ~Has(Tail(s), t)
         /\ Has(s, t) /\ Head(s).t # t => Has(Tail(s), t)
         /\ Head(s).t = t => Has(s, t)
<1>1. Has(Tail(s), t) => Has(s, t)
  BY TailFacts DEF Has
<1>2. Single(s, t) => Single(Tail(s), t)
  <2> SUFFICES ASSUME Single(s, t), NEW i \in DOMAIN Tail(s), NEW j \in DOMAIN Tail(s),
                      Tail(s)[i].t = t, Tail(s)[j].t = t
               PROVE  i = j
    BY DEF Single
  <2>1. i + 1 = j + 1
    BY TailFacts DEF Single
  <2> QED BY <2>1, TailFacts
<1>3. Single(s, t) /\ Head(s).t = t => ~Has(Tail(s), t)
  BY TailFacts DEF Has, Single
<1>4. ASSUME Has(s, t), Head(s).t # t PROVE Has(Tail(s), t)
  <2>1. PICK i \in DOMAIN s : s[i].t = t
    BY <1>4 DEF Has
  <2>2. i # 1
    BY <1>4, <2>1, TailFacts
  <2> QED BY <2>1, <2>2, TailFacts DEF Has
<1>5. Head(s).t = t => Has(s, t)
  BY TailFacts DEF Has
<1> QED BY <1>1, <1>2, <1>3, <1>4, <1>5

(* What sending a message does to the messages of a type.                   *)
LEMMA HasAppend ==
  ASSUME NEW T, NEW s \in Seq(T), NEW e \in T, NEW t
  PROVE  /\ Has(Append(s, e), t) <=> Has(s, t) \/ e.t = t
         /\ Single(s, t) /\ (e.t = t => ~Has(s, t)) => Single(Append(s, e), t)
<1>1. Has(Append(s, e), t) <=> Has(s, t) \/ e.t = t
  BY AppendFacts DEF Has
<1>2. ASSUME Single(s, t), e.t = t => ~Has(s, t) PROVE Single(Append(s, e), t)
  BY <1>2, AppendFacts DEF Has, Single
<1> QED BY <1>1, <1>2

LEMMA ChildMessage ==
  /\ \A t \in {"start", "MsgAckGetData", "MsgNoAckGetData", "PoisonPill"} :
       ToChild(t) \in ChildMessages /\ ToChild(t).t = t
  /\ \A k \in Keys : /\ MsgQueryResponse(k) \in ChildMessages
                      /\ MsgQueryResponse(k).t = "MsgQueryResponse"
                      /\ MsgQueryResponse(k).key = k
BY DEF ToChild, MsgQueryResponse, ChildMessages

LEMMA DbMessage ==
  /\ \A q \in Queries : MsgQueryData(q) \in DbMessages
  /\ \A c \in Collections, k \in Keys :
       /\ MsgUpdateData(c, k) \in DbMessages /\ MsgDeleteData(c, k) \in DbMessages
       /\ \A q : MsgUpdateData(c, k) # MsgQueryData(q) /\ MsgDeleteData(c, k) # MsgQueryData(q)
  /\ \A p, q : MsgQueryData(p) = MsgQueryData(q) => p = q
<1>1. \A q : MsgQueryData(q).op = "MsgQueryData" /\ MsgQueryData(q).q = q
  BY DEF MsgQueryData
<1>2. \A c, k : MsgUpdateData(c, k).op = "MsgUpdateData" /\ MsgDeleteData(c, k).op = "MsgDeleteData"
  BY DEF MsgUpdateData, MsgDeleteData
<1>3. /\ \A q \in Queries : MsgQueryData(q) \in DbMessages
      /\ \A c \in Collections, k \in Keys :
            MsgUpdateData(c, k) \in DbMessages /\ MsgDeleteData(c, k) \in DbMessages
  BY DEF MsgQueryData, MsgUpdateData, MsgDeleteData, DbMessages
<1>4. /\ \A c, k, q : MsgUpdateData(c, k) # MsgQueryData(q) /\ MsgDeleteData(c, k) # MsgQueryData(q)
      /\ \A p, q : MsgQueryData(p) = MsgQueryData(q) => p = q
  BY <1>1, <1>2
<1> QED BY <1>3, <1>4

\* what a step leaves of the mailbox of the db actor, as far as q is concerned
NoNewQuery(q) == (Queued(q)' => Queued(q)) /\ (QueuedOnce(q) => QueuedOnce(q)')

(* Writes and deletes that are sent to the db actor, and whatever it takes, *)
(* are no new query; a query that is taken is gone.                         *)
LEMMA DboxChanges ==
  ASSUME dbox \in Seq(DbMessages), NEW q \in Queries
  PROVE  /\ dbox' = dbox => NoNewQuery(q)
         /\ \A e \in DbMessages : dbox' = Append(dbox, e) /\ e # MsgQueryData(q) => NoNewQuery(q)
         /\ dbox # <<>> /\ dbox' = Tail(dbox) => NoNewQuery(q)
         /\ dbox # <<>> /\ dbox' = Tail(dbox) /\ Head(dbox) = MsgQueryData(q) /\ QueuedOnce(q)
              => ~Queued(q)'
         /\ dbox # <<>> /\ Head(dbox) = MsgQueryData(q) => Queued(q)
<1>1. dbox' = dbox => NoNewQuery(q)
  BY DEF NoNewQuery, Queued, QueuedOnce
<1>2. ASSUME NEW e \in DbMessages, dbox' = Append(dbox, e), e # MsgQueryData(q)
      PROVE  NoNewQuery(q)
  BY <1>2, AppendFacts DEF NoNewQuery, Queued, QueuedOnce
<1>3. ASSUME dbox # <<>>, dbox' = Tail(dbox) PROVE NoNewQuery(q)
  <2>1. Queued(q)' => Queued(q)
    BY <1>3, TailFacts DEF Queued
  <2>2. ASSUME QueuedOnce(q), NEW i \in DOMAIN Tail(dbox), NEW j \in DOMAIN Tail(dbox),
               Tail(dbox)[i] = MsgQueryData(q), Tail(dbox)[j] = MsgQueryData(q)
        PROVE  i = j
    <3>1. i + 1 = j + 1
      BY <1>3, <2>2, TailFacts DEF QueuedOnce
    <3> QED BY <1>3, <3>1, TailFacts
  <2> QED BY <1>3, <2>1, <2>2 DEF NoNewQuery, QueuedOnce
<1>4. ASSUME dbox # <<>>, dbox' = Tail(dbox), Head(dbox) = MsgQueryData(q), QueuedOnce(q)
      PROVE  ~Queued(q)'
  BY <1>4, TailFacts DEF Queued, QueuedOnce
<1>5. dbox # <<>> /\ Head(dbox) = MsgQueryData(q) => Queued(q)
  BY TailFacts DEF Queued
<1> QED BY <1>1, <1>2, <1>3, <1>4, <1>5

(* A step that is none of p's leaves what is known of p.                    *)
LEMMA OtherQuery ==
  ASSUME NEW p \in Queries, QueryInv(p), NoNewQuery(p),
         child'[p] = child[p], kbox'[p] = kbox[p], fwd'[p] = fwd[p], caller'[p] = caller[p],
         args'[p] = args[p], left'[p] = left[p],
         scan' = scan \/ (scan.q # p /\ scan'.q # p)
  PROVE  QueryInv(p)'
<1>1. Rest(p)' = Rest(p) /\ (scan'.q = p <=> scan.q = p)
  BY DEF Rest
<1>2. ChildAlive(p)'
  BY DEF QueryInv, ChildAlive, Has
<1>3. OneAfterAnother(p)'
  BY <1>1 DEF QueryInv, OneAfterAnother, Has, Single, NoNewQuery
<1>4. Entries(p)'
  BY <1>1 DEF QueryInv, Entries, Has, Single, IsFirst, Precedes
<1>5. Unread(p)'
  BY <1>1 DEF QueryInv, Unread, Has, IsFirst, Precedes
<1> QED BY <1>2, <1>3, <1>4, <1>5 DEF QueryInv

-----------------------------------------------------------------------------
(* The caller.                                                             *)

LEMMA QueryCallInv ==
  ASSUME StreamInv, NEW q \in Queries, NEW a \in [prefix : SUBSET Keys, reverse : BOOLEAN],
         QueryCall(q, a)
  PROVE  StreamInv'
<1>1. /\ dbox \in Seq(DbMessages) /\ dbox' = dbox /\ scan' = scan
      /\ child' = [child EXCEPT ![q] = [st |-> "ready", key |-> Nobody]]
      /\ kbox' = [kbox EXCEPT ![q] = <<ToChild("start")>>]
      /\ caller' = [caller EXCEPT ![q] = "waiting"] /\ args' = [args EXCEPT ![q] = a]
      /\ fwd' = [fwd EXCEPT ![q] = [st |-> "off", key |-> Nobody]]
      /\ left' = [left EXCEPT ![q] = {}]
      /\ scan.q # q /\ ~Queued(q)
  BY DEF QueryCall, Free, Queued, StreamInv, StreamTypeOK
<1>2. StreamTypeOK'
  BY <1>1, ChildMessage DEF StreamInv, StreamTypeOK, QueryCall
<1>3. ASSUME NEW p \in Queries, p # q PROVE QueryInv(p)'
  BY <1>1, <1>3, OtherQuery, DboxChanges DEF StreamInv, StreamTypeOK
<1>4. /\ child'[q].st = "ready" /\ kbox'[q] = <<ToChild("start")>> /\ fwd'[q].st = "off"
      /\ left'[q] = {} /\ scan'.q # q /\ ~Queued(q)'
  BY <1>1 DEF StreamInv, StreamTypeOK, Queued
<1>5. /\ \A t : Has(kbox'[q], t) <=> t = "start"
      /\ \A t : Single(kbox'[q], t)
      /\ \A i \in DOMAIN kbox'[q] : kbox'[q][i].t = "start"
  BY <1>4, ChildMessage DEF Has, Single
<1>6. QueryInv(q)'
  BY <1>4, <1>5 DEF QueryInv, ChildAlive, OneAfterAnother, QueuedOnce, Queued, Entries, Unread
<1> QED BY <1>2, <1>3, <1>6 DEF StreamInv

LEMMA QueryTimeoutInv == ASSUME StreamInv, NEW q \in Queries, QueryTimeout(q) PROVE StreamInv'
<1>1. /\ caller[q] = "waiting" /\ caller' = [caller EXCEPT ![q] = "returned"]
      /\ UNCHANGED <<dbox, serving, store, scan, fwd, child, kbox, args, left>>
  BY DEF QueryTimeout
<1>2. StreamTypeOK'
  BY <1>1 DEF StreamInv, StreamTypeOK
<1>3. ASSUME NEW p \in Queries, p # q PROVE QueryInv(p)'
  BY <1>1, <1>3, OtherQuery, DboxChanges DEF StreamInv, StreamTypeOK
<1>4. ChildAlive(q)'
  BY <1>1 DEF StreamInv, StreamTypeOK, QueryInv, ChildAlive
<1>5. OneAfterAnother(q)' /\ Entries(q)' /\ Unread(q)'
  BY <1>1 DEF StreamInv, QueryInv, OneAfterAnother, QueuedOnce, Queued, Entries, Unread, Rest, Has,
              Single, IsFirst, Precedes
<1> QED BY <1>2, <1>3, <1>4, <1>5 DEF StreamInv, QueryInv

LEMMA SendPoisonInv == ASSUME StreamInv, NEW q \in Queries, SendPoison(q) PROVE StreamInv'
<1> DEFINE e == ToChild("PoisonPill")
<1>1. /\ caller[q] = "returned" /\ caller' = [caller EXCEPT ![q] = "poisoned"]
      /\ kbox' = [kbox EXCEPT ![q] = Append(kbox[q], e)]
      /\ UNCHANGED <<dbox, serving, store, scan, fwd, child, args, left>>
      /\ kbox[q] \in Seq(ChildMessages) /\ e \in ChildMessages /\ e.t = "PoisonPill"
  BY ChildMessage DEF SendPoison, StreamInv, StreamTypeOK
<1> HIDE DEF e
<1>2. StreamTypeOK'
  BY <1>1, AppendFacts DEF StreamInv, StreamTypeOK
<1>3. ASSUME NEW p \in Queries, p # q PROVE QueryInv(p)'
  BY <1>1, <1>3, OtherQuery, DboxChanges DEF StreamInv, StreamTypeOK
<1>4. caller'[q] = "poisoned" /\ kbox'[q] = Append(kbox[q], e) /\ child[q].st # "stopped"
  BY <1>1 DEF StreamInv, StreamTypeOK, QueryInv, ChildAlive
<1>5. /\ \A t : t # "PoisonPill" => (Has(kbox'[q], t) <=> Has(kbox[q], t))
      /\ \A t : t # "PoisonPill" => (Single(kbox[q], t) => Single(kbox'[q], t))
      /\ \A i \in DOMAIN kbox'[q] : kbox'[q][i].t # "PoisonPill" =>
           i \in DOMAIN kbox[q] /\ kbox'[q][i] = kbox[q][i]
  BY <1>1, <1>4, HasAppend, AppendFacts
<1>6. ChildAlive(q)'
  BY <1>1, <1>4 DEF StreamInv, QueryInv, ChildAlive
<1>7. OneAfterAnother(q)'
  BY <1>1, <1>5 DEF StreamInv, QueryInv, OneAfterAnother, QueuedOnce, Queued
<1>8. Entries(q)'
  BY <1>1, <1>5 DEF StreamInv, QueryInv, Entries, Rest, IsFirst, Precedes
<1>9. Unread(q)'
  BY <1>1, <1>5 DEF StreamInv, QueryInv, Unread, Rest, IsFirst, Precedes
<1> QED BY <1>2, <1>3, <1>6, <1>7, <1>8, <1>9 DEF StreamInv, QueryInv

-----------------------------------------------------------------------------
(* The child.                                                              *)

\* what is known of the mailbox of a child that takes a message
LEMMA ChildTakesFacts ==
  ASSUME StreamInv, NEW q \in Queries, NEW t, ChildTakes(q, t)
  PROVE  /\ child[q].st = "ready" /\ kbox[q] # <<>> /\ kbox[q] \in Seq(ChildMessages)
         /\ Head(kbox[q]) = kbox[q][1] /\ kbox[q][1] \in ChildMessages /\ 1 \in DOMAIN kbox[q]
         /\ kbox[q][1].t = t
         /\ kbox' \in [Queries -> Seq(ChildMessages)] /\ kbox'[q] = Tail(kbox[q])
         /\ \A p \in Queries \ {q} : kbox'[p] = kbox[p]
<1>1. /\ kbox \in [Queries -> Seq(ChildMessages)] /\ kbox[q] \in Seq(ChildMessages)
      /\ child[q].st = "ready" /\ kbox[q] # <<>>
      /\ Head(kbox[q]).t = t /\ kbox' = [kbox EXCEPT ![q] = Tail(kbox[q])]
  BY DEF ChildTakes, StreamInv, StreamTypeOK
<1>2. /\ kbox' \in [Queries -> Seq(ChildMessages)] /\ kbox'[q] = Tail(kbox[q])
      /\ \A p \in Queries \ {q} : kbox'[p] = kbox[p]
  BY <1>1, TailFacts
<1>3. Head(kbox[q]) = kbox[q][1] /\ kbox[q][1] \in ChildMessages /\ 1 \in DOMAIN kbox[q]
  BY <1>1, TailFacts
<1> QED BY <1>1, <1>2, <1>3

\* ... and of the messages that stay in it
LEMMA ChildTakesHas ==
  ASSUME StreamInv, NEW q \in Queries, NEW t, ChildTakes(q, t)
  PROVE  /\ Within(kbox'[q], kbox[q])
         /\ Has(kbox[q], t)
         /\ Single(kbox[q], t) => ~Has(kbox'[q], t)
         /\ \A x : /\ Has(kbox'[q], x) => Has(kbox[q], x)
                   /\ Single(kbox[q], x) => Single(kbox'[q], x)
                   /\ Has(kbox[q], x) /\ x # t => Has(kbox'[q], x)
<1>1. /\ kbox[q] \in Seq(ChildMessages) /\ kbox[q] # <<>> /\ Head(kbox[q]).t = t
      /\ kbox'[q] = Tail(kbox[q])
  BY ChildTakesFacts
<1>2. Within(kbox'[q], kbox[q])
  BY <1>1, TailFacts DEF Within
<1>3. Has(kbox[q], t) /\ (Single(kbox[q], t) => ~Has(kbox'[q], t))
  BY <1>1, HasTail
<1>4. ASSUME NEW x
      PROVE  /\ Has(kbox'[q], x) => Has(kbox[q], x)
             /\ Single(kbox[q], x) => Single(kbox'[q], x)
             /\ Has(kbox[q], x) /\ x # t => Has(kbox'[q], x)
  BY <1>1, HasTail
<1> QED BY <1>2, <1>3, <1>4

LEMMA ChildStartInv == ASSUME StreamInv, NEW q \in Queries, ChildStart(q) PROVE StreamInv'
<1>1. /\ ChildTakes(q, "start") /\ dbox' = Append(dbox, MsgQueryData(q))
      /\ UNCHANGED <<serving, store, scan, fwd, child, caller, args, left>>
      /\ dbox \in Seq(DbMessages) /\ MsgQueryData(q) \in DbMessages
  BY DbMessage DEF ChildStart, StreamInv, StreamTypeOK
<1>2. StreamTypeOK'
  <2>1. dbox' \in Seq(DbMessages)
    BY <1>1, AppendFacts
  <2> QED BY <1>1, <2>1, ChildTakesFacts, ChildTakesHas DEF StreamInv, StreamTypeOK
<1>3. ASSUME NEW p \in Queries, p # q PROVE QueryInv(p)'
  <2>1. NoNewQuery(p)
    BY <1>1, <1>3, DboxChanges, DbMessage
  <2> QED BY <1>1, <1>3, <2>1, OtherQuery, ChildTakesFacts, ChildTakesHas DEF StreamInv
<1>4. /\ Has(kbox[q], "start") /\ ~Has(kbox'[q], "start")
      /\ fwd[q].st = "off" /\ scan.q # q /\ ~Queued(q) /\ ~Has(kbox[q], "MsgAckGetData")
  BY <1>1, ChildTakesFacts, ChildTakesHas DEF StreamInv, QueryInv, OneAfterAnother
<1>5. QueuedOnce(q)'
  BY <1>1, <1>4, AppendFacts DEF QueuedOnce, Queued
<1>6. ChildAlive(q)'
  BY <1>1, ChildTakesFacts, ChildTakesHas DEF StreamInv, QueryInv, ChildAlive
<1>7. OneAfterAnother(q)'
  BY <1>1, <1>4, <1>5, ChildTakesFacts, ChildTakesHas DEF StreamInv, QueryInv, OneAfterAnother
<1>8. Entries(q)' /\ Unread(q)'
  <2>1. ~Has(kbox[q], "MsgQueryResponse")
    BY <1>4 DEF StreamInv, QueryInv, Entries
  <2>2. ~Has(kbox'[q], "MsgQueryResponse") /\ Single(kbox'[q], "MsgQueryResponse")
    BY <1>1, <2>1, ChildTakesFacts, ChildTakesHas DEF StreamInv, QueryInv, Entries
  <2>3. Entries(q)'
    BY <1>1, <2>2 DEF Entries, Has
  <2>4. Unread(q)'
    BY <1>1, <1>4 DEF StreamInv, QueryInv, Unread
  <2> QED BY <2>3, <2>4
<1> QED BY <1>2, <1>3, <1>6, <1>7, <1>8 DEF StreamInv, QueryInv

LEMMA ChildItemInv == ASSUME StreamInv, NEW q \in Queries, ChildItem(q) PROVE StreamInv'
<1> DEFINE k == kbox[q][1].key
<1>1. /\ ChildTakes(q, "MsgQueryResponse")
      /\ Head(kbox[q]) = kbox[q][1] /\ kbox[q][1] \in ChildMessages /\ 1 \in DOMAIN kbox[q]
      /\ kbox[q][1].t = "MsgQueryResponse"
      /\ UNCHANGED <<dbox, serving, store, scan, caller, args>>
      /\ child' = [child EXCEPT ![q] = [st |-> "busy", key |-> k]]
      /\ left' = [left EXCEPT ![q] = @ \ {k}]
      /\ fwd' = [fwd EXCEPT ![q].st = IF @ = "await" THEN "range" ELSE @]
  BY ChildTakesFacts, ChildTakesHas DEF ChildItem
<1>2. k \in Keys
  BY <1>1 DEF ChildMessages
<1>3. StreamTypeOK'
  <2>1. child' \in [Queries -> [st : {"stopped", "ready", "busy"}, key : Keys \cup {Nobody}]]
    BY <1>1, <1>2 DEF StreamInv, StreamTypeOK
  <2>2. fwd' \in [Queries -> [st : {"off", "range", "got", "await", "gone", "stuck"},
                              key : Keys \cup {Nobody}]]
    <3>1. PICK st \in {fwd[q].st, "range"} : fwd' = [fwd EXCEPT ![q].st = st]
      BY <1>1
    <3> QED BY <3>1 DEF StreamInv, StreamTypeOK
  <2>3. left' \in [Queries -> SUBSET Keys]
    BY <1>1 DEF StreamInv, StreamTypeOK
  <2>4. kbox' \in [Queries -> Seq(ChildMessages)]
    BY <1>1, ChildTakesFacts, ChildTakesHas
  <2> QED BY <1>1, <2>1, <2>2, <2>3, <2>4 DEF StreamInv, StreamTypeOK
<1>4. /\ child[q].st = "ready" /\ child'[q] = [st |-> "busy", key |-> k] /\ left'[q] = left[q] \ {k}
      /\ fwd[q].st \in {"await", "gone"}
      /\ fwd[q].st = "await" => fwd'[q].st = "range"
      /\ fwd[q].st = "gone" => fwd'[q].st = "gone"
  <2>1. Has(kbox[q], "MsgQueryResponse") /\ child[q].st = "ready"
    BY <1>1, ChildTakesFacts, ChildTakesHas
  <2>2. fwd[q].st \in {"await", "gone"}
    BY <2>1 DEF StreamInv, StreamTypeOK, QueryInv, Entries
  <2> QED BY <1>1, <2>1, <2>2 DEF StreamInv, StreamTypeOK
<1>5. ASSUME NEW p \in Queries, p # q PROVE QueryInv(p)'
  <2>1. NoNewQuery(p) /\ kbox'[p] = kbox[p]
    BY <1>1, <1>5, DboxChanges, ChildTakesFacts, ChildTakesHas DEF StreamInv, StreamTypeOK
  <2> QED BY <1>1, <1>5, <2>1, OtherQuery DEF StreamInv, StreamTypeOK
<1>6. /\ \A t : (Has(kbox'[q], t) => Has(kbox[q], t)) /\ (Single(kbox[q], t) => Single(kbox'[q], t))
      /\ ~Has(kbox'[q], "MsgQueryResponse")
  BY <1>1, ChildTakesFacts, ChildTakesHas DEF StreamInv, QueryInv, Entries
<1>7. ChildAlive(q)'
  BY <1>1, <1>2, <1>4, <1>6 DEF StreamInv, QueryInv, ChildAlive
<1>8. OneAfterAnother(q)'
  BY <1>1, <1>4, <1>6 DEF StreamInv, QueryInv, OneAfterAnother, QueuedOnce, Queued
<1>9. Entries(q)'
  BY <1>6 DEF StreamInv, QueryInv, Entries, Has
<1>10. Unread(q)'
  <2>1. fwd[q].st = "await" => left'[q] = Rest(q)
    BY <1>1, <1>4 DEF StreamInv, QueryInv, Unread
  <2> QED BY <1>1, <1>4, <2>1 DEF Unread, Rest
<1> QED BY <1>3, <1>5, <1>7, <1>8, <1>9, <1>10 DEF StreamInv, QueryInv

LEMMA CallbackReturnsInv ==
  ASSUME StreamInv, NEW q \in Queries, NEW more \in BOOLEAN, CallbackReturns(q, more),
         dbox' \in Seq(DbMessages), \A p \in Queries : NoNewQuery(p)
  PROVE  StreamInv'
<1>1. /\ child[q].st = "busy"
      /\ child' = [child EXCEPT ![q] = [st |-> "ready", key |-> Nobody]]
      /\ caller' \in [Queries -> {"idle", "waiting", "returned", "poisoned"}]
      /\ \A p \in Queries : p # q => caller'[p] = caller[p]
      /\ caller'[q] \in {"waiting", "returned"} => caller[q] \in {"waiting", "returned"}
      /\ UNCHANGED <<serving, store, scan, fwd, kbox, args, left>>
  BY DEF CallbackReturns, AnswerCaller, StreamInv, StreamTypeOK
<1>2. StreamTypeOK'
  BY <1>1 DEF StreamInv, StreamTypeOK
<1>3. ASSUME NEW p \in Queries, p # q PROVE QueryInv(p)'
  BY <1>1, <1>3, OtherQuery DEF StreamInv, StreamTypeOK
<1>4. child'[q].st = "ready"
  BY <1>1 DEF StreamInv, StreamTypeOK
<1>5. ChildAlive(q)'
  BY <1>1, <1>4 DEF StreamInv, QueryInv, ChildAlive
<1>6. OneAfterAnother(q)'
  BY <1>1 DEF StreamInv, QueryInv, OneAfterAnother, NoNewQuery
<1>7. Entries(q)' /\ Unread(q)'
  BY <1>1, <1>4 DEF StreamInv, QueryInv, Entries, Unread, Rest, IsFirst, Precedes
<1> QED BY <1>2, <1>3, <1>5, <1>6, <1>7 DEF StreamInv, QueryInv

LEMMA ChildAckInv == ASSUME StreamInv, NEW q \in Queries, ChildAck(q) PROVE StreamInv'
<1> PICK end \in {"MsgAckGetData", "MsgNoAckGetData"} : ChildTakes(q, end)
  BY DEF ChildAck
<1>1. /\ ChildTakes(q, end)
      /\ caller' \in [Queries -> {"idle", "waiting", "returned", "poisoned"}]
      /\ \A p \in Queries : p # q => caller'[p] = caller[p]
      /\ caller'[q] \in {"waiting", "returned"} => caller[q] \in {"waiting", "returned"}
      /\ UNCHANGED <<dbox, serving, store, scan, fwd, child, args, left>>
  BY DEF ChildAck, AnswerCaller, StreamInv, StreamTypeOK
<1>2. StreamTypeOK'
  BY <1>1, ChildTakesFacts, ChildTakesHas DEF StreamInv, StreamTypeOK
<1>3. ASSUME NEW p \in Queries, p # q PROVE QueryInv(p)'
  <2>1. NoNewQuery(p) /\ kbox'[p] = kbox[p]
    BY <1>1, <1>3, DboxChanges, ChildTakesFacts, ChildTakesHas DEF StreamInv, StreamTypeOK
  <2> QED BY <1>1, <1>3, <2>1, OtherQuery DEF StreamInv, StreamTypeOK
<1>4. /\ \A t : /\ Has(kbox'[q], t) => Has(kbox[q], t)
                /\ Single(kbox[q], t) => Single(kbox'[q], t)
                /\ Has(kbox[q], t) /\ t # end => Has(kbox'[q], t)
      /\ Within(kbox'[q], kbox[q])
      /\ child[q].st = "ready"
  BY <1>1, ChildTakesFacts, ChildTakesHas
<1>5. ChildAlive(q)'
  BY <1>1, <1>4 DEF StreamInv, QueryInv, ChildAlive
<1>6. OneAfterAnother(q)'
  BY <1>1, <1>4 DEF StreamInv, QueryInv, OneAfterAnother, QueuedOnce, Queued
<1>7. Entries(q)'
  BY <1>1, <1>4 DEF StreamInv, QueryInv, Entries, Within, Rest, IsFirst, Precedes
<1>8. Unread(q)'
  BY <1>1, <1>4 DEF StreamInv, QueryInv, Unread, Within, Rest, IsFirst, Precedes
<1> QED BY <1>2, <1>3, <1>5, <1>6, <1>7, <1>8 DEF StreamInv, QueryInv

LEMMA ChildPoisonInv == ASSUME StreamInv, NEW q \in Queries, ChildPoison(q) PROVE StreamInv'
<1>1. /\ child[q].st = "ready" /\ kbox[q] # <<>> /\ Head(kbox[q]).t = "PoisonPill"
      /\ child' = [child EXCEPT ![q].st = "stopped"]
      /\ kbox' = [kbox EXCEPT ![q] = <<>>] /\ left' = [left EXCEPT ![q] = {}]
      /\ UNCHANGED <<dbox, serving, store, scan, fwd, caller, args>>
  BY DEF ChildPoison
<1>2. StreamTypeOK'
  <2>1. child' \in [Queries -> [st : {"stopped", "ready", "busy"}, key : Keys \cup {Nobody}]]
    BY <1>1 DEF StreamInv, StreamTypeOK
  <2>2. kbox' \in [Queries -> Seq(ChildMessages)] /\ left' \in [Queries -> SUBSET Keys]
    BY <1>1 DEF StreamInv, StreamTypeOK
  <2> QED BY <1>1, <2>1, <2>2 DEF StreamInv, StreamTypeOK
<1>3. ASSUME NEW p \in Queries, p # q PROVE QueryInv(p)'
  BY <1>1, <1>3, OtherQuery, DboxChanges DEF StreamInv, StreamTypeOK
<1>4. Has(kbox[q], "PoisonPill")
  BY <1>1, HasTail DEF StreamInv, StreamTypeOK
<1>5. child'[q].st = "stopped" /\ kbox'[q] = <<>> /\ \A t : ~Has(kbox'[q], t) /\ Single(kbox'[q], t)
  BY <1>1 DEF StreamInv, StreamTypeOK, Has, Single
<1>6. ChildAlive(q)'
  BY <1>1, <1>4, <1>5 DEF StreamInv, QueryInv, ChildAlive
<1>7. OneAfterAnother(q)'
  BY <1>1, <1>5 DEF StreamInv, QueryInv, OneAfterAnother, QueuedOnce, Queued
<1>8. Entries(q)' /\ Unread(q)'
  BY <1>5 DEF Entries, Unread, Has
<1> QED BY <1>2, <1>3, <1>6, <1>7, <1>8 DEF StreamInv, QueryInv

-----------------------------------------------------------------------------
(* The db actor and the scan.                                              *)

\* a step of the clients or of the db actor outside a scan
LEMMA OutsideScanInv ==
  ASSUME StreamInv, UNCHANGED <<scan, fwd, child, kbox, caller, args, left>>,
         dbox' \in Seq(DbMessages), serving' \in BOOLEAN, store' \in [Collections -> SUBSET Keys],
         \A p \in Queries : NoNewQuery(p)
  PROVE  StreamInv'
<1>1. StreamTypeOK'
  BY DEF StreamInv, StreamTypeOK
<1>2. ASSUME NEW p \in Queries PROVE QueryInv(p)'
  BY <1>2, OtherQuery DEF StreamInv
<1> QED BY <1>1, <1>2 DEF StreamInv

LEMMA HeadOfDbox ==
  ASSUME dbox \in Seq(DbMessages), dbox # <<>>
  PROVE  /\ Tail(dbox) \in Seq(DbMessages)
         /\ Head(dbox).op \in {"MsgUpdateData", "MsgDeleteData"} =>
              Head(dbox).coll \in Collections /\ Head(dbox).key \in Keys
         /\ Head(dbox).op = "MsgQueryData" =>
              Head(dbox).q \in Queries /\ Head(dbox) = MsgQueryData(Head(dbox).q)
<1>1. Tail(dbox) \in Seq(DbMessages) /\ Head(dbox) \in DbMessages
  BY TailFacts
<1> QED BY <1>1 DEF DbMessages, MsgQueryData

LEMMA DbTakesInv ==
  ASSUME StreamInv, \/ DbDrops \/ DbServes
                    \/ \E ok \in BOOLEAN : DbUpdate(ok) \/ DbDelete(ok)
  PROVE  StreamInv'
<1>1. /\ dbox \in Seq(DbMessages) /\ store \in [Collections -> SUBSET Keys]
      /\ serving \in BOOLEAN
  BY DEF StreamInv, StreamTypeOK
<1>2. /\ UNCHANGED <<scan, fwd, child, kbox, caller, args, left>>
      /\ (dbox # <<>> /\ dbox' = Tail(dbox)) \/ dbox' = dbox
      /\ serving' \in BOOLEAN
  BY <1>1 DEF DbDrops, DbServes, DbUpdate, DbDelete, DbReady
<1>3. store' \in [Collections -> SUBSET Keys]
  <2>1. CASE DbDrops \/ DbServes
    BY <1>1, <2>1 DEF DbDrops, DbServes
  <2>2. ASSUME NEW ok \in BOOLEAN, DbUpdate(ok) PROVE store' \in [Collections -> SUBSET Keys]
    BY <1>1, <2>2, HeadOfDbox DEF DbUpdate, DbReady
  <2>3. ASSUME NEW ok \in BOOLEAN, DbDelete(ok) PROVE store' \in [Collections -> SUBSET Keys]
    BY <1>1, <2>3, HeadOfDbox DEF DbDelete, DbReady
  <2> QED BY <2>1, <2>2, <2>3
<1>4. dbox' \in Seq(DbMessages) /\ \A p \in Queries : NoNewQuery(p)
  BY <1>1, <1>2, HeadOfDbox, DboxChanges
<1> QED BY <1>2, <1>3, <1>4, OutsideScanInv

LEMMA RequestInv == ASSUME StreamInv, Request PROVE StreamInv'
<1>1. dbox \in Seq(DbMessages)
  BY DEF StreamInv, StreamTypeOK
<1>2. PICK e \in DbMessages : dbox' = Append(dbox, e) /\ \A q : e # MsgQueryData(q)
  BY DbMessage, ScannedAssumption DEF Request
<1>3. dbox' \in Seq(DbMessages) /\ \A p \in Queries : NoNewQuery(p)
  BY <1>1, <1>2, AppendFacts, DboxChanges
<1> QED BY <1>3, OutsideScanInv DEF Request, StreamInv, StreamTypeOK

(* The scan starts: everything it selects is unread and in the scan.        *)
LEMMA ScanStartInv == ASSUME StreamInv, ScanStart PROVE StreamInv'
<1>1. /\ scan = NoScan /\ dbox # <<>> /\ Head(dbox).op = "MsgQueryData" /\ dbox' = Tail(dbox)
      /\ UNCHANGED <<serving, store, child, kbox, caller, args>>
      /\ dbox \in Seq(DbMessages) /\ dbox' \in Seq(DbMessages)
      /\ Head(dbox).q \in Queries /\ Head(dbox) = MsgQueryData(Head(dbox).q)
  BY HeadOfDbox DEF ScanStart, DbReady, StreamInv, StreamTypeOK
<1>2. PICK q \in Queries : q = Head(dbox).q
  BY <1>1
<1>3. CursorRun(store[Scanned], args[q]) \in SUBSET Keys
  <2>1. store[Scanned] \in SUBSET Keys
    BY ScannedAssumption DEF StreamInv, StreamTypeOK
  <2> QED BY <2>1 DEF CursorRun
<1>4. PICK S \in SUBSET Keys : S = CursorRun(store[Scanned], args[q])
  BY <1>3
<1>5. /\ scan' = [q |-> q, rest |-> S] /\ left' = [left EXCEPT ![q] = S]
      /\ fwd' = [fwd EXCEPT ![q] = [st |-> "range", key |-> Nobody]]
  BY <1>2, <1>4 DEF ScanStart
<1>6. StreamTypeOK'
  <2>1. fwd' \in [Queries -> [st : {"off", "range", "got", "await", "gone", "stuck"},
                              key : Keys \cup {Nobody}]]
    BY <1>5 DEF StreamInv, StreamTypeOK
  <2>2. left' \in [Queries -> SUBSET Keys]
    BY <1>5 DEF StreamInv, StreamTypeOK
  <2>3. scan' \in [q : Queries \cup {Nobody}, rest : SUBSET Keys]
    BY <1>5
  <2> QED BY <1>1, <2>1, <2>2, <2>3 DEF StreamInv, StreamTypeOK
<1>7. ASSUME NEW p \in Queries, p # q PROVE QueryInv(p)'
  <2>1. NoNewQuery(p)
    BY <1>1, DboxChanges
  <2>2. scan.q # p /\ scan'.q # p
    BY <1>1, <1>5, <1>7, QueriesAssumption DEF NoScan
  <2>3. fwd'[p] = fwd[p] /\ left'[p] = left[p]
    BY <1>5, <1>7 DEF StreamInv, StreamTypeOK
  <2> QED BY <1>1, <2>1, <2>2, <2>3, OtherQuery DEF StreamInv
<1>8. QueryInv(q) /\ Queued(q) /\ fwd[q].st = "off"
  BY <1>1, <1>2, DboxChanges DEF StreamInv, QueryInv, OneAfterAnother
<1>9. /\ ~Has(kbox[q], "start") /\ ~Has(kbox[q], "MsgAckGetData")
      /\ ~Has(kbox[q], "MsgQueryResponse")
  BY <1>8 DEF QueryInv, OneAfterAnother, Entries
<1>10. /\ scan'.q = q /\ Rest(q)' = S /\ left'[q] = S /\ fwd'[q].st = "range" /\ ~Queued(q)'
       /\ QueuedOnce(q)'
  <2>1. QueuedOnce(q)' /\ ~Queued(q)'
    BY <1>1, <1>2, <1>8, DboxChanges DEF QueryInv, OneAfterAnother, NoNewQuery
  <2>2. left'[q] = S /\ fwd'[q].st = "range"
    BY <1>5 DEF StreamInv, StreamTypeOK
  <2> QED BY <1>5, <2>1, <2>2 DEF Rest
<1>11. ChildAlive(q)'
  BY <1>1, <1>8 DEF QueryInv, ChildAlive
<1>12. OneAfterAnother(q)'
  BY <1>1, <1>8, <1>9, <1>10 DEF QueryInv, OneAfterAnother
<1>13. Entries(q)'
  BY <1>1, <1>8, <1>9 DEF QueryInv, Entries, Has
<1>14. Unread(q)'
  BY <1>10 DEF Unread
<1> QED BY <1>6, <1>7, <1>11, <1>12, <1>13, <1>14 DEF StreamInv, QueryInv

(* The cursor hands its next entry to the forwarder.                        *)
LEMMA ScanHandOffInv == ASSUME StreamInv, ScanHandOff PROVE StreamInv'
<1>1. PICK q \in Queries : q = scan.q
  BY DEF ScanHandOff
<1>2. PICK k \in scan.rest :
        /\ IsFirst(q, k, scan.rest) /\ scan' = [scan EXCEPT !.rest = @ \ {k}]
        /\ fwd' = [fwd EXCEPT ![q] = [st |-> "got", key |-> k]]
  BY <1>1 DEF ScanHandOff
<1>3. /\ fwd[q].st = "range" /\ k \in Keys /\ scan'.q = q /\ scan'.rest = scan.rest \ {k}
      /\ scan' \in [q : Queries \cup {Nobody}, rest : SUBSET Keys]
      /\ UNCHANGED <<dbox, serving, store, child, kbox, caller, args, left>>
  BY <1>1, <1>2 DEF ScanHandOff, StreamInv, StreamTypeOK
<1>4. /\ fwd' \in [Queries -> [st : {"off", "range", "got", "await", "gone", "stuck"},
                               key : Keys \cup {Nobody}]]
      /\ fwd'[q].st = "got" /\ fwd'[q].key = k
      /\ \A p \in Queries \ {q} : fwd'[p] = fwd[p]
  BY <1>2, <1>3 DEF StreamInv, StreamTypeOK
<1>5. StreamTypeOK'
  BY <1>3, <1>4 DEF StreamInv, StreamTypeOK
<1>6. ASSUME NEW p \in Queries, p # q PROVE QueryInv(p)'
  <2>1. NoNewQuery(p) /\ scan.q # p /\ scan'.q # p
    BY <1>1, <1>3, <1>6, DboxChanges DEF StreamInv, StreamTypeOK
  <2> QED BY <1>3, <1>4, <1>6, <2>1, OtherQuery DEF StreamInv
<1>7. /\ QueryInv(q) /\ scan.q = q /\ ~Has(kbox[q], "MsgQueryResponse")
      /\ Rest(q) = scan.rest /\ Rest(q)' = scan.rest \ {k}
  BY <1>1, <1>3 DEF StreamInv, QueryInv, Entries, Rest
<1>8. ChildAlive(q)'
  BY <1>3, <1>7 DEF QueryInv, ChildAlive
<1>9. OneAfterAnother(q)'
  BY <1>3, <1>4, <1>7 DEF QueryInv, OneAfterAnother, QueuedOnce, Queued
<1>10. Entries(q)'
  BY <1>3, <1>7 DEF QueryInv, Entries, Has
<1>11. Unread(q)'
  <2> SUFFICES ASSUME child[q].st # "stopped"
               PROVE  /\ left[q] = Rest(q)' \cup {k} /\ k \notin Rest(q)'
                      /\ IsFirst(q, k, left[q])' /\ k \in Keys
    BY <1>3, <1>4 DEF Unread
  <2>1. left[q] = scan.rest
    BY <1>3, <1>7 DEF QueryInv, Unread
  <2> QED BY <1>1, <1>2, <1>3, <1>7, <2>1 DEF IsFirst, Precedes
<1> QED BY <1>5, <1>6, <1>8, <1>9, <1>10, <1>11 DEF StreamInv, QueryInv

(* The cursor leaves an entry that nobody received.                         *)
LEMMA ScanSkipInv == ASSUME StreamInv, ScanSkip PROVE StreamInv'
<1>1. PICK q \in Queries : q = scan.q
  BY DEF ScanSkip
<1>2. PICK k \in scan.rest :
        /\ IsFirst(q, k, scan.rest) /\ scan' = [scan EXCEPT !.rest = @ \ {k}]
        /\ left' = [left EXCEPT ![q] = @ \ {k}]
  BY <1>1 DEF ScanSkip
<1>3. /\ scan'.q = q /\ scan'.rest = scan.rest \ {k}
      /\ scan' \in [q : Queries \cup {Nobody}, rest : SUBSET Keys]
      /\ left' \in [Queries -> SUBSET Keys] /\ left'[q] = left[q] \ {k}
      /\ \A p \in Queries \ {q} : left'[p] = left[p]
      /\ UNCHANGED <<dbox, serving, store, fwd, child, kbox, caller, args>>
  BY <1>1, <1>2 DEF ScanSkip, StreamInv, StreamTypeOK
<1>4. StreamTypeOK'
  BY <1>3 DEF StreamInv, StreamTypeOK
<1>5. ASSUME NEW p \in Queries, p # q PROVE QueryInv(p)'
  <2>1. NoNewQuery(p) /\ scan.q # p /\ scan'.q # p
    BY <1>1, <1>3, <1>5, DboxChanges DEF StreamInv, StreamTypeOK
  <2> QED BY <1>3, <1>5, <2>1, OtherQuery DEF StreamInv
<1>6. QueryInv(q) /\ scan.q = q /\ k \in Rest(q) /\ Rest(q)' = Rest(q) \ {k}
  BY <1>1, <1>2, <1>3 DEF StreamInv, Rest
<1>7. ChildAlive(q)'
  BY <1>3, <1>6 DEF QueryInv, ChildAlive
<1>8. OneAfterAnother(q)'
  BY <1>3, <1>6 DEF QueryInv, OneAfterAnother, QueuedOnce, Queued
<1>9. Entries(q)'
  BY <1>3, <1>6 DEF QueryInv, Entries, IsFirst, Precedes
<1>10. Unread(q)'
  BY <1>3, <1>6 DEF QueryInv, OneAfterAnother, Unread, IsFirst, Precedes
<1> QED BY <1>4, <1>5, <1>7, <1>8, <1>9, <1>10 DEF StreamInv, QueryInv

(* No scan starts: the child is told, and the forwarder stays as it is.     *)
LEMMA ScanFailsInv == ASSUME StreamInv, ScanFails PROVE StreamInv'
<1> DEFINE e == ToChild("MsgNoAckGetData")
<1>1. /\ scan = NoScan /\ dbox # <<>> /\ Head(dbox).op = "MsgQueryData" /\ dbox' = Tail(dbox)
      /\ UNCHANGED <<serving, store, scan, child, caller, args, left>>
      /\ dbox \in Seq(DbMessages) /\ dbox' \in Seq(DbMessages)
      /\ Head(dbox).q \in Queries /\ Head(dbox) = MsgQueryData(Head(dbox).q)
  BY HeadOfDbox DEF ScanFails, DbReady, StreamInv, StreamTypeOK
<1>2. PICK q \in Queries : q = Head(dbox).q
  BY <1>1
<1>3. /\ fwd' = [fwd EXCEPT ![q] = [st |-> "stuck", key |-> Nobody]]
      /\ kbox' = IF child[q].st = "stopped" THEN kbox
                 ELSE [kbox EXCEPT ![q] = Append(@, e)]
      /\ kbox[q] \in Seq(ChildMessages) /\ e \in ChildMessages /\ e.t = "MsgNoAckGetData"
  BY <1>2, ChildMessage DEF ScanFails, Sent, StreamInv, StreamTypeOK
<1> HIDE DEF e
<1>4. StreamTypeOK'
  <2>1. kbox' \in [Queries -> Seq(ChildMessages)]
    BY <1>3, AppendFacts DEF StreamInv, StreamTypeOK
  <2>2. fwd' \in [Queries -> [st : {"off", "range", "got", "await", "gone", "stuck"},
                              key : Keys \cup {Nobody}]]
    BY <1>3 DEF StreamInv, StreamTypeOK
  <2> QED BY <1>1, <2>1, <2>2 DEF StreamInv, StreamTypeOK
<1>5. ASSUME NEW p \in Queries, p # q PROVE QueryInv(p)'
  <2>1. NoNewQuery(p) /\ fwd'[p] = fwd[p] /\ kbox'[p] = kbox[p]
    BY <1>1, <1>3, <1>5, DboxChanges DEF StreamInv, StreamTypeOK
  <2> QED BY <1>1, <1>5, <2>1, OtherQuery DEF StreamInv
<1>6. QueryInv(q) /\ Queued(q) /\ fwd[q].st = "off" /\ scan.q # q
  BY <1>1, <1>2, DboxChanges DEF StreamInv, QueryInv, OneAfterAnother
<1>7. /\ fwd'[q].st = "stuck" /\ ~Queued(q)' /\ QueuedOnce(q)'
      /\ \/ child[q].st = "stopped" /\ kbox'[q] = kbox[q]
         \/ child[q].st # "stopped" /\ kbox'[q] = Append(kbox[q], e)
  <2>1. QueuedOnce(q)' /\ ~Queued(q)'
    BY <1>1, <1>2, <1>6, DboxChanges DEF QueryInv, OneAfterAnother, NoNewQuery
  <2> QED BY <1>3, <2>1 DEF StreamInv, StreamTypeOK
<1>8. /\ \A t : t # "MsgNoAckGetData" =>
           /\ Has(kbox'[q], t) <=> Has(kbox[q], t)
           /\ Single(kbox[q], t) => Single(kbox'[q], t)
      /\ \A i \in DOMAIN kbox'[q] : kbox'[q][i].t # "MsgNoAckGetData" =>
           i \in DOMAIN kbox[q] /\ kbox'[q][i] = kbox[q][i]
  <2>1. CASE child[q].st = "stopped"
    BY <1>7, <2>1
  <2>2. CASE child[q].st # "stopped"
    <3>1. kbox'[q] = Append(kbox[q], e)
      BY <1>7, <2>2
    <3> QED BY <1>3, <3>1, HasAppend, AppendFacts
  <2> QED BY <2>1, <2>2
<1>9. /\ ~Has(kbox[q], "start") /\ ~Has(kbox[q], "MsgQueryResponse")
  BY <1>6 DEF QueryInv, OneAfterAnother, Entries
<1>10. ChildAlive(q)'
  BY <1>1, <1>6, <1>7, <1>8 DEF QueryInv, ChildAlive
<1>11. OneAfterAnother(q)'
  BY <1>1, <1>6, <1>7, <1>8, <1>9 DEF QueryInv, OneAfterAnother
<1>12. Entries(q)'
  BY <1>6, <1>8, <1>9 DEF QueryInv, Entries, Has
<1>13. Unread(q)'
  BY <1>1, <1>6, <1>7 DEF QueryInv, Unread
<1> QED BY <1>4, <1>5, <1>10, <1>11, <1>12, <1>13 DEF StreamInv, QueryInv

(* The scan ends when all was handed over, or the forwarder gave up.        *)
LEMMA ScanEndInv == ASSUME StreamInv, ScanEnd PROVE StreamInv'
<1> DEFINE e == ToChild("MsgAckGetData")
<1>1. PICK q \in Queries : q = scan.q
  BY DEF ScanEnd
<1>2. /\ scan.rest = {} \/ fwd[q].st = "gone"
      /\ scan' = NoScan
      /\ kbox' = IF child[q].st = "stopped" THEN kbox
                 ELSE [kbox EXCEPT ![q] = Append(@, e)]
      /\ UNCHANGED <<dbox, serving, store, fwd, child, caller, args, left>>
      /\ kbox[q] \in Seq(ChildMessages) /\ e \in ChildMessages /\ e.t = "MsgAckGetData"
  BY <1>1, ChildMessage DEF ScanEnd, Sent, StreamInv, StreamTypeOK
<1>3. QueryInv(q) /\ scan'.q # q /\ scan'.q = Nobody /\ (Rest(q) = {} \/ fwd[q].st = "gone")
  BY <1>1, <1>2, QueriesAssumption DEF StreamInv, NoScan, Rest
<1> HIDE DEF e
<1>4. StreamTypeOK'
  <2>1. kbox' \in [Queries -> Seq(ChildMessages)]
    BY <1>2, AppendFacts DEF StreamInv, StreamTypeOK
  <2> QED BY <1>2, <2>1 DEF StreamInv, StreamTypeOK, NoScan
<1>5. ASSUME NEW p \in Queries, p # q PROVE QueryInv(p)'
  <2>1. NoNewQuery(p) /\ scan.q # p /\ scan'.q # p /\ kbox'[p] = kbox[p]
    BY <1>1, <1>2, <1>3, <1>5, QueriesAssumption, DboxChanges DEF StreamInv, StreamTypeOK
  <2> QED BY <1>2, <1>5, <2>1, OtherQuery DEF StreamInv
<1>6. \/ child[q].st = "stopped" /\ kbox'[q] = kbox[q]
      \/ child[q].st # "stopped" /\ kbox'[q] = Append(kbox[q], e)
  BY <1>2 DEF StreamInv, StreamTypeOK
<1>7. /\ \A t : t # "MsgAckGetData" =>
           /\ Has(kbox'[q], t) <=> Has(kbox[q], t)
           /\ Single(kbox[q], t) => Single(kbox'[q], t)
      /\ \A i \in DOMAIN kbox'[q] : kbox'[q][i].t # "MsgAckGetData" =>
           i \in DOMAIN kbox[q] /\ kbox'[q][i] = kbox[q][i]
  <2>1. CASE child[q].st = "stopped"
    BY <1>6, <2>1
  <2>2. CASE child[q].st # "stopped"
    <3>1. kbox'[q] = Append(kbox[q], e)
      BY <1>6, <2>2
    <3> QED BY <1>2, <3>1, HasAppend, AppendFacts
  <2> QED BY <2>1, <2>2
<1>8. ChildAlive(q)'
  BY <1>2, <1>3, <1>6, <1>7 DEF QueryInv, ChildAlive
<1>9. OneAfterAnother(q)'
  BY <1>1, <1>2, <1>3, <1>7 DEF QueryInv, OneAfterAnother, QueuedOnce, Queued
<1>10. Entries(q)'
  BY <1>2, <1>3, <1>7 DEF QueryInv, Entries, Rest, IsFirst, Precedes
<1>11. Unread(q)'
  <2>1. fwd[q].st = "gone" \/ Rest(q)' = Rest(q)
    BY <1>3 DEF Rest
  <2> QED BY <1>2, <1>3, <1>7, <2>1 DEF QueryInv, Unread, IsFirst, Precedes
<1> QED BY <1>4, <1>5, <1>8, <1>9, <1>10, <1>11 DEF StreamInv, QueryInv

-----------------------------------------------------------------------------
(* The forwarder.                                                          *)

LEMMA ForwarderSendInv == ASSUME StreamInv, NEW q \in Queries, ForwarderSend(q) PROVE StreamInv'
<1> DEFINE e == MsgQueryResponse(fwd[q].key)
<1>1. /\ fwd[q].st = "got" /\ UNCHANGED <<dbox, serving, store, scan, child, caller, args, left>>
      /\ kbox[q] \in Seq(ChildMessages)
      /\ \/ /\ child[q].st = "stopped" /\ kbox' = kbox
            /\ fwd' = [fwd EXCEPT ![q] = [st |-> "gone", key |-> Nobody]]
         \/ /\ child[q].st # "stopped" /\ kbox' = [kbox EXCEPT ![q] = Append(kbox[q], e)]
            /\ fwd' = [fwd EXCEPT ![q] = [st |-> "await", key |-> Nobody]]
  BY DEF ForwarderSend, StreamInv, StreamTypeOK
<1>2. /\ QueryInv(q) /\ ~Has(kbox[q], "start") /\ ~Queued(q)
      /\ ~Has(kbox[q], "MsgQueryResponse")
  BY <1>1 DEF StreamInv, QueryInv, OneAfterAnother, Entries
<1>3. child[q].st # "stopped" =>
        /\ fwd[q].key \in Keys /\ e \in ChildMessages
        /\ e.t = "MsgQueryResponse" /\ e.key = fwd[q].key
  BY <1>1, <1>2, ChildMessage DEF QueryInv, Unread
<1> HIDE DEF e
<1>4. StreamTypeOK'
  <2>1. fwd' \in [Queries -> [st : {"off", "range", "got", "await", "gone", "stuck"},
                              key : Keys \cup {Nobody}]]
    <3>1. PICK st \in {"gone", "await"} : fwd' = [fwd EXCEPT ![q] = [st |-> st, key |-> Nobody]]
      BY <1>1
    <3> QED BY <3>1 DEF StreamInv, StreamTypeOK
  <2>2. kbox' \in [Queries -> Seq(ChildMessages)]
    <3>1. \/ kbox' = kbox
          \/ \E s \in Seq(ChildMessages) : kbox' = [kbox EXCEPT ![q] = s]
      BY <1>1, <1>3, AppendFacts
    <3> QED BY <3>1 DEF StreamInv, StreamTypeOK
  <2> QED BY <1>1, <2>1, <2>2 DEF StreamInv, StreamTypeOK
<1>5. ASSUME NEW p \in Queries, p # q PROVE QueryInv(p)'
  <2>1. NoNewQuery(p) /\ fwd'[p] = fwd[p] /\ kbox'[p] = kbox[p]
    BY <1>1, <1>5, DboxChanges DEF StreamInv, StreamTypeOK
  <2> QED BY <1>1, <1>5, <2>1, OtherQuery DEF StreamInv
<1>6. CASE child[q].st = "stopped"
  <2>1. fwd'[q].st = "gone" /\ kbox'[q] = kbox[q]
    BY <1>1, <1>6 DEF StreamInv, StreamTypeOK
  <2>2. ChildAlive(q)'
    BY <1>1, <1>2, <2>1 DEF QueryInv, ChildAlive
  <2>3. OneAfterAnother(q)'
    BY <1>1, <1>2, <2>1 DEF QueryInv, OneAfterAnother, QueuedOnce, Queued
  <2>4. Entries(q)' /\ Unread(q)'
    BY <1>1, <1>2, <1>6, <2>1 DEF QueryInv, Entries, Unread, Has
  <2> QED BY <1>4, <1>5, <2>2, <2>3, <2>4 DEF StreamInv, QueryInv
<1>7. CASE child[q].st # "stopped"
  <2>1. fwd'[q].st = "await" /\ kbox'[q] = Append(kbox[q], e)
    BY <1>1, <1>7 DEF StreamInv, StreamTypeOK
  <2>2. /\ \A t : t # "MsgQueryResponse" =>
             /\ Has(kbox'[q], t) <=> Has(kbox[q], t)
             /\ Single(kbox[q], t) => Single(kbox'[q], t)
        /\ Single(kbox'[q], "MsgQueryResponse") /\ Has(kbox'[q], "MsgQueryResponse")
    BY <1>1, <1>2, <1>3, <1>7, <2>1, HasAppend DEF QueryInv, Entries
  <2>3. \A i \in DOMAIN kbox'[q] :
          kbox'[q][i].t = "MsgQueryResponse" => kbox'[q][i].key = fwd[q].key
    BY <1>1, <1>2, <1>3, <1>7, <2>1, AppendFacts DEF Has
  <2>4. ChildAlive(q)'
    BY <1>1, <1>2, <1>7, <2>2 DEF QueryInv, ChildAlive
  <2>5. OneAfterAnother(q)'
    BY <1>1, <1>2, <2>1, <2>2 DEF QueryInv, OneAfterAnother, QueuedOnce, Queued
  <2>6. /\ left[q] = Rest(q) \cup {fwd[q].key} /\ fwd[q].key \notin Rest(q)
        /\ IsFirst(q, fwd[q].key, left[q]) /\ Rest(q)' = Rest(q)
    BY <1>1, <1>2, <1>7 DEF QueryInv, Unread, Rest
  <2>7. Entries(q)'
    BY <1>1, <2>1, <2>2, <2>3, <2>6 DEF Entries, IsFirst, Precedes
  <2>8. Unread(q)'
    BY <1>1, <2>1, <2>2, <2>3, <2>6 DEF Unread
  <2> QED BY <1>4, <1>5, <2>4, <2>5, <2>7, <2>8 DEF StreamInv, QueryInv
<1> QED BY <1>6, <1>7

LEMMA ForwarderEndsInv ==
  ASSUME StreamInv, NEW q \in Queries, ForwarderTimeout(q) \/ ForwarderDone(q)
  PROVE  StreamInv'
<1>1. /\ UNCHANGED <<dbox, serving, store, scan, child, kbox, caller, args, left>>
      /\ \/ fwd[q].st = "await" /\ fwd' = [fwd EXCEPT ![q].st = "gone"]
         \/ fwd[q].st = "range" /\ scan.q # q /\ fwd' = [fwd EXCEPT ![q].st = "off"]
  BY DEF ForwarderTimeout, ForwarderDone
<1>2. /\ fwd' \in [Queries -> [st : {"off", "range", "got", "await", "gone", "stuck"},
                               key : Keys \cup {Nobody}]]
      /\ \A p \in Queries \ {q} : fwd'[p] = fwd[p]
      /\ \/ fwd[q].st = "await" /\ fwd'[q].st = "gone"
         \/ fwd[q].st = "range" /\ scan.q # q /\ fwd'[q].st = "off"
  <2>1. PICK st \in {"gone", "off"} :
          /\ fwd' = [fwd EXCEPT ![q].st = st]
          /\ \/ st = "gone" /\ fwd[q].st = "await"
             \/ st = "off" /\ fwd[q].st = "range" /\ scan.q # q
    BY <1>1
  <2>2. fwd \in [Queries -> [st : {"off", "range", "got", "await", "gone", "stuck"},
                             key : Keys \cup {Nobody}]]
    BY DEF StreamInv, StreamTypeOK
  <2>3. fwd'[q].st = st /\ \A p \in Queries \ {q} : fwd'[p] = fwd[p]
    BY <2>1, <2>2
  <2>4. fwd' \in [Queries -> [st : {"off", "range", "got", "await", "gone", "stuck"},
                              key : Keys \cup {Nobody}]]
    BY <2>1, <2>2
  <2> QED BY <2>1, <2>3, <2>4
<1>3. StreamTypeOK'
  BY <1>1, <1>2 DEF StreamInv, StreamTypeOK
<1>4. ASSUME NEW p \in Queries, p # q PROVE QueryInv(p)'
  <2>1. NoNewQuery(p)
    BY <1>1, DboxChanges DEF StreamInv, StreamTypeOK
  <2> QED BY <1>1, <1>2, <1>4, <2>1, OtherQuery DEF StreamInv
<1>5. QueryInv(q) /\ ~Has(kbox[q], "start") /\ ~Queued(q)
  BY <1>2 DEF StreamInv, QueryInv, OneAfterAnother
<1>6. ChildAlive(q)'
  BY <1>1, <1>5 DEF QueryInv, ChildAlive
<1>7. OneAfterAnother(q)'
  BY <1>1, <1>2, <1>5 DEF QueryInv, OneAfterAnother, QueuedOnce, Queued
<1>8. Entries(q)'
  BY <1>1, <1>2, <1>5 DEF QueryInv, Entries, Rest, IsFirst, Precedes
<1>9. Unread(q)'
  BY <1>1, <1>2, <1>5 DEF QueryInv, Unread, Rest
<1> QED BY <1>3, <1>4, <1>6, <1>7, <1>8, <1>9 DEF StreamInv, QueryInv

-----------------------------------------------------------------------------
(* StreamInv is inductive.                                                 *)

\* no query is under way
Quiet ==
  /\ StreamTypeOK
  /\ dbox = <<>> /\ scan = NoScan
  /\ fwd = [q \in Queries |-> [st |-> "off", key |-> Nobody]]
  /\ child = [q \in Queries |-> [st |-> "stopped", key |-> Nobody]]
  /\ kbox = [q \in Queries |-> <<>>]
  /\ caller = [q \in Queries |-> "idle"]

LEMMA QuietInv == Quiet => StreamInv
<1> SUFFICES ASSUME Quiet, NEW q \in Queries PROVE QueryInv(q)
  BY DEF Quiet, StreamInv
<1>1. /\ kbox[q] = <<>> /\ dbox = <<>> /\ fwd[q].st = "off" /\ scan.q = Nobody /\ caller[q] = "idle"
      /\ child[q].st = "stopped"
  BY DEF Quiet, NoScan
<1>2. scan.q # q
  BY <1>1, QueriesAssumption
<1> QED BY <1>1, <1>2 DEF QueryInv, ChildAlive, OneAfterAnother, Entries, Unread, Has, Single,
                          Queued, QueuedOnce

LEMMA FreshInv ==
  ASSUME StreamFresh, store \in [Collections -> SUBSET Keys]
  PROVE  StreamInv
<1>1. StreamTypeOK
  BY ArgumentAssumption DEF StreamFresh, StreamTypeOK, NoScan
<1> QED BY <1>1, QuietInv DEF Quiet, StreamFresh

\* a step of one query's caller, child or forwarder
LEMMA OwnStepInv ==
  ASSUME StreamInv, NEW q \in Queries,
         \/ \E P \in Prefixes, r \in Directions :
              QueryCall(q, [prefix |-> P, reverse |-> r])
         \/ QueryTimeout(q)
         \/ QueryProcesses(q)
  PROVE  StreamInv'
<1>1. ASSUME NEW P \in Prefixes, NEW r \in Directions,
             QueryCall(q, [prefix |-> P, reverse |-> r])
      PROVE  StreamInv'
  <2>1. [prefix |-> P, reverse |-> r] \in [prefix : SUBSET Keys, reverse : BOOLEAN]
    BY ArgumentAssumption
  <2> QED BY <1>1, <2>1, QueryCallInv
<1> QED BY <1>1, QueryTimeoutInv, SendPoisonInv, ChildStartInv, ChildItemInv, ChildAckInv,
           ChildPoisonInv, ForwarderSendInv, ForwarderEndsInv
        DEF QueryProcesses

LEMMA StreamInduction == ASSUME StreamInv, [StreamNext]_streamVars PROVE StreamInv'
<1>1. CASE Request
  BY <1>1, RequestInv
<1>2. CASE \/ DbDrops \/ DbServes \/ \E ok \in BOOLEAN : DbUpdate(ok) \/ DbDelete(ok)
  BY <1>2, DbTakesInv
<1>3. CASE ScanStart \/ ScanFails \/ ScanHandOff \/ ScanSkip \/ ScanEnd
  BY <1>3, ScanStartInv, ScanFailsInv, ScanHandOffInv, ScanSkipInv, ScanEndInv
<1>4. ASSUME NEW q \in Queries, NEW more \in BOOLEAN, CallbackReturns(q, more), dbox' = dbox
      PROVE  StreamInv'
  <2>1. dbox' \in Seq(DbMessages) /\ \A p \in Queries : NoNewQuery(p)
    BY <1>4, DboxChanges DEF StreamInv, StreamTypeOK
  <2> QED BY <1>4, <2>1, CallbackReturnsInv
<1>5. CASE UNCHANGED streamVars
  <2>1. dbox' \in Seq(DbMessages) /\ \A p \in Queries : NoNewQuery(p)
    BY <1>5, DboxChanges DEF streamVars, StreamInv, StreamTypeOK
  <2> QED BY <1>5, <2>1, OutsideScanInv DEF streamVars, StreamInv, StreamTypeOK
<1> QED BY <1>1, <1>2, <1>3, <1>4, <1>5, OwnStepInv DEF StreamNext, AnyCallback

LEMMA StreamInductive == StreamSpec => []StreamInv
<1>1. StreamInit => StreamInv
  BY FreshInv DEF StreamInit
<1> QED BY <1>1, StreamInduction, PTL DEF StreamSpec

-----------------------------------------------------------------------------
(* What StreamInv says of a callback.                                      *)

LEMMA InOrder == StreamInv => DeliveredInOrder
BY DEF StreamInv, QueryInv, Entries, DeliveredInOrder

LEMMA OvertakesOne == StreamInv => AtMostOneOvertaken
<1> SUFFICES ASSUME StreamInv, NEW q \in Queries, kbox[q] # <<>>,
                    Head(kbox[q]).t = "MsgAckGetData", fwd[q].st # "gone",
                    NEW j \in left[q], NEW k \in left[q]
             PROVE  j = k
  BY DEF AtMostOneOvertaken
<1>1. Has(kbox[q], "MsgAckGetData")
  BY HasTail DEF StreamInv, StreamTypeOK
<1>2. QueryInv(q) /\ child[q].st # "stopped" /\ scan.q # q /\ Rest(q) = {}
  BY <1>1 DEF StreamInv, QueryInv, ChildAlive, OneAfterAnother, Rest
<1>3. fwd[q].st \in {"off", "range", "got", "await", "stuck"}
  BY DEF StreamInv, StreamTypeOK
<1>4. CASE fwd[q].st = "await"
  BY <1>2, <1>4 DEF QueryInv, Unread, Has
<1>5. CASE fwd[q].st # "await"
  BY <1>2, <1>3, <1>5 DEF QueryInv, Unread
<1> QED BY <1>4, <1>5

LEMMA InFlight == StreamInv => OneEntryInFlight
<1> SUFFICES ASSUME StreamInv, NEW q \in Queries
             PROVE  Cardinality({i \in DOMAIN kbox[q] : kbox[q][i].t = "MsgQueryResponse"}) <= 1
  BY DEF OneEntryInFlight
<1>1. Single(kbox[q], "MsgQueryResponse")
  BY DEF StreamInv, QueryInv, Entries
<1> QED BY <1>1, AtMostOne DEF Single

(* The four processes of a query only ever exchange what they should.       *)
THEOREM TypeCorrect == StreamSpec => []StreamTypeOK
BY StreamInductive, PTL DEF StreamInv

(* The callback has the entries of the snapshot in cursor order and none of *)
(* them twice, whatever the caller, the futures and the poison do, and none *)
(* is passed over but one the cursor left after 10 s (repo.go:227): what    *)
(* waits in the child's mailbox is always the first entry it may still get. *)
THEOREM CallbackInOrder == StreamSpec => []DeliveredInOrder
BY StreamInductive, InOrder, PTL

(* The end of the data overtakes at most one entry, for any number of       *)
(* entries and queries and of entries left after 10 s, as long as the       *)
(* forwarder did not give up.                                               *)
THEOREM AckOvertakesOne == StreamSpec => []AtMostOneOvertaken
BY StreamInductive, OvertakesOne, PTL

(* A slow callback never has more than one entry waiting.                   *)
THEOREM FlowControlled == StreamSpec => []OneEntryInFlight
BY StreamInductive, InFlight, PTL
=============================================================================
