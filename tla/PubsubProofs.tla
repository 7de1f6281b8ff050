---------------------------- MODULE PubsubProofs ----------------------------
(***************************************************************************)
(* Proofs about Pubsub, for any collectors, clients and number of faults.  *)
(***************************************************************************)
EXTENDS Pubsub, FiniteSetTheorems, TLAPS

Up == {c \in Clients : link[c] = "up"}

\* the broker keeps one connection
OneUp == \A c, d \in Up : c = d

\* a client there is since the first connect; an intact one is connected
ClientHeld ==
  /\ pc # "starting" => client \in Clients
  /\ intact => client \in Clients /\ link[client] = "up"

Covered(x) ==
  x \in asked[client] \cup topics[client] \/ collector[x] \in {"stored", "checked"}

\* NoSubscriberMissed, while Started still ranges over the map
NoneForgotten ==
  /\ pc = "subscribing" /\ intact => \A x \in subscriptions : x \in todo \/ Covered(x)
  /\ pc = "running" /\ intact => \A x \in subscriptions : Covered(x)

\* TypeOK, with the last fact about links in another form
Typed ==
  /\ pc \in {"starting", "connecting", "subscribing", "running"}
  /\ client \in Clients \cup {Nil}
  /\ subscriptions \subseteq Collectors /\ todo \subseteq subscriptions
  /\ link \in [Clients -> {"down", "connecting", "up", "reconnecting"}]
  /\ asked \in [Clients -> SUBSET Collectors] /\ topics \in [Clients -> SUBSET Collectors]
  /\ collector \in [Collectors -> {"none", "starting", "stored", "checked", "failed", "accepted"}]
  /\ intact \in BOOLEAN /\ dead \in BOOLEAN /\ faults \in 0 .. MaxFaults
  /\ OneUp
  /\ pc \in {"subscribing", "running"} => link[client] \notin Down

Inv == Typed /\ ClientHeld /\ NoneForgotten

-----------------------------------------------------------------------------

(* A set any two elements of which are equal has at most one.               *)
LEMMA AtMostOne ==
  ASSUME NEW S, \A c, d \in S : c = d
  PROVE  Cardinality(S) <= 1
<1>1. CASE S = {}
  BY <1>1, FS_EmptySet
<1>2. CASE S # {}
  <2>1. PICK c \in S : TRUE
    BY <1>2
  <2>2. S = {c}
    BY <2>1
  <2>3. Cardinality(S) = 1
    BY <2>2, FS_Singleton
  <2> QED BY <2>3
<1> QED BY <1>1, <1>2

LEMMA InvImplies == Inv => TypeOK /\ NoSubscriberMissed
<1> SUFFICES ASSUME Inv PROVE TypeOK /\ NoSubscriberMissed
  OBVIOUS
<1>1. Cardinality({c \in Clients : link[c] = "up"}) <= 1
  BY AtMostOne DEF Inv, Typed, OneUp, Up
<1>2. TypeOK
  BY <1>1 DEF Inv, Typed, TypeOK
<1> QED BY <1>2 DEF Inv, NoneForgotten, Covered, NoSubscriberMissed

LEMMA InitInv == Init => Inv
<1> SUFFICES ASSUME Init PROVE Inv
  OBVIOUS
<1>1. OneUp /\ faults \in 0 .. MaxFaults
  BY PubsubAssumption DEF Init, OneUp, Up
<1>2. Typed
  BY <1>1 DEF Init, Typed
<1>3. ClientHeld /\ NoneForgotten
  BY DEF Init, ClientHeld, NoneForgotten
<1> QED BY <1>2, <1>3 DEF Inv

LEMMA ComesUpInv ==
  ASSUME Inv, NEW c \in Clients, link[c] \in {"connecting", "reconnecting"}, ComesUp(c),
         UNCHANGED <<pc, client, subscriptions, todo, collector, dead, faults>>
  PROVE  Inv'
<1> USE PubsubAssumption
<1>1. Typed'
  BY DEF Inv, Typed, OneUp, Up, ClientHeld, ComesUp, Down
<1>2. ClientHeld'
  BY DEF Inv, Typed, ClientHeld, ComesUp, Down
<1>3. NoneForgotten'
  BY DEF Inv, Typed, ClientHeld, NoneForgotten, ComesUp, Down
<1> QED BY <1>1, <1>2, <1>3 DEF Inv

LEMMA LinkInv ==
  ASSUME Inv, NEW c \in Clients, Connected(c) \/ Refused(c) \/ Loses(c) \/ Reconnects(c)
  PROVE  Inv'
<1> USE PubsubAssumption
<1>1. CASE Connected(c)
  BY <1>1, ComesUpInv DEF Connected
<1>2. CASE Reconnects(c)
  BY <1>2, ComesUpInv DEF Reconnects
<1>3. CASE Refused(c)
  BY <1>3 DEF Inv, Typed, OneUp, Up, ClientHeld, NoneForgotten, Covered, Down, Refused, Fault
<1>4. CASE Loses(c)
  <2>1. intact' \in BOOLEAN /\ (intact' => intact /\ c # client)
    BY <1>4 DEF Inv, Typed, Loses
  <2>2. Typed'
    BY <1>4, <2>1 DEF Inv, Typed, OneUp, Up, ClientHeld, Down, Loses, Fault
  <2>3. ClientHeld'
    BY <1>4, <2>1 DEF Inv, Typed, ClientHeld, Loses, Fault
  <2>4. NoneForgotten'
    BY <1>4, <2>1 DEF Inv, Typed, ClientHeld, NoneForgotten, Covered, Down, Loses, Fault
  <2> QED BY <2>2, <2>3, <2>4 DEF Inv
<1> QED BY <1>1, <1>2, <1>3, <1>4

LEMMA BrokerInv ==
  ASSUME Inv, NEW c \in Clients, NEW x \in Collectors, Grants(c, x) \/ Refuses(c, x)
  PROVE  Inv'
<1> USE PubsubAssumption
<1>1. CASE Grants(c, x)
  BY <1>1 DEF Inv, Typed, OneUp, Up, ClientHeld, NoneForgotten, Covered, Down, Grants
<1>2. CASE Refuses(c, x)
  <2>1. intact' \in BOOLEAN /\ (intact' => intact /\ c # client)
    BY <1>2 DEF Inv, Typed, Refuses
  <2>2. Typed'
    BY <1>2, <2>1 DEF Inv, Typed, OneUp, Up, ClientHeld, Down, Refuses, Fault
  <2>3. ClientHeld'
    BY <1>2, <2>1 DEF Inv, Typed, ClientHeld, Refuses, Fault
  <2>4. NoneForgotten'
    BY <1>2, <2>1 DEF Inv, Typed, ClientHeld, NoneForgotten, Covered, Down, Refuses, Fault
  <2> QED BY <2>2, <2>3, <2>4 DEF Inv
<1> QED BY <1>1, <1>2

LEMMA ActorStepInv == ASSUME Inv, ActorStep PROVE Inv'
<1> USE PubsubAssumption
<1>1. CASE OnStarted
  <2>1. New \in Clients /\ link[New] = "down"
    BY <1>1 DEF OnStarted, New
  <2> QED BY <1>1, <2>1 DEF Inv, Typed, OneUp, Up, ClientHeld, NoneForgotten, Down, OnStarted
<1>2. CASE ConnectReturns
  BY <1>2 DEF Inv, Typed, OneUp, Up, ClientHeld, NoneForgotten, Covered, Down, ConnectReturns
<1>3. CASE ConnectFails
  BY <1>3 DEF Inv, Typed, OneUp, Up, ClientHeld, NoneForgotten, Down, ConnectFails, Fault
<1>4. CASE StartedReturns
  BY <1>4 DEF Inv, Typed, OneUp, Up, ClientHeld, NoneForgotten, Covered, Down, StartedReturns
<1>5. ASSUME NEW x \in Collectors, SubscribesAgain(x) PROVE Inv'
  <2>1. \/ asked' = [asked EXCEPT ![client] = @ \cup {x}] /\ intact' = intact /\ client \in Clients
        \/ intact' = FALSE /\ asked' = asked
    BY <1>5 DEF Inv, Typed, SubscribesAgain, subscribe
  <2>2. Typed'
    <3>1. intact' \in BOOLEAN
      BY <2>1 DEF Inv, Typed
    <3>2. asked' \in [Clients -> SUBSET Collectors]
      <4>1. asked \in [Clients -> SUBSET Collectors]
        BY DEF Inv, Typed
      <4>2. client \in Clients => asked[client] \cup {x} \in SUBSET Collectors
        BY <4>1
      <4> QED BY <2>1, <4>1, <4>2
    <3> QED BY <1>5, <3>1, <3>2 DEF Inv, Typed, OneUp, Up, SubscribesAgain
  <2>3. ClientHeld'
    BY <1>5, <2>1 DEF Inv, Typed, ClientHeld, SubscribesAgain
  <2>4. NoneForgotten'
    BY <1>5, <2>1 DEF Inv, Typed, ClientHeld, NoneForgotten, Covered, Down, SubscribesAgain
  <2> QED BY <2>2, <2>3, <2>4 DEF Inv
<1> QED BY <1>1, <1>2, <1>3, <1>4, <1>5 DEF ActorStep

LEMMA SubscribesInv == ASSUME Inv, NEW x \in Collectors, Subscribes(x) PROVE Inv'
<1> USE PubsubAssumption
<1>1. CASE Store(x)
  BY <1>1 DEF Inv, Typed, OneUp, Up, ClientHeld, NoneForgotten, Covered, Down, Store
<1>2. CASE Check(x)
  BY <1>2 DEF Inv, Typed, OneUp, Up, ClientHeld, NoneForgotten, Covered, Down, Check
<1>3. CASE Call(x)
  <2>1. \/ asked' = [asked EXCEPT ![client] = @ \cup {x}] /\ intact' = intact /\ client \in Clients
        \/ intact' = FALSE /\ asked' = asked
    BY <1>3 DEF Inv, Typed, Call, subscribe
  <2>2. Typed'
    <3>1. intact' \in BOOLEAN
      BY <2>1 DEF Inv, Typed
    <3>2. asked' \in [Clients -> SUBSET Collectors]
      <4>1. asked \in [Clients -> SUBSET Collectors]
        BY DEF Inv, Typed
      <4>2. client \in Clients => asked[client] \cup {x} \in SUBSET Collectors
        BY <4>1
      <4> QED BY <2>1, <4>1, <4>2
    <3> QED BY <1>3, <3>1, <3>2 DEF Inv, Typed, OneUp, Up, Call
  <2>3. ClientHeld'
    BY <1>3, <2>1 DEF Inv, Typed, ClientHeld, Call
  <2>4. NoneForgotten'
    BY <1>3, <2>1 DEF Inv, Typed, ClientHeld, NoneForgotten, Covered, Down, Call
  <2> QED BY <2>2, <2>3, <2>4 DEF Inv
<1>4. CASE Panics(x)
  BY <1>4 DEF Inv, Typed, OneUp, Up, ClientHeld, NoneForgotten, Covered, Down, Panics
<1> QED BY <1>1, <1>2, <1>3, <1>4 DEF Subscribes

LEMMA AppInv ==
  ASSUME Inv, AppStarts \/ \E x \in Collectors : Restarts(x)
  PROVE  Inv'
<1>1. CASE AppStarts
  BY <1>1 DEF Inv, Typed, OneUp, Up, ClientHeld, NoneForgotten, Covered, Down, AppStarts
<1>2. ASSUME NEW x \in Collectors, Restarts(x) PROVE Inv'
  BY <1>2 DEF Inv, Typed, OneUp, Up, ClientHeld, NoneForgotten, Covered, Down, Restarts
<1> QED BY <1>1, <1>2

LEMMA NextInv == ASSUME Inv, [Next]_vars PROVE Inv'
<1>1. CASE UNCHANGED vars
  BY <1>1 DEF Inv, Typed, OneUp, Up, ClientHeld, NoneForgotten, Covered, Down, vars
<1>2. CASE Next
  BY <1>2, LinkInv, BrokerInv, ActorStepInv, SubscribesInv, AppInv DEF Next, Environment
<1> QED BY <1>1, <1>2

LEMMA AlwaysInv == Spec => []Inv
<1> QED BY InitInv, NextInv, PTL DEF Spec

-----------------------------------------------------------------------------

(* Every variable keeps its type, the broker holds one connection at most,  *)
(* and pubsub-actor is past its connect only with a client that was         *)
(* connected (pubsub.go:31-38, 115-131).                                    *)
THEOREM TypeCorrect == Spec => []TypeOK
BY AlwaysInv, InvImplies, PTL

(* However the connects, the collectors' own goroutines, their restarts and *)
(* the broker interleave, whoever is in the map was asked for once Started  *)
(* is done and nothing went wrong since (pubsub.go:87-143).                 *)
THEOREM SubscribersNeverMissed == Spec => []NoSubscriberMissed
BY AlwaysInv, InvImplies, PTL
=============================================================================
