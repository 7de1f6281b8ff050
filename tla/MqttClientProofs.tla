-------------------------- MODULE MqttClientProofs --------------------------
(***************************************************************************)
(* Proofs about MqttClient, for any set of paho clients, also an infinite  *)
(* one, and any number of faults and restarts.                             *)
(***************************************************************************)
EXTENDS MqttClient, FiniteSetTheorems, TLAPS

\* Started is not handled yet
Awaiting == box = <<"Started">>

\* S has at most n elements
Within(S, n) == IsFiniteSet(S) /\ Cardinality(S) <= n
AtMost(n) == Within(LeftBehind, n)

\* the present client is one that reconnectRemote would leave trying
GoesOnTrying == client # Nil /\ link[client] = "trying" /\ wait # "reconnectRemote"

\* Started is the first letter of an incarnation, or none
StartedFirst == Awaiting \/ \A i \in DOMAIN box : box[i] # "Started"

\* inside connect there is a client; its token is complete once it was open
Connecting == wait # "none" => client # Nil /\ (done => link[client] # "trying")

\* what an incarnation has spent of the two clients it may leave behind
Spent ==
  /\ AtMost(1 + 2 * restarts)
  /\ GoesOnTrying => AtMost(2 * restarts)
  /\ Awaiting /\ restarts = 0 => client = Nil /\ LeftBehind = {}
  /\ Awaiting /\ restarts > 0 => AtMost(2 * restarts - 1)
  /\ Awaiting => wait = "none"

Inv == TypeOK /\ StartedFirst /\ Connecting /\ Spent

-----------------------------------------------------------------------------
(* Sets.                                                                   *)

LEMMA FewerWithin ==
  ASSUME NEW S, NEW T, NEW n \in Int, NEW m \in Int, Within(S, n), T \subseteq S, n <= m
  PROVE  Within(T, m)
<1>1. IsFiniteSet(T) /\ Cardinality(T) <= Cardinality(S)
  BY FS_Subset DEF Within
<1>2. Cardinality(T) \in Nat /\ Cardinality(S) \in Nat
  BY <1>1, FS_CardinalityType DEF Within
<1> QED BY <1>1, <1>2 DEF Within

LEMMA OneMoreWithin ==
  ASSUME NEW S, NEW T, NEW x, NEW n \in Int, Within(S, n), T \subseteq S \cup {x}
  PROVE  Within(T, n + 1)
<1>1. IsFiniteSet(S \cup {x})
  BY FS_AddElement DEF Within
<1>2. Cardinality(S \cup {x}) = IF x \in S THEN Cardinality(S) ELSE Cardinality(S) + 1
  BY FS_AddElement DEF Within
<1>3. Cardinality(S) \in Nat
  BY FS_CardinalityType DEF Within
<1>4. Within(S \cup {x}, n + 1)
  BY <1>1, <1>2, <1>3 DEF Within
<1> QED BY <1>4, FewerWithin

LEMMA EmptyWithin == ASSUME NEW n \in Nat PROVE Within({}, n)
BY FS_EmptySet DEF Within

-----------------------------------------------------------------------------
(* Sequences.                                                              *)

LEMMA AppendKeeps ==
  ASSUME NEW S, NEW s \in Seq(S), NEW e \in S
  PROVE  /\ Append(s, e) \in Seq(S) /\ Append(s, e) # <<>>
         /\ Append(s, e)[Len(Append(s, e))] = e
         /\ \A i \in DOMAIN Append(s, e) : Append(s, e)[i] = e \/ \E j \in DOMAIN s : Append(s, e)[i] = s[j]
OBVIOUS

LEMMA TailKeeps ==
  ASSUME NEW S, NEW s \in Seq(S), s # <<>>
  PROVE  /\ Tail(s) \in Seq(S) /\ Head(s) = s[1] /\ 1 \in DOMAIN s
         /\ \A i \in DOMAIN Tail(s) : \E j \in DOMAIN s : Tail(s)[i] = s[j]
OBVIOUS

-----------------------------------------------------------------------------
(* Steps that leave no further client behind.                              *)

LEMMA SpentKept ==
  ASSUME Inv, UNCHANGED <<client, restarts>>, LeftBehind' \subseteq LeftBehind,
         GoesOnTrying' => GoesOnTrying, Awaiting' => Awaiting /\ wait' = "none"
  PROVE  Spent'
<1>1. restarts \in Nat
  BY BoundsAssumption DEF Inv, TypeOK
<1>2. \A n \in Int : AtMost(n) => Within(LeftBehind', n)
  BY FewerWithin DEF AtMost
<1> QED BY <1>1, <1>2 DEF Inv, Spent, AtMost

LEMMA LinksInv ==
  ASSUME Inv, NEW c \in Clients, PahoConnects(c) \/ PahoLoses(c)
  PROVE  Inv'
<1>1. TypeOK'
  BY DEF Inv, TypeOK, PahoConnects, PahoLoses
<1>2. StartedFirst' /\ Connecting'
  BY ClientsAssumption DEF Inv, TypeOK, StartedFirst, Awaiting, Connecting, PahoConnects, PahoLoses
<1>3. LeftBehind' \subseteq LeftBehind
  BY DEF Inv, TypeOK, LeftBehind, PahoConnects, PahoLoses
<1>4. GoesOnTrying' => GoesOnTrying
  BY DEF Inv, TypeOK, GoesOnTrying, PahoConnects, PahoLoses
<1>5. Awaiting' => Awaiting /\ wait' = "none"
  BY DEF Inv, Spent, Awaiting, PahoConnects, PahoLoses
<1>6. Spent'
  BY <1>3, <1>4, <1>5, SpentKept DEF PahoConnects, PahoLoses
<1> QED BY <1>1, <1>2, <1>6 DEF Inv

LEMMA BoxInv ==
  ASSUME Inv, Tick \/ OnMsgTick PROVE Inv'
<1>1. box' \in Seq({"Started", "MsgTick", "reconnectRemote"})
  BY DEF Inv, TypeOK, Tick, OnMsgTick, Takes
<1>2. TypeOK'
  BY <1>1 DEF Inv, TypeOK, Tick, OnMsgTick
<1>3. \A i \in DOMAIN box' : box'[i] # "Started"
  <2>1. ASSUME Tick PROVE \A i \in DOMAIN box' : box'[i] # "Started"
    BY <2>1, AppendKeeps DEF Inv, TypeOK, Tick
  <2>2. ASSUME OnMsgTick PROVE \A i \in DOMAIN box' : box'[i] # "Started"
    <3>1. box # <<>> /\ \A i \in DOMAIN box : box[i] # "Started"
      BY <2>2 DEF Inv, StartedFirst, Awaiting, OnMsgTick, Takes
    <3>2. /\ Tail(box) \in Seq({"Started", "MsgTick", "reconnectRemote"})
          /\ \A i \in DOMAIN Tail(box) : Tail(box)[i] # "Started"
      BY <3>1, TailKeeps DEF Inv, TypeOK
    <3> QED BY <2>2, <3>2, AppendKeeps DEF OnMsgTick
  <2> QED BY <2>1, <2>2
<1>4. ~Awaiting'
  BY <1>3 DEF Awaiting
<1>5. StartedFirst' /\ Connecting'
  BY <1>3 DEF Inv, StartedFirst, Connecting, Tick, OnMsgTick
<1>6. Spent'
  BY <1>4, SpentKept DEF LeftBehind, GoesOnTrying, Tick, OnMsgTick
<1> QED BY <1>2, <1>5, <1>6 DEF Inv

LEMMA OthersInv ==
  ASSUME Inv, TokenExpires \/ ConnectReturns \/ OnMsgReconnect PROVE Inv'
<1>1. TypeOK'
  BY DEF Inv, TypeOK, TokenExpires, ConnectReturns, OnMsgReconnect
<1>2. StartedFirst' /\ Connecting'
  BY DEF Inv, StartedFirst, Awaiting, Connecting, TokenExpires, ConnectReturns, OnMsgReconnect
<1>3. LeftBehind' = LeftBehind
  BY DEF LeftBehind, TokenExpires, ConnectReturns, OnMsgReconnect
<1>4. GoesOnTrying' => GoesOnTrying
  BY DEF Inv, Connecting, GoesOnTrying, TokenExpires, ConnectReturns, OnMsgReconnect
<1>5. Awaiting' => Awaiting /\ wait' = "none"
  BY DEF Inv, Spent, Awaiting, TokenExpires, ConnectReturns, OnMsgReconnect
<1>6. Spent'
  BY <1>3, <1>4, <1>5, SpentKept DEF TokenExpires, ConnectReturns, OnMsgReconnect
<1> QED BY <1>1, <1>2, <1>6 DEF Inv

-----------------------------------------------------------------------------
(* Steps that give a client up.                                            *)

\* the first letter is taken, and no Started is left
LEMMA TakesStarted ==
  ASSUME Inv, NEW t \in {"Started", "reconnectRemote"}, Takes(t), box' = Tail(box)
  PROVE  /\ box' \in Seq({"Started", "MsgTick", "reconnectRemote"})
         /\ \A i \in DOMAIN box' : box'[i] # "Started"
         /\ ~Awaiting'
         /\ Awaiting <=> t = "Started"
<1>1. box' \in Seq({"Started", "MsgTick", "reconnectRemote"})
  BY DEF Inv, TypeOK, Takes
<1>2. box # <<>> /\ Head(box) = t
  BY DEF Takes
<1>3. CASE Awaiting
  <2>1. Tail(<<"Started">>) = <<>> /\ Head(<<"Started">>) = "Started"
    OBVIOUS
  <2> QED BY <1>1, <1>2, <1>3, <2>1 DEF Awaiting
<1>4. CASE \A i \in DOMAIN box : box[i] # "Started"
  <2>1. t # "Started" /\ \A i \in DOMAIN box' : box'[i] # "Started"
    BY <1>2, <1>4, TailKeeps DEF Inv, TypeOK
  <2>2. ~Awaiting /\ ~Awaiting'
    <3>1. <<"Started">>[1] = "Started" /\ 1 \in DOMAIN <<"Started">>
      OBVIOUS
    <3> QED BY <1>4, <2>1, <3>1 DEF Awaiting
  <2> QED BY <1>1, <2>1, <2>2
<1> QED BY <1>3, <1>4 DEF Inv, StartedFirst

\* a new client takes the place of the present one
LEMMA ConnectLeaves ==
  ASSUME Inv, NEW h \in {"Started", "reconnectRemote"}, Connect(h)
  PROVE  /\ LeftBehind' \subseteq LeftBehind \cup {client}
         /\ client = Nil \/ link[client] = "down" => LeftBehind' \subseteq LeftBehind
         /\ client' \in Clients /\ client' # Nil
         /\ link' \in [Clients -> {"down", "trying", "open"}]
         /\ wait' = h /\ done' = FALSE
<1>1. PICK c \in Clients \ {client} : /\ link[c] = "down"
                                      /\ link' = [link EXCEPT ![c] = "trying"]
                                      /\ client' = c
  BY DEF Connect
<1>2. LeftBehind' \subseteq LeftBehind \cup {client}
  BY <1>1 DEF Inv, TypeOK, LeftBehind
<1>3. client = Nil \/ link[client] = "down" => LeftBehind' \subseteq LeftBehind
  BY <1>1, ClientsAssumption DEF Inv, TypeOK, LeftBehind
<1> QED BY <1>1, <1>2, <1>3, ClientsAssumption DEF Inv, TypeOK, Connect

\* an end to the present client leaves none behind
LEMMA DisconnectLeaves ==
  ASSUME Inv, Disconnect, client' = client
  PROVE  /\ LeftBehind' \subseteq LeftBehind
         /\ link' \in [Clients -> {"down", "trying", "open"}]
         /\ client # Nil => link'[client] = "down"
BY DEF Inv, TypeOK, LeftBehind, Disconnect

LEMMA OnStartedInv == ASSUME Inv, OnStarted PROVE Inv'
<1>1. /\ box' \in Seq({"Started", "MsgTick", "reconnectRemote"})
      /\ \A i \in DOMAIN box' : box'[i] # "Started"
      /\ ~Awaiting' /\ Awaiting
  BY TakesStarted DEF OnStarted
<1>2. restarts \in Nat /\ restarts' = restarts /\ note' = note /\ isConnected' = isConnected
  BY BoundsAssumption DEF Inv, TypeOK, OnStarted
<1>3. StartedFirst'
  BY <1>1 DEF StartedFirst
<1>4. CASE TokenSource /\ Connect("Started")
  <2>1. /\ LeftBehind' \subseteq LeftBehind \cup {client}
        /\ client = Nil => LeftBehind' \subseteq LeftBehind
        /\ client' \in Clients /\ client' # Nil
        /\ link' \in [Clients -> {"down", "trying", "open"}]
        /\ wait' = "Started" /\ done' = FALSE
    BY <1>4, ConnectLeaves
  <2>2. TypeOK'
    BY <1>1, <1>2, <1>4, <2>1 DEF Inv, TypeOK, TokenSource
  <2>3. ASSUME restarts = 0 PROVE Spent'
    <3>1. LeftBehind' \subseteq {}
      BY <1>1, <2>1, <2>3 DEF Inv, Spent
    <3>2. Within({}, 0)
      BY EmptyWithin
    <3>3. Within(LeftBehind', 0) /\ Within(LeftBehind', 1)
      BY <3>1, <3>2, FewerWithin
    <3> QED BY <1>1, <1>2, <2>3, <3>3 DEF Spent, AtMost
  <2>4. ASSUME restarts > 0 PROVE Spent'
    <3>1. Within(LeftBehind, 2 * restarts - 1)
      BY <1>1, <2>4 DEF Inv, Spent, AtMost
    <3>2. Within(LeftBehind', (2 * restarts - 1) + 1)
      <4>1. 2 * restarts - 1 \in Int
        BY <1>2
      <4> QED BY <2>1, <3>1, <4>1, OneMoreWithin
    <3>3. Within(LeftBehind', 2 * restarts)
      BY <1>2, <3>2
    <3>4. Within(LeftBehind', 1 + 2 * restarts)
      BY <1>2, <3>3, FewerWithin
    <3> QED BY <1>1, <1>2, <3>3, <3>4 DEF Spent, AtMost
  <2>5. Spent'
    BY <1>2, <2>3, <2>4
  <2> QED BY <1>3, <2>1, <2>2, <2>5 DEF Inv, Connecting
<1>5. CASE NoToken /\ UNCHANGED <<link, client, wait, done>>
  <2>1. TypeOK'
    BY <1>1, <1>2, <1>5, BoundsAssumption DEF Inv, TypeOK, NoToken, Fault
  <2>2. Spent'
    BY <1>1, <1>2, <1>5, SpentKept DEF LeftBehind, GoesOnTrying
  <2> QED BY <1>3, <1>5, <2>1, <2>2 DEF Inv, Connecting
<1> QED BY <1>4, <1>5 DEF OnStarted

LEMMA OnReconnectRemoteInv == ASSUME Inv, OnReconnectRemote PROVE Inv'
<1>1. /\ box' \in Seq({"Started", "MsgTick", "reconnectRemote"})
      /\ \A i \in DOMAIN box' : box'[i] # "Started"
      /\ ~Awaiting'
  BY TakesStarted DEF OnReconnectRemote
<1>2. restarts \in Nat /\ restarts' = restarts /\ UNCHANGED <<note, isConnected>> /\ wait = "none"
  BY BoundsAssumption DEF Inv, TypeOK, OnReconnectRemote, Takes
<1>3. StartedFirst'
  BY <1>1 DEF StartedFirst
<1>4. CASE UNCHANGED <<link, client, tokenSource, wait, done, faults>>
  <2>1. TypeOK'
    BY <1>1, <1>2, <1>4 DEF Inv, TypeOK
  <2>2. Spent'
    BY <1>1, <1>2, <1>4, SpentKept DEF LeftBehind, GoesOnTrying
  <2> QED BY <1>3, <1>4, <2>1, <2>2 DEF Inv, Connecting
<1>5. CASE ~IsConnectionOpen /\ Token /\ Connect("reconnectRemote")
  <2>1. /\ LeftBehind' \subseteq LeftBehind \cup {client}
        /\ client = Nil \/ link[client] = "down" => LeftBehind' \subseteq LeftBehind
        /\ client' \in Clients /\ client' # Nil
        /\ link' \in [Clients -> {"down", "trying", "open"}]
        /\ wait' = "reconnectRemote" /\ done' = FALSE
    BY <1>5, ConnectLeaves
  <2>2. TypeOK'
    BY <1>1, <1>2, <1>5, <2>1 DEF Inv, TypeOK, Token, TokenSource
  <2>3. ASSUME GoesOnTrying PROVE Within(LeftBehind', 1 + 2 * restarts)
    <3>1. Within(LeftBehind, 2 * restarts)
      BY <2>3 DEF Inv, Spent, AtMost
    <3>2. Within(LeftBehind', 2 * restarts + 1)
      <4>1. 2 * restarts \in Int
        BY <1>2
      <4> QED BY <2>1, <3>1, <4>1, OneMoreWithin
    <3> QED BY <1>2, <3>2
  <2>4. ASSUME ~GoesOnTrying PROVE Within(LeftBehind', 1 + 2 * restarts)
    <3>1. LeftBehind' \subseteq LeftBehind
      BY <1>2, <1>5, <2>1, <2>4 DEF Inv, TypeOK, GoesOnTrying, IsConnectionOpen
    <3>2. Within(LeftBehind, 1 + 2 * restarts)
      BY DEF Inv, Spent, AtMost
    <3> QED BY <1>2, <3>1, <3>2, FewerWithin
  <2>5. Within(LeftBehind', 1 + 2 * restarts)
    BY <1>2, <2>3, <2>4
  <2>6. Spent'
    BY <1>1, <1>2, <2>1, <2>5 DEF Spent, AtMost, GoesOnTrying
  <2> QED BY <1>3, <2>1, <2>2, <2>6 DEF Inv, Connecting
<1>6. CASE ~IsConnectionOpen /\ NoToken /\ Disconnect /\ UNCHANGED <<client, wait, done>>
  <2>1. /\ LeftBehind' \subseteq LeftBehind
        /\ link' \in [Clients -> {"down", "trying", "open"}]
        /\ client # Nil => link'[client] = "down"
    BY <1>6, DisconnectLeaves
  <2>2. TypeOK'
    BY <1>1, <1>2, <1>6, <2>1, BoundsAssumption DEF Inv, TypeOK, NoToken, Fault
  <2>3. Spent'
    BY <1>1, <1>2, <1>6, <2>1, SpentKept DEF GoesOnTrying
  <2> QED BY <1>2, <1>3, <1>6, <2>2, <2>3 DEF Inv, Connecting
<1> QED BY <1>4, <1>5, <1>6 DEF OnReconnectRemote

LEMMA ConnectTimesOutInv == ASSUME Inv, ConnectTimesOut PROVE Inv'
<1>1. ~Awaiting /\ ~Awaiting' /\ StartedFirst'
  BY DEF Inv, Spent, Awaiting, StartedFirst, ConnectTimesOut
<1>2. /\ LeftBehind' \subseteq LeftBehind
      /\ link' \in [Clients -> {"down", "trying", "open"}]
      /\ GoesOnTrying' => GoesOnTrying
  <2>1. CASE wait = "reconnectRemote"
    BY <2>1, DisconnectLeaves DEF ConnectTimesOut, GoesOnTrying
  <2>2. CASE wait # "reconnectRemote"
    BY <2>2 DEF Inv, TypeOK, ConnectTimesOut, GoesOnTrying, LeftBehind
  <2> QED BY <2>1, <2>2
<1>3. TypeOK'
  BY <1>2, BoundsAssumption DEF Inv, TypeOK, ConnectTimesOut, Fault
<1>4. Spent'
  BY <1>1, <1>2, SpentKept DEF ConnectTimesOut
<1> QED BY <1>1, <1>3, <1>4 DEF Inv, Connecting, ConnectTimesOut

LEMMA RestartInv == ASSUME Inv, Restart PROVE Inv'
<1>1. TypeOK'
  <2>1. restarts' \in 0 .. MaxRestarts
    BY BoundsAssumption DEF Inv, TypeOK, Restart
  <2>2. note' \in BOOLEAN
    BY DEF Inv, TypeOK, Restart
  <2>3. box' \in Seq({"Started", "MsgTick", "reconnectRemote"})
    BY DEF Restart
  <2> QED BY <2>1, <2>2, <2>3 DEF Inv, TypeOK, Restart
<1>2. StartedFirst' /\ Connecting'
  BY DEF StartedFirst, Awaiting, Connecting, Restart
<1>3. restarts \in Nat /\ restarts' = restarts + 1 /\ LeftBehind' = LeftBehind /\ wait' = "none"
  BY BoundsAssumption DEF Inv, TypeOK, LeftBehind, Restart
<1>4. Within(LeftBehind', 2 * restarts' - 1)
  <2>1. Within(LeftBehind, 1 + 2 * restarts) /\ 2 * restarts' - 1 = 1 + 2 * restarts
    BY <1>3 DEF Inv, Spent, AtMost
  <2> QED BY <1>3, <2>1
<1>5. Within(LeftBehind', 2 * restarts') /\ Within(LeftBehind', 1 + 2 * restarts')
  BY <1>3, <1>4, FewerWithin
<1>6. Spent'
  BY <1>3, <1>4, <1>5 DEF Spent, AtMost
<1> QED BY <1>1, <1>2, <1>6 DEF Inv

-----------------------------------------------------------------------------

LEMMA InitInv == Init => Inv
<1> SUFFICES ASSUME Init PROVE Inv
  OBVIOUS
<1>1. LeftBehind = {} /\ ~GoesOnTrying
  BY DEF Init, LeftBehind, GoesOnTrying
<1>2. Within({}, 0) /\ Within({}, 1)
  BY EmptyWithin
<1>3. Spent
  BY <1>1, <1>2 DEF Init, Spent, AtMost
<1>4. TypeOK
  <2>1. /\ link \in [Clients -> {"down", "trying", "open"}]
        /\ client \in Clients \cup {Nil} /\ tokenSource \in {"good", "stale", Nil}
        /\ wait \in {"none", "Started", "reconnectRemote"}
    BY DEF Init
  <2>2. box \in Seq({"Started", "MsgTick", "reconnectRemote"})
    BY DEF Init
  <2>3. faults \in 0 .. MaxFaults /\ restarts \in 0 .. MaxRestarts
    BY BoundsAssumption DEF Init
  <2>4. done \in BOOLEAN /\ note \in BOOLEAN /\ isConnected \in BOOLEAN
    BY DEF Init
  <2> QED BY <2>1, <2>2, <2>3, <2>4 DEF TypeOK
<1> QED BY <1>3, <1>4 DEF Init, Inv, StartedFirst, Awaiting, Connecting

LEMMA NextInv == Inv /\ [Next]_vars => Inv'
<1> SUFFICES ASSUME Inv, [Next]_vars PROVE Inv'
  OBVIOUS
<1>1. CASE UNCHANGED vars
  BY <1>1 DEF vars, Inv, TypeOK, StartedFirst, Awaiting, Connecting, Spent, AtMost, LeftBehind,
              GoesOnTrying
<1>2. CASE \E c \in Clients : PahoConnects(c) \/ PahoLoses(c)
  BY <1>2, LinksInv
<1>3. CASE ActorStep
  BY <1>3, OnStartedInv, OnReconnectRemoteInv, BoxInv, OthersInv DEF ActorStep
<1> QED BY <1>1, <1>2, <1>3, BoxInv, OthersInv, ConnectTimesOutInv, RestartInv DEF Next

THEOREM AlwaysInv == Spec => []Inv
BY InitInv, NextInv, PTL DEF Spec

(* The actor, its paho clients and its parent keep their types              *)
(* (remote-actor.go:33-44).                                                 *)
THEOREM TypeCorrect == Spec => []TypeOK
<1>1. Inv => TypeOK
  BY DEF Inv
<1> QED BY <1>1, AlwaysInv, PTL

(* However often connections fail, tokens are refused and clients give up,  *)
(* what is left behind at the broker is bounded by the number of restarts,  *)
(* two clients each, and is finite (remote-actor.go:100-114, 167-170).      *)
THEOREM FewLeftBehind == Spec => []LeftBehindBounded
<1>1. Inv => LeftBehindBounded
  BY DEF Inv, Spent, AtMost, Within, LeftBehindBounded
<1> QED BY <1>1, AlwaysInv, PTL
=============================================================================
