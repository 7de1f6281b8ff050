----------------------------- MODULE Collectors -----------------------------
(***************************************************************************)
(* What stands before the store and forward: the status collector          *)
(* (internal/state), the event collector (internal/events) and App         *)
(* (internal/app), which turns what they send it into messages for         *)
(* RemoteActor.                                                            *)
(*                                                                         *)
(* A status is a function from its fields, after ReplaceKeys, to values; a *)
(* nested object is its fields.  Of a value only what OnlyChanges tells    *)
(* apart is kept: a scalar, or a list of strings.  A value it never finds  *)
(* equal (a boolean, a list of objects) behaves as a static one.  Fields   *)
(* keep their kind.  Panics restart an actor with a new object and the     *)
(* mailbox it had, and stop its children; that a supervisor gives up after *)
(* ten restarts in ten seconds is left out.                                *)
(***************************************************************************)
EXTENDS Naturals, Sequences, SequencesExt

CONSTANTS
  Static,         \* fields of keysStatic
  Removed,        \* fields of keysRemove
  Scalars, Lists, \* the other fields, by kind
  Group,          \* the field that StatusActor adds (aD)
  GroupName,      \* its value, once App answers
  Stamped,        \* fields that App writes over (muuid and v)
  Stamp,          \* what it writes
  Values,         \* scalars, and elements of lists
  MaxList,        \* bound on the length of a list
  Nil,
  MaxEvents,      \* bound on events
  MaxBox          \* bound on status messages that wait for App

ASSUME FieldsAssumption ==
  /\ GroupName \in Values
  /\ Group \in Scalars \ Stamped
  /\ Stamped \subseteq Scalars /\ Stamp \in Values
  /\ Static \cap (Removed \cup Scalars \cup Lists) = {}
  /\ Removed \cap (Scalars \cup Lists) = {}
  /\ Scalars \cap Lists = {}
  /\ MaxList \in Nat /\ MaxEvents \in Nat /\ GroupName # Nil

VARIABLES
  lastStatusMsg,  \* of StatusActor
  groupID,        \* of StatusActor
  eventsBox,      \* mailbox of EventsActor: events, numbered, and tickMsg
  events,         \* buffer of EventsActor
  appBox,         \* mailbox of App
  posted,         \* events posted so far
  view,           \* history: what all deltas sent on add up to
  steady,         \* history: fields in every status since StatusActor started
  delivered,      \* history: events sent on
  lost            \* history: events that went with a restart of App

statusVars == <<lastStatusMsg, groupID, steady>>
eventVars  == <<eventsBox, events, posted>>
vars == <<statusVars, eventVars, appBox, view, delivered, lost>>

Fields  == Static \cup Removed \cup Scalars \cup Lists
tickMsg == 0

\* what ReplaceKeys makes of a message of the bus: no nulls, each field at most once
Statuses ==
  LET ListValues == BoundedSeq(Values, MaxList) IN
  UNION { {s \in [D -> Values \cup ListValues] :
             \A k \in D : s[k] \in (IF k \in Lists THEN ListValues ELSE Values)}
        : D \in SUBSET Fields }
ASSUME NilAssumption == Nil \notin Statuses

BusStatuses == {s \in Statuses : Group \notin DOMAIN s}

AppMessages == [type : {"StatusMsg"}, delta : Statuses \cup {Nil}]
                 \cup [type : {"Events"}, batch : Seq(1 .. MaxEvents) \ {<<>>}]

(* Type invariant: App gets no empty batch (events-actor.go:70).           *)
TypeOK ==
  /\ lastStatusMsg \in Statuses \cup {Nil}
  /\ groupID \in {GroupName, Nil}
  /\ eventsBox \in Seq(0 .. MaxEvents) /\ events \in Seq(1 .. MaxEvents)
  /\ appBox \in Seq(AppMessages)
  /\ posted \in 0 .. MaxEvents
  /\ view \in Statuses /\ steady \subseteq Fields
  /\ delivered \in Seq(1 .. MaxEvents) /\ lost \subseteq 1 .. MaxEvents

Init ==
  /\ lastStatusMsg = Nil /\ groupID = Nil /\ steady = {}
  /\ eventsBox = <<>> /\ events = <<>> /\ posted = 0
  /\ appBox = <<>>
  /\ view = <<>> /\ delivered = <<>> /\ lost = {}

-----------------------------------------------------------------------------
(* Status: what is new in a status.                                        *)

\* compareSlice(new, old) ranges over old; it panics where new ends before
SameUpTo(new, old, n) == \A i \in 1 .. n : new[i] = old[i]

CompareSlicePanics(new, old) == Len(new) < Len(old) /\ SameUpTo(new, old, Len(new))

CompareSlice(new, old) == Len(new) >= Len(old) /\ SameUpTo(new, old, Len(old))

\* funcCompare_v2 at a field of the last status does not return nil
Exposed(k, status, last) ==
  /\ k \in DOMAIN status \ Removed
  /\ \/ k \in Static
     \/ k \in Scalars /\ status[k] # last[k]
     \/ k \in Lists /\ (last[k] = <<>> \/ ~CompareSlice(status[k], last[k]))

\* the first status is sent whole; a result without fields is a nil pointer
OnlyChanges(status, last) ==
  IF last = Nil THEN status
  ELSE LET shown == {k \in DOMAIN last : Exposed(k, status, last)}
       IN  IF shown = {} THEN Nil ELSE [k \in shown |-> status[k]]

OnlyChangesPanics(status, last) ==
  /\ last # Nil
  /\ \E k \in Lists \cap DOMAIN status \cap DOMAIN last :
       CompareSlicePanics(status[k], last[k])

\* the group id is asked for until App has answered once
GroupID == IF groupID # Nil THEN {groupID} ELSE {GroupName, Nil}

\* f where it is defined, g elsewhere
Over(f, g) == [k \in DOMAIN f \cup DOMAIN g |-> IF k \in DOMAIN f THEN f[k] ELSE g[k]]

WithGroup(s, id) == IF id = Nil THEN s ELSE Over([k \in {Group} |-> id], s)

StatusSent(delta) == appBox' = Append(appBox, [type |-> "StatusMsg", delta |-> delta])

\* mutant: the first status remains the one that is compared with
OnStatusMsgKeepsFirst(s) ==
  /\ Len(appBox) < MaxBox
  /\ \E id \in GroupID :
       LET status == WithGroup(s, id) IN
         /\ ~OnlyChangesPanics(status, lastStatusMsg)
         /\ StatusSent(OnlyChanges(status, lastStatusMsg))
         /\ lastStatusMsg' = IF lastStatusMsg = Nil THEN status ELSE lastStatusMsg
         /\ groupID' = id
         /\ steady' = IF lastStatusMsg = Nil THEN DOMAIN status ELSE steady \cap DOMAIN status
  /\ UNCHANGED <<eventVars, view, delivered, lost>>

OnStatusMsg(s) ==
  /\ Len(appBox) < MaxBox
  /\ \E id \in GroupID :
       LET status == WithGroup(s, id) IN
         /\ ~OnlyChangesPanics(status, lastStatusMsg)
         /\ StatusSent(OnlyChanges(status, lastStatusMsg))
         /\ lastStatusMsg' = status
         /\ groupID' = id
         /\ steady' = IF lastStatusMsg = Nil THEN DOMAIN status ELSE steady \cap DOMAIN status
  /\ UNCHANGED <<eventVars, view, delivered, lost>>

\* the status is dropped and StatusActor starts anew
StatusActorPanics(s) ==
  /\ OnlyChangesPanics(s, lastStatusMsg)
  /\ lastStatusMsg' = Nil /\ groupID' = Nil /\ steady' = {}
  /\ UNCHANGED <<eventVars, appBox, view, delivered, lost>>

-----------------------------------------------------------------------------
(* Events.                                                                 *)

Post ==
  /\ posted < MaxEvents
  /\ posted' = posted + 1
  /\ eventsBox' = Append(eventsBox, posted + 1)
  /\ UNCHANGED <<statusVars, events, appBox, view, delivered, lost>>

\* a second tick in the mailbox would only find the buffer as the first leaves it;
\* the goroutines of earlier incarnations, which nothing stops, tick as well
Tick ==
  /\ tickMsg \notin ToSet(eventsBox)
  /\ eventsBox' = Append(eventsBox, tickMsg)
  /\ UNCHANGED <<statusVars, events, posted, appBox, view, delivered, lost>>

PutEvent ==
  /\ eventsBox # <<>> /\ Head(eventsBox) # tickMsg
  /\ events' = Append(events, Head(eventsBox))
  /\ eventsBox' = Tail(eventsBox)
  /\ UNCHANGED <<statusVars, posted, appBox, view, delivered, lost>>

TakesTick == eventsBox # <<>> /\ Head(eventsBox) = tickMsg /\ eventsBox' = Tail(eventsBox)

Batch == [type |-> "Events", batch |-> events]

\* mutants: an empty buffer is sent as well; the buffer is not emptied; a single
\* event is not sent
OnTickAlways ==
  /\ TakesTick
  /\ appBox' = Append(appBox, Batch)
  /\ events' = <<>>
  /\ UNCHANGED <<statusVars, posted, view, delivered, lost>>
OnTickKeeps ==
  /\ TakesTick
  /\ appBox' = IF events = <<>> THEN appBox ELSE Append(appBox, Batch)
  /\ UNCHANGED <<events, statusVars, posted, view, delivered, lost>>
OnTickSeveral ==
  /\ TakesTick
  /\ IF Len(events) > 1 THEN appBox' = Append(appBox, Batch) /\ events' = <<>>
                        ELSE UNCHANGED <<appBox, events>>
  /\ UNCHANGED <<statusVars, posted, view, delivered, lost>>

\* getEvents, and the batch to App
OnTick ==
  /\ TakesTick
  /\ appBox' = IF events = <<>> THEN appBox ELSE Append(appBox, Batch)
  /\ events' = <<>>
  /\ UNCHANGED <<statusVars, posted, view, delivered, lost>>

-----------------------------------------------------------------------------
(* App.                                                                    *)

AppTakes(type) == appBox # <<>> /\ Head(appBox).type = type /\ appBox' = Tail(appBox)

\* a field of the bus with the name of one of App's, as "version" has once it is
\* abbreviated, is lost; of the first status App writes into the map StatusActor
\* keeps as well, which changes the comparison of these fields only
Stamps(s) == Over([k \in Stamped |-> Stamp], s)

AppStatusMsg ==
  /\ AppTakes("StatusMsg") /\ Head(appBox).delta # Nil
  /\ view' = Over(Stamps(Head(appBox).delta), view)
  /\ UNCHANGED <<statusVars, eventVars, delivered, lost>>

AppEvents ==
  /\ AppTakes("Events")
  /\ delivered' = delivered \o Head(appBox).batch
  /\ UNCHANGED <<statusVars, eventVars, view, lost>>

\* a nil status: App panics, and its collectors go with their mailboxes and buffers
AppPanics ==
  /\ AppTakes("StatusMsg") /\ Head(appBox).delta = Nil
  /\ lost' = lost \cup ToSet(events) \cup (ToSet(eventsBox) \ {tickMsg})
  /\ lastStatusMsg' = Nil /\ groupID' = Nil /\ steady' = {}
  /\ eventsBox' = <<>> /\ events' = <<>>
  /\ UNCHANGED <<posted, view, delivered>>

EventsStep == PutEvent \/ OnTick
AppStep    == AppStatusMsg \/ AppEvents \/ AppPanics

Next ==
  \/ \E s \in BusStatuses : OnStatusMsg(s) \/ StatusActorPanics(s)
  \/ Post
  \/ Tick
  \/ EventsStep
  \/ AppStep

Spec == Init /\ [][Next]_vars

(* Fairness: the actors and the ticker are scheduled; the bus is not fair. *)
FairSpec == Spec /\ WF_vars(EventsStep) /\ WF_vars(Tick) /\ WF_vars(AppStep)

-----------------------------------------------------------------------------
(* Safety.                                                                 *)

\* messages that wait for App and have field k
Tell(k) == {i \in DOMAIN appBox : /\ appBox[i].type = "StatusMsg" /\ appBox[i].delta # Nil
                                  /\ k \in DOMAIN appBox[i].delta}

\* v is the last value of field k, of a list at least a prefix
Follows(k, v) == IF k \in Lists THEN IsPrefix(v, lastStatusMsg[k]) ELSE v = lastStatusMsg[k]

(* A field that was in every status since StatusActor started, and that App *)
(* does not write itself, is known with its last value, a list at least with*)
(* a prefix of it, whatever panics and restarts came between                *)
(* (status.go:103-117, 250-379; status-actor.go:52; app-actor.go:155-156).  *)
SteadyFieldsFollowed ==
  \A k \in steady \ (Removed \cup Stamped) :
    \/ Tell(k) = {} /\ k \in DOMAIN view /\ Follows(k, view[k])
    \/ \E i \in Tell(k) : (\A j \in Tell(k) : j <= i) /\ Follows(k, appBox[i].delta[k])

\* where events stand, the earliest first
BatchOf(m) == IF m.type = "Events" THEN m.batch ELSE <<>>
Pipeline   == <<delivered>> \o [i \in DOMAIN appBox |-> BatchOf(appBox[i])] \o <<events, eventsBox>>

Precedes(e, f) == e # tickMsg /\ f # tickMsg => e < f

(* Events are sent on in the order they came, each once, and only a restart *)
(* of App loses any (events-actor.go:30-43, 69-73).                         *)
EventsOnce ==
  /\ \A a \in DOMAIN Pipeline : \A i, j \in DOMAIN Pipeline[a] :
       i < j => Precedes(Pipeline[a][i], Pipeline[a][j])
  /\ \A a, b \in DOMAIN Pipeline : \A e \in ToSet(Pipeline[a]), f \in ToSet(Pipeline[b]) :
       a < b => Precedes(e, f)
  /\ LET standing == (UNION {ToSet(Pipeline[a]) : a \in DOMAIN Pipeline}) \ {tickMsg} IN
       standing \cap lost = {} /\ standing \cup lost = 1 .. posted

(* "expose only new values in fields" (status.go:102).  Violated: a field   *)
(* that the last status did not have, such as the group id that App knows   *)
(* only after the first status, is not in the result, and a list that grew  *)
(* is taken for unchanged.                                                  *)
NewValuesAreSent ==
  lastStatusMsg # Nil /\ appBox = <<>> =>
    \A k \in DOMAIN lastStatusMsg \ (Removed \cup Stamped) :
      k \in DOMAIN view /\ view[k] = lastStatusMsg[k]

-----------------------------------------------------------------------------
(* Liveness.                                                               *)

(* Every event that is not lost with a restart is sent on, also when it is  *)
(* the last one for a long time (events-actor.go:78-94).                    *)
EventsForwarded ==
  \A e \in 1 .. MaxEvents :
    posted >= e ~> e \in ToSet(delivered) \cup lost
=============================================================================
