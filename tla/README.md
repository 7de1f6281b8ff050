# A TLA+ model of go-gwiot

go-gwiot is a gateway: it collects status and event messages from a local MQTT
bus, wraps them, and sends them to a remote MQTT broker. What cannot be sent is
kept in a bbolt file and replayed later. The program is a set of actors
(protoactor-go) and a few goroutines; its own logic is the store-and-forward of
`internal/remote` on top of the database actor of `internal/database`, and that
is where the model starts.

Paths below are relative to `src/`. Line numbers of the modules' comments are
those of the file they name.

## 1. Inventory

| component | state it keeps | operations | talks to |
|---|---|---|---|
| **store and forward**, `internal/remote/remote-actor.go` | `isConnected`, `retryFlag`, `isDatabaseOpen`, `retryDays`, `disableReplay`, the pid of the client | `RemoteMSG2` (send, else store), `MsgReconnect`, `verifyReplay` (walk the store and send), `verifyRetry`, the callback of the replay, three tickers | the client actor with 5 s futures; the database service; the App sends it `RemoteMSG2` |
| **database actor**, `internal/database/actor.go`, `fsm.go` | the bbolt handle, the machine sInit/sOpen/sWait/sClose/sRestart, the behaviour CloseState/WaitState | open, close, insert, update, delete, get, search, query; messages to itself | any client through futures; one forwarder goroutine per query |
| **database service**, `service.go` | none; a child actor per `Query` | Open, Close, Insert, Update, UpdateAsync, Delete, DeleteWithoutResponse, Get, Search, Query | the database actor |
| **transactions**, `repo.go` | the buckets of the file | PersistData, GetData, RemoveData, QueryData (cursor over a channel), SearchCollections, Last | bbolt |
| **MQTT client**, `internal/remote-mqtt` | the paho client, the token source | connect on start, `MsgTick`, `reconnectRemote`, `MsgSendData` | broker; `MsgReconnect` to its parent, RemoteActor |
| **App**, `internal/app` | `pidRemote`, `pidKeycloak`, `snDev` | wraps `StatusMsg` and `Events` into `RemoteMSG2`, respawns the remote actor, answers group-id requests | all the actors below it |
| **event collector**, `internal/events` | a buffer with a mutex, a tick goroutine | append, flush every 5 s | bus, App |
| **status collector**, `internal/state` | the last status, the group id | rename keys, keep only what changed (`OnlyChanges`) | bus, App |
| **local bus**, `internal/pubsub` | a map of subscriptions, the paho client | Subscribe, reconnect and resubscribe when started, Publish (unused) | local broker; StatusActor and EventsActor call Subscribe |
| **token actor**, `internal/keyc` | the server's configuration, the token source | TokenRequest, GroupIDRequest | Keycloak; asked by App and the NATS remote |
| **NATS remote**, `internal/remote-natsio` | the connection, the token, `lastReconnect` | connect, `reconnectRemote`, `RemoteMSG2` with up to ten attempts, a ticker | App and the token actor with 6 s futures; the NATS server. Its flag is commented out (`main/main.go:46`), so the shipped program takes the MQTT one |
| **main, utils, env, messages, `_schsvc_`** | flags, host name, generated code, a table, a stub outside the build | - | - |

What is hard in this code:

* **Four processes share a query.** The caller of `svc.Query`, the child actor
  that runs the callback, the database actor inside `db.View` and the forwarder
  goroutine meet over an unbuffered channel, three futures with different
  timeouts (30 s for the call, 3 s for the forwarder, 5 s for the callback) and
  the 10 s after which the cursor leaves an entry nobody received
  (`repo.go:183,197,213,227`). Each may give up alone.
* **An entry can be skipped without an error.** After those 10 s the cursor goes
  on, and the end of the scan is told as if it had been complete.
* **The callback outlives its call.** After a timeout RemoteActor goes on
  (and may start another replay) while the old callback still sends and deletes.
* **The machine and the behaviour change in different messages**, with clients'
  messages in between, and `CloseState` drops what it does not know.
* **Unawaited writes.** `UpdateAsync` and `DeleteWithoutResponse` have no
  answer; only mailbox order relates them.
* **Crashes** between a publication and the delete of the entry.
* **Chains of futures.** StatusActor waits for App, which waits for the token
  actor, which may be 30 s in an HTTP call; the remote waits for both. Each
  timeout leaves its request where it is.
* **Clients and connections that were given up come back**: paho's after a
  connect that timed out, nats' after a loss, beside the one that replaced them.

What makes each component correct:

* query: entries arrive in cursor order, none twice, one at a time, and none
  skipped but those whose 10 s ran out; the end of the data overtakes at most one;
  the scan always lets the database actor go; the call returns; the child stops;
* database actor: it runs transactions only on an open file, always has the
  message that wakes it, comes to serve, and implements the service of atomic
  requests;
* store and forward: nothing leaves the store unless it was published (or
  archived, or unreadable), nothing disappears unaccounted, the store drains
  once the client is known to be connected;
* MQTT client: it is connected in the end, its parent comes to know, and clients
  that are given up do not pile up at the broker;
* NATS remote: what counts as sent is stored, and before anything later; copies
  of a message are bounded; it connects again;
* token actor and App: nobody waits for good, the group is learned;
* local bus: who subscribed is subscribed, as long as the link lasts;
* collectors: every event is in one batch, in order; the deltas of `OnlyChanges`
  add up to the status.

The hazards, each at its line, are in `PROJECT.json`.

## 2. Modules

```
Repo  <--  DbService (abstract)          QueryStream  <--  Remote
  ^            ^ refinement                   ^               ^
  +------- DbActor  <-- MCDbActor        MCQueryStream     MCRemote

                                         MqttClient <-- MCMqttClient
                                         Collectors <-- MCCollectors
Keycloak  <--  Nats  <-- MCNats          Pubsub     <-- MCPubsub
```

The proofs about a module stand beside it: `DbActorProofs`, extended by
`DbServiceProofs` (the refinement); `QueryStreamProofs`, extended by
`RemoteProofs`; `MqttClientProofs`, `CollectorsProofs`, `NatsProofs` (with what
it needs of Keycloak) and `PubsubProofs`.

MqttClient and Collectors stand at the two ends of Remote and share no state
with it but messages: what reaches RemoteActor from `MqttClient` is the action
`Reconnect` of Remote, what reaches it from `Collectors` is `Arrive`. Pubsub is
what stands before Collectors: its collectors are subscribed when they get
statuses and events. Keycloak is the group id of Collectors in detail, and with
Nats the other remote the program was written for.

**Repo** - the transactions of `repo.go` on one collection, as functions from
contents to contents and answer. An insert refuses an existing id; a delete is
an error without the bucket and not without the id; a get is never an error.

**DbService** - what a client of `svc` may rely on. Requests are issued, take
effect at most once and atomically, are answered, forgotten, expire. An error
means no effect. A restart leaves exactly what took effect.

**DbActor** - `actor.go` and `fsm.go` without the streaming query.

| variable | code |
|---|---|
| `box` | the mailbox; letters from a request carry its identity, those the actor sends itself carry `Nobody` |
| `state`, `behavior` | `a.fsm.Current()`; which of `CloseState` / `WaitState` is on the behaviour stack |
| `handle` | `a.db`: nil, open, or closed and not nil |
| `opening`, `asker` | the actor is inside `bbolt.Open`, called while handling that request |
| `locked` | another process holds the lock of the file |
| `contents`, `call`, `issued`, `answer` | the bucket, what each request asks, the future of each |

Each message of each behaviour is an action. Opening is two steps because
`bbolt.Open` may block for ever; everything else in a handler, the transitions
of the machine and their callbacks included, is one step. `Crash` restarts the
process on the same file. `Status` of the abstract service is computed from the
mailbox (`RequestStatus`), which is the refinement mapping.

**QueryStream** - `svc.Query` end to end. `caller`, `child` + `kbox`, `scan` +
`dbox` and `fwd` are the four processes; `left` is a history variable: the
entries of the scan the callback may still get. The `select` of `QueryData` is
three actions: a channel send is a rendezvous (`ScanHandOff`), closing `stop` is
the forwarder being `"gone"`, which lets the scan end (`ScanEnd`), and
`time.After(10 * time.Second)` leaves the entry and goes on with the next
(`ScanSkip`), so a scan also ends by skipping all that is left. `ScanSkip` is
possible whatever the forwarder does, without a timing argument: a forwarder that
lives receives or closes `stop` 3 s after it sent, so the 10 s run out only if the
process stalls for longer than the difference or, when the forwarder is gone,
`select` takes the timer of two cases that are ready. Closing `data` is the scan
being over. `ScanFails` is `db.View` failing before it runs `QueryData`:
`MsgNoAckGetData` answers the caller with the error, and since `data` is never
closed the forwarder is `"stuck"` in its range for the rest of the process. The
errors of bbolt that the machine takes for `eError` can not come while the actor
serves (`ServingMeansOpen` of DbActor). A message to a stopped actor is a dead
letter, and a future on it fails at once. The database actor also takes updates and deletes,
between scans only. Queries are identities that are used again once nothing of
an older call is running (`Free`).

**Remote** - `RemoteActor` composed with QueryStream: it EXTENDS it and adds
its own mailbox, what it waits for (`pc`, `cur`), its fields, the state of the
callback of each query (`count`, `calling`), the mailbox of the client actor
(`cbox`) and the history of what was published, refused, dropped, not archived.
Steps of RemoteActor are blocked while it is inside `svc.Query`
(`Idle`); the callbacks are not. The client is external: it publishes or not,
and answers or is late; "not acknowledged but published" is possible
(`client-mqtt.go:89`). Messages are named by the id under which they are or
would be stored, which grows with the clock. Here `RemoteScanSkip` and
`RemoteScanFails` count as faults, the first only while the forwarder lives.
`Reconnect`, the client's `MsgReconnect`, may come or not: `MqttClientLate` shows
that it may never be sent, and the liveness properties name it as a hypothesis.

**MqttClient** - the client actor of `internal/remote-mqtt`. `link` is what each
paho client does (`"trying"` covers paho's own retries, which never end), `box`
the mailbox, `wait`/`done` the handler that is inside `connect` and the token it
waits for, `note`/`isConnected` what the parent has been or will be told. A
handler that calls `connect` is two steps, because paho goes on meanwhile:
`OnStarted` or `OnReconnectRemote`, then `ConnectReturns` or `ConnectTimesOut`.
The producers of `main.go:83-94` return the same objects for every incarnation,
so `Restart` keeps `client` and the parent's `isConnected`; the mailbox is new.

**Collectors** - `internal/state`, `internal/events` and the part of App that
turns their messages into `RemoteMSG2`. `lastStatusMsg`, `groupID`, `events` are
fields; `eventsBox` and `appBox` mailboxes; `view` and `delivered` are history:
what the deltas App sent on add up to, and the events it sent on; `Pipeline` lines up
the places an event goes through. App writes `muuid` and `v` into each status it
sends on (`app-actor.go:155-156`), over a field of the bus that `status.go:36`
abbreviates to `v`: `Stamps`, for the fields in `Stamped`, which the properties
about following a field leave out. StatusActor keeps the very map App writes to
as its first `lastStatusMsg`; that changes only how these fields compare. A status is a
partial function, because what `OnlyChanges` gets wrong is in the domains; a
list is a sequence, because what `compareSlice` gets wrong is in the lengths. A
status is handled in the step in which it comes, since losing it before that is
the same as the bus not sending it. `StatusActorPanics` is the index out of
range of `compareSlice`, `AppPanics` the nil pointer of `app-actor.go:148`: a
status without static fields in which nothing changed.

**Keycloak** - the token actor, App as far as it serves it, and StatusActor as
far as it asks. `abox` and `kbox` are mailboxes, `forward` is App inside its
handler, `serving` the token actor inside its own, `future` what each caller
holds. A future that expires disowns its request wherever it stands
(`Disown`), and what is answered to it is lost. `TokenFromLogin` answers with a
nil token, because the code sends the variable of the attempt before the login;
`GroupFails` may leave no source, because the code assigns the result of a login
that failed.

**Nats** - the remote actor of `remote-natsio`; it EXTENDS Keycloak, whose
`future["Remote"]` it waits on inside `connect`. `pc` is where its handler is,
`link` is what the connections do, the present one and those that were
replaced while lost, `age` is the time since `lastReconnect` in the
intervals the code compares it with. `flight` holds the copies that were published
and are not at the server: in the socket of an open connection, in the buffer of a
lost one, or adrift, when the socket they were in was lost or closed. Publishing
(`Publish`) only puts a copy there; it is stored (`Stores`) at any later time,
also after `sendMSG` gave up and closed the connection (`Close`, which recalls
nothing from a socket), or it is lost, or vanishes at the server. A socket keeps
its order; between sockets there is none. Each attempt has its own inbox for the ack, so
only the copy of the attempt that waits acknowledges (`Awaited`). That a token's
time is over is decided where the code looks at it (`HasAddress`).
The set `Conns` bounds how many connections are up or lost at a time: a dial that
succeeds needs one that is closed.
`db` is never set, `verifyReplay` has no handler, `case **actor.Stopping` is
never taken: none of the three has an action.

**Pubsub** - `pc`, `client`, `subscriptions` and `todo` are pubsub-actor,
`collector` the calls of `Subscribe`, which is three steps (`Store`, `Check`,
`Call`) because pubsub-actor runs between them. `asked` and `topics` are the
SUBSCRIBEs on their way and those of the broker's session. The map is written
under a mutex that the reader does not take: `Store` may end the process then.
`intact` is history and says when the code promises anything at all. The set
`Clients` bounds the clients that exist at a time: `OnStarted` takes one that is
down.

## 3. Runs

| run | instance | shows |
|---|---|---|
| QueryStream | 3 entries, 1 query after another, 2 prefixes, both directions, 1 foreign request, may start closed | `DeliveredInOrder`, `AtMostOneOvertaken`, `OneEntryInFlight`, for every cursor; `ScanReleased`, `QueryReturns`, `ChildCollected` |
| RemoteOverlap | 2 old entries, 2 replays of which one is stale, limit 1, 2 faults | `Accounted`, `RemovedOnlyWhenSafe`, `DeliveredInOrder`, `AtMostOneOvertaken` while both replays work on the same entries |
| RemoteRestart | 3 entries (2 old, 1 with a bad id), expiry, limit 1, 1 fault, 1 crash, may start closed | `Accounted`, `RemovedOnlyWhenSafe` with a new message, expiry, archive, limit and a restart |
| RemoteLive | an old entry and a new message, 2 replays, limit 0 | `EventuallySettled`, `Drained` |
| RemoteRefused | 1 message | violation, see 5 |
| MqttClient | 2 faults, 1 restart, 5 clients | `LeftBehindBounded`, `EventuallyOpen`, `LostIsLearned` |
| MqttClientLate | 1 fault | violation, see 5 |
| Collectors | a scalar, the group id and a list of up to 2, 2 values, 2 events | `SteadyFieldsFollowed`, `EventsOnce`, `EventsForwarded` |
| CollectorsNewValues | a static field and one App writes over besides | violation, see 5 |
| DbActorService | 2 requests, 2 failures, 1 crash, lock | `ServingMeansOpen`, `NeverStranded`; DbActor implements `DbService`; `ComesToServe`, `OpenAnswered` |
| Nats | 2 messages, 2 attempts, 2 faults, 3 connections | `SentPrecedesLater`, `CopiesBounded`, `SentIsStored`; `EventuallyConnected`, `GroupLearned`, `AppFreed` |
| Pubsub | 2 collectors, 3 clients, 2 faults | `NoSubscriberMissed`; `LetThrough` |

Each run also checks its module's type invariant, where one is listed in
`PROJECT.json`.

Bounds, and why they are enough:

* *Entries.* Two are needed for order and for a second one behind the entry in
  flight; three show that no more than one is overtaken; the code treats all
  later ones alike.
* *Queries.* Two in Remote: a stale one and a current one. Identities are reused,
  so a run has any number of calls. One is enough for QueryStream, where calls share nothing but
  the mailbox of the database actor: `QueryInv` of its proofs is a statement about
  each query alone. What is queued before it there is any request.
* *MaxDbox* bounds the requests of foreign clients in the database mailbox, not
  those of the modelled components.
* *Limit* is 30 in the code. With 0 or 1 a replay is cut after one or two
  entries, which is the case that matters.
* *MaxFaults*, *MaxCrashes* bound timeouts of live requests, refusals, failed
  transactions, entries whose 10 s run out while the forwarder lives, and restarts;
  timeouts that only follow from a lost message are not counted, nor is the 3 s
  timeout of the forwarder. QueryStream has no such bound: there all of this
  may happen at any time and as often as one likes.
* *RemoteLive* has no faults: two queries and liveness are what five minutes
  allow. The overlap of two replays does not need any, since the end of the data
  that overtakes an entry leaves its callback to run beside the next replay. Faults,
  bad ids, expiry and a restart are in the safety runs.
* *Tickers and MsgReconnect* put at most one note in RemoteActor's mailbox
  (`NoteWaits`); more would only repeat it.
* *Clients* of MqttClient are identities that are used again when down and not
  in use; there are two more than can be left behind.
* *Fields*: the passing run has no static or removed field; such a field is in a
  result, or not, without being compared. It has no field that App writes over
  (`Stamped`) either, which would say nothing of the others; CollectorsNewValues
  has one, and the theorem `SteadyFollowed` holds for any set of them.
* *Statuses* of Collectors are not bounded in number: the states are finite
  because the values are. Two values and lists of two make every case of
  `compareSlice`: equal, different, longer, shorter, empty.
* *Attempts* of Nats are 10 in the code; two are one that is repeated. Two faults
  are two connections that were lost and replaced, so that the third is in use;
  two messages make an order. *MaxNotes* bounds the `reconnectRemote` that the
  ticker adds, not the one a failed message adds.
* *Clients* of Pubsub are one more than the faults, each of which gives one up.
* *Symmetry* is used over queries, in safety runs only.

`CHECK_DEADLOCK FALSE` is set where the system may stop: DbActor and Nats when
all requests or messages are used and nothing is lost, Pubsub when the runtime
ended the process.

### Fairness

`Scheduled` of QueryStream and `Fairness` of Remote are weak fairness of each
process: the database actor, RemoteActor and the client take what is in their
mailboxes and answer; the 10 s of an entry run out; of what is left to do for a
call (child, forwarder, callback, its 3 s and 5 s futures) something is done,
which is enough because a call has finitely many steps. Timeouts of calls that
can still be answered are never fair, so no property holds by timing out, except
that a `MsgQueryData` dropped by `CloseState` is only ended by the 30 s of
`svc.Query` (`QueryLost`). The database comes to serve: DbActorService shows it
of DbActor. The one strong fairness is `TickReplay`: the tickers and the client
share the one place the model has for notes, and a ticker is heard now and then.

Nothing makes the client announce its connection, and nothing decides the race of
the last entry with the end of the data, so neither is taken as fair. The
liveness properties of Remote say what they need instead: `[]<>Told`, that
RemoteActor knows of the connection or the note is in its mailbox, again and again
(MqttClientLate is a behaviour in which it is not, and RemoteActor then stores
everything); and `<>[]~Overtaken`, that the end of the data does not overtake an
entry at every replay for ever. With either gone, a store of one entry may stay as
it is. What the two properties exclude is that it stays for any other reason:
a `retryFlag` that a new replay cleared, a stale callback, a replay cut at its
limit.

`FairSpec` of DbActor: the actor is scheduled, and the other process lets the
lock go. Clients are never fair.

`FairSpec` of MqttClient: actor, ticker and parent are scheduled, and a paho
client that is left trying connects in the end, which is what
`SetConnectRetry(true)` is for. Losing connections is neither fair nor bounded;
slow connects and refused tokens are bounded. `Told`, the hypothesis of the
liveness of Remote, comes true after a connection that was lost
(`LostIsLearned`); MqttClientLate shows when it does not.

In MqttClient a token source that refuses to refresh is replaced by a login,
which succeeds but for the bounded faults.

`FairSpec` of Nats: App, the token actor and the remote take what is in their
mailboxes, futures nobody can answer expire, the ticker ticks, and a status comes
now and then while the group is unknown; what is in the socket of an open
connection reaches the server. What is adrift need not, lost connections need not
come back by themselves, and a future that could still be answered never has to expire.

`FairSpec` of Pubsub: the goroutines run, main starts App, and a broker that does
nothing wrong answers a CONNECT. A client that lost its link need not get it back.

`FairSpec` of Collectors: both actors and the ticker are scheduled, the bus not.

## 4. Proofs

Every safety invariant the passing runs check, the action property
`RemovedOnlyWhenSafe` and the refinement of `DbService` are theorems, for any
value of the constants. They rest on the named assumptions of the modules and on
nothing else: `Nil` and `Nobody` are none of the things they stand beside, the
bounds are naturals, keys are naturals, the scanned collection is one of the
collections, and the like. Faults, crashes and restarts are bounded by a
constant, so the theorems hold for any number of them.

| module | theorem | property |
|---|---|---|
| DbActorProofs | `TypeCorrect`, `ServesOnlyOpenFile`, `AlwaysWoken`, all from `AlwaysInv` | `TypeOK`, `ServingMeansOpen`, `NeverStranded` |
| DbServiceProofs | `ImplementsService`, `ServedOnce` | `ServiceSpec`; a request is in one place |
| QueryStreamProofs | `TypeCorrect`, `CallbackInOrder`, `AckOvertakesOne`, `FlowControlled` | `StreamTypeOK`, `DeliveredInOrder`, `AtMostOneOvertaken`, `OneEntryInFlight` |
| RemoteProofs | `RemoteTypeCorrect`, `NothingLost`, `OnlySafeRemoved`, `ReplayInOrder` | `RemoteTypeOK`, `Accounted`, `RemovedOnlyWhenSafe`; `DeliveredInOrder` and `AtMostOneOvertaken` of Remote's specification |
| MqttClientProofs | `TypeCorrect`, `FewLeftBehind` | `TypeOK`, `LeftBehindBounded` |
| CollectorsProofs | `TypeCorrect`, `SteadyFollowed`, `EachEventOnce` | `TypeOK`, `SteadyFieldsFollowed`, `EventsOnce` |
| NatsProofs | `TypeCorrect`, `SentIsFirst`, `CopiesAreBounded`, `SentIsThere` | `NatsTypeOK`, `SentPrecedesLater`, `CopiesBounded`, `SentIsStored` |
| PubsubProofs | `TypeCorrect`, `SubscribersNeverMissed` | `TypeOK`, `NoSubscriberMissed` |

Each module has one inductive invariant, lemmas on the mailboxes and sets it
speaks of, one lemma per action, and a theorem per property.

**DbActorProofs.** `ServingMeansOpen` is not inductive alone: entering WaitState
on `MsgOpenedDB` is right only because that message is in the mailbox exactly
once and says what happened to the handle, which is `NeverStranded`. That in turn
needs to know what holds inside `bbolt.Open` (`InsideOpen`: sOpen, and no handle
open) and that what stands in the mailbox without a client is one of the messages
the actor sends itself (`AllLabelled`), which also types the transactions.

**DbServiceProofs.** The initial states map to initial states, and each step of
the actor, crashes included, maps to a step of the service or to a stutter, under
the mapping that computes the status of a request from the mailbox. The mapping
is a function only because a request is in one place: one letter, or
`bbolt.Open` on its behalf, never both (`OnePlace`). `AskerWaits` adds whose
request the opening is. Taking a letter then makes its request, and no other,
`"done"` (`StatusAfterTail`).

**QueryStreamProofs.** `StreamInv` is a conjunction over the queries, because
nothing ties two queries but that the scan is of one of them. `QueryInv(q)` says
where the entries are that the callback has not had: in the rest of the scan but
for one, which the forwarder has or the child's mailbox holds (`Unread`), and
that one is the next in cursor order (`Entries`); an entry the cursor left after
10 s leaves both sets at once; that starting the query, the
scan and the end of the data follow one another, each once (`OneAfterAnother`);
and what a child that stopped leaves (`ChildAlive`). `AtMostOneOvertaken` is then
that the end of the data, which does not go through the forwarder, can pass that
one entry and no other. The theorem says nothing of skipped entries but that they
do not come later.

**RemoteProofs.** The queries of Remote are those of QueryStream, and its proofs
are used for their steps. `Requests` is why each delete that waits in the
database mailbox may be served: its entry has been published, or can not be read,
or the write of its archive copy stands before it, which only mailbox order
guarantees. `AllKnown` says of each message that arrived where it is: in
RemoteActor's mailbox, in its handler, in a write that waits, in the store, or
among what was published, refused, dropped or not archived. `Working` and `Asked`
tie the handler and each callback to the one request they have with the client
actor, so that a late answer can not settle another message than the one that was
asked for.

**MqttClientProofs.** `LeftBehindBounded` counts clients that were replaced and
are not down: one, and two more with each restart. The count alone is not inductive;
`Spent` says how much of the two is used when `Started` has not been handled yet,
and that a present client that would be left trying is already paid for. The set
of clients may be infinite, so that the set left behind is finite is proved too.

**CollectorsProofs.** For a status, `Followed` says of each steady field what
App's mailbox and the view make of it: the last message waiting that has the
field, and the view if none has (`KnownAs`), agrees with the last status; for
lists up to a prefix, which is what `compareSlice` preserves. Fields that App
writes itself are left out (`StampsStatus`: it changes no other). For events,
`InOrder` says the places of the pipeline ascend, each place before the next, and
`Counted` that what stands in them and what was lost are exactly the events
posted. The proof keeps the places as sets (`Chain`) and `PipelineMeans` relates
these to the sequence of the property once, so no induction over the
concatenation is needed.

**NatsProofs.** `Passed`: what was handled is behind what waits, and the mailbox
is in order. `Sending`: all that is stored or in flight, on whatever socket, is
of an earlier message or of an attempt that was made, and an ack means that the
message being sent is stored. `Once`: a copy, that is an attempt to publish a
message, is in one place. When the ack comes nothing of a later message exists
yet, so the message stands before all of it for good: that is `SentPrecedesLater`,
which is inductive with these. `CopiesBounded` follows from `Once`, since the
places a message has in the stream inject into its attempts. The remote
takes part in Keycloak's mailboxes and futures, whose types are proved with it.

**PubsubProofs.** `NoSubscriberMissed` speaks of the running actor;
`NoneForgotten` extends it to the time when `Started` still ranges over the map,
where a subscriber is covered by what is still to do. Nothing covers it on
another connection, so that the broker keeps one (`OneUp`) and that it is
the present client's (`ClientHeld`) belong to the invariant.

**Only model-checked.** The properties under fairness: `ScanReleased`,
`QueryReturns`, `ChildCollected`, `EventuallySettled`, `Drained`,
`EventuallyOpen`, `LostIsLearned`, `EventsForwarded`, `ComesToServe`,
`OpenAnswered`, `EventuallyConnected`, `GroupLearned`, `AppFreed`, `LetThrough`.
The prover has no ENABLED, so it can not use weak or strong fairness. And the
three violations of section 5, which are behaviours TLC exhibits.

## 5. What disagrees

* **RemoteRefused.** The direct send waits with `.Wait()`
  (`remote-actor.go:195`), which is an error for a timeout and not for
  `MsgError`. A message the client refused counts as sent, and is not stored
  although retransmission is on. `isConnected` is never reset, so this is what
  happens to each message while the connection is down, until it comes back.
  The replay path does look at `MsgError` (165-168).
* **MqttClientLate.** `Started` waits 10 s for the connection and then only logs
  (`remote-mqtt/remote-actor.go:100-102`); the client goes on trying. If it
  connects before the first tick, 30 s after the start, that tick finds it open
  and nobody sends `MsgReconnect`: RemoteActor says "client is not connected"
  and stores everything while the connection is up. `LostIsLearned` is what
  remains true: it ends when that connection is lost.
* **CollectorsNewValues.** `OnlyChanges`, "expose only new values in fields"
  (`state/status.go:102`), walks the fields of the *last* status (269). A field
  that appears later is never sent, unless it changes again; the group id is
  such a field whenever App did not know it at the first status. And
  `compareSlice` (238) ranges over the old list: a list that grew counts as
  equal; one that shrank to a prefix panics. `SteadyFieldsFollowed` says what
  remains true of both.

Read off the code, without a run: `-disableRetransmission` guards the write
(`remote-actor.go:211`), not the replay (118), so entries already in the file
are sent again; the runs of Remote leave the flag unset. `svc.Close` always
times out, as the actor never answers `MsgClosedDB`.

A query whose entries nobody receives for 10 s each skips them and ends like one
that had them all (`repo.go:227`): `svc.Query` reports nothing, and a replay comes
to them only the next time. When `db.View` fails before it runs `QueryData`, the
forwarder's goroutine never ends, since only `QueryData` closes its channel.

The local bus: `Subscribe` returns nil although nothing was subscribed, when the
client is reconnecting or the broker refuses (`pubsub.go:113` reads the error
only if the token is not done); and once paho has reconnected by itself
(`pubsub.go:157`), with a clean session, nobody subscribes again. The actors run
and hear nothing. `NoSubscriberMissed` states what holds short of that.

The token actor answers the first `TokenRequest` with a nil token
(`keyc-actor.go:68`), so the first connect of the NATS remote always fails
unless StatusActor has asked for the group before. That remote leaves a
connection open when it replaces a lost one that has come back meanwhile
(`remote-natsio/remote-actor.go:101`), and closes one in the same case when the
connect fails (142). A message it gave up on may still be stored, behind later
ones, because closing the connection (174) recalls nothing from its socket;
`SentPrecedesLater` says what remains true of the order. It stores nothing: its
`db` is never set.

In `Accounted` a message that was refused on the direct path is counted as
`refused`: the property says that a message is lost for no other reason than
those the model names.

## 6. Plan

1. *Done:* QueryStream, Remote, Repo, DbService, DbActor, MqttClient,
   Collectors, Keycloak, Nats, Pubsub.
2. *Done:* the proofs of section 4: every safety invariant of the runs, the one
   action property and the refinement.
3. **Remote with MqttClient**: the client of Remote replaced by the actor, so
   that `Reconnect` is no assumption and a loss of the link reaches a send.
4. **Safety halves of liveness properties**, as theorems: for each query, that
   somebody can always take the next step (a process that waits has a message, a
   partner or a future), which is what `ScanReleased` and `QueryReturns` rest on
   besides fairness; the same for the futures of Keycloak.

## 7. Not modelled

Payloads and their wrapping (`prepareMSG`, JSON), topics, logging; `Last`, which
no code calls; the pause of up to 100 ms after a reconnect, which delays a
handler and changes nothing; the bytes of bbolt: a transaction commits whole or
not at all. The database actor of Remote is the one of QueryStream, which serves
or drops; its opening is refined separately by DbActor. Panics and restarts are
in Collectors for the collectors, in Pubsub for the bus and in MqttClient for
the connection.

App's respawn of the remote actor, on `Terminated` and on `ErrorRemote`: nothing
stops that actor while App runs, and no code sends `ErrorRemote`. `Stopping` of
the actors: main returns without stopping them. `Publish` of the bus:
pubsub-actor has no handler for its message and the only caller is in
`_schsvc_`, which is outside the build. `funcCompare` of `status.go` and
`messages/status.go`: no code uses them. `utils` and `env` are constants of a
process, `messages.pb.go` is generated.
