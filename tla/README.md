# Verification of DCRUD

TLA+ models, TLC runs and TLAPS proofs for DCRUD, a middleware that replicates
collections of items between the processes of a LAN (publish and refresh of
caches over UDP multicast) and lets them call each other's operations.

| module | models | instance and runs |
|---|---|---|
| `Cache` | the distributed caches of the Java implementation | `MCCache`: `CacheThreads`, `CacheFaulty`, `CacheLive`, `CacheTwoCaches` |
| `CacheProofs` | theorems about `Cache`, for all values of its constants | |
| `OwnershipProofs` | theorems about what the owner of an item can rely on (`Cache`) | |
| `Calls` | the remote operations of the Java implementation | `MCCalls`: `CallsFaulty`, `CallsFifo` |
| `CallsProofs` | theorems about `Calls` | |
| `CDispatcher` | the remote operations of the C implementation | `MCCDispatcher`: `CDispatcherFaulty`, `CDispatcherLive`, `CDispatcherCallback` |
| `CDispatcherProofs` | theorems about `CDispatcher` | |
| `RemoteOperations` | what both dispatchers promise | refined in `CallsFifo` and `CDispatcherFaulty` |
| `CNode` | the life of a C participant, its caches and its receivers | `MCCNode`: `CNodeLife`, `CNodeRefresh` |
| `CNodeProofs` | theorems about `CNode` | |
| `CPool`, `CCollections`, `CBuffer`, `CArguments`, `CCmdLine` | the C run time | `MCRuntime`: `CRuntime` |
| `Collections` | what `CCollections` promises: a function, a set, a sequence | refined in `CRuntime` |
| `CppNode` | the caches of the C++ implementation | `MCRuntime`: `CRuntime` |
| `CppProofs` | theorems about `CppNode`, for all values of its constants | |
| `Channel` | the message channels of the C and the Java implementation | `MCRuntime`: `CRuntime` |
| `CLibrary` | `bsearch` of the C library, for `CCollections` and `Channel` | |
| `RuntimeProofs` | theorems about `CPool`, `CCollections`, `CBuffer`, `CArguments`, `CCmdLine` and `Channel` | |
| `SequenceLemmas` | lemmas about sequences, finite sets and binary search that the proofs share | |

`PROJECT.json` says which definition models which lines, and lists runs,
mutations, hazards, findings and theorems.

To check: `tlc -config CacheThreads.cfg MCCache`, and so on for each `.cfg` with
the module of its row; `tlapm CacheProofs.tla`, and so on, for the proofs
(`CDispatcherProofs` and `CNodeProofs` take a few minutes, `RuntimeProofs`
about ten).

## 1. Inventory of the system

DCRUD exists three times, in Java (the most complete one), C and C++, with one
wire protocol. The same components appear in each.

**Cache** (`Cache.java`, `C/src/dcrud/Cache.c`, `cpp/src/dcrud/Cache.cpp`).
State: `_local` (GUID to item), `_updated` and `_deleted` (items to announce),
`_toUpdate` and `_toDelete` (what arrived), `_nextInstance`, `_ownershipCheck`.
Operations: `create`, `read`, `update`, `delete`, `select`, `publish`,
`refresh`, `setOwnership`, and the network side `updateFromNetwork`,
`deleteFromNetwork`. Application threads and one receiver thread per peer share
it, each set under a monitor of its own; `_nextInstance` has none. Correct if:
identities are unique; nothing that is held by a remote cache was never
created; creations reach the remote caches; content follows the owner; deleted
items go away everywhere; under the ownership check nobody else decides.

**Participant** (`AbstractParticipant.java`, `MulticastParticipant.java`,
`ParticipantImpl.c`, `ParticipantImpl.cpp`). State: its caches and their count,
local and remote factories, callbacks, `_callId`, buffers. Operations: create a
cache, register factories, serialise and send, deliver to the caches, call,
run callbacks, act on remote CRUD requests. Correct if every cache gets every
update, and every callback its own answer.

**Dispatcher** (`Dispatcher.java`, `Dispatcher.c`, `Dispatcher.cpp`). State:
provided interfaces and 256 queues of deferred operations under one monitor.
Operations: `provide`, `require`, `execute`, `handleRequests`. Correct if what
is queued is executed, in order and once, and answered if an answer is due.

**Network receiver** (`AbstractNetworkReceiver.java`,
`DatagramNetworkReceiver.java`, `NetworkReceiver.c`, `NetworkReceiver.cpp`). A
thread per peer that decodes frames and hands them to the participant or to the
dispatcher, where it may wait for their monitors. In C it is joined on deletion.

**Data**: `GUID`, `ClassID`, `Arguments`, byte buffers; conversions to and from
the wire format.

**C run time**: `coll` (bounded sorted arrays as maps and sets, lists),
`util/Pool` (reference-counted static allocation), `util/CmdLine` (options of a
program), `io/ByteBuffer` (position, limit and mark over a byte array, integers
in network order), `os` (mutexes, threads). Correct if the collections are what
their names say, the books of a pool balance, an option is read back as it was
given, no access leaves a buffer, and what one host writes another reads.

**Channel** (`channel` in Java and C): typed messages over UDP, a layer that the
caches and the dispatcher do not use. State: a connected socket, handlers by
message id, a receiving thread, factories by class id for the whole process.
Operations: open, `addHandler`, `send`, delete, and the codecs. Correct if a
message reaches the handler of its id and is decoded as it was sent, and the
receiver lives as long as its channel and no longer.

**Registry** (`Java/test/tests/registry`): participants exchange the addresses
they know over TCP streams until all agree, and fall silent when digests match.

How they interact: an application thread changes a cache and calls `publish`,
which sends datagrams; at each peer the receiver thread files them into
`_toUpdate` and `_toDelete` of **every** cache; the peer's application calls
`refresh`, which applies them to `_local`. A call is a datagram too; the peer's
receiver thread queues it, its application executes it in `handleRequests` and
multicasts the results, which the caller's receiver thread hands to a callback.

What is hard: several threads in one cache, with monitors that are released
between the phases of `publish` and `refresh`; sets that are iterated in hash
order and then cleared; a network that loses, duplicates and reorders; sockets
and operations that fail half-way; identities and call ids that are counted
locally and used globally. `PROJECT.json` lists each such hazard at its line.

## 2. Module `Cache`

State. `heap` is the objects: an item `<<p, i>>` is the i-th `Shareable` of
participant `p`; its record has its GUID (instance 0 until it is shared, as in
`GUID.isShared`), a version number that stands for its content, and whether an
application created it (a replica is made by `newInstance`). `local`, `updated`,
`deleted`, `toUpdate`, `toDelete`, `nextInstance` are the fields of each
`Cache`. `_local` maps GUIDs to objects; since a cached object bears the GUID it
is mapped from, it is a set of objects here and `Lookup` finds by GUID. `thread`
says where in a method each application thread is; `net` holds the datagrams
from each participant to each other.

Actions. A method is cut where it takes or releases a monitor, reads without
one, or sends:

| code | actions |
|---|---|
| `create` | `CreateRead` (reads `_nextInstance`), `CreatePut` (writes it back, `_local.put`), `MarkUpdated` |
| `update` | `UpdateCheck` (the application's write and the guards, no monitor), `MarkUpdated` |
| `delete` | `DeleteItem` |
| `publish` | `PublishBegin`, `PushCreateOrUpdateItem` per item, `PublishUpdated` (clear), `PublishDeletedBegin`, `PushDeleteItem` per item, `PublishDeleted`; `PublishFails` for the `IOException` |
| `refresh` | `RefreshBegin`, `RefreshUpdate` per update in any order (`Overwrite` or `Instantiate`), `RefreshUpdated`, `RefreshDelete` |
| receiver thread | `DataUpdate`, `DataDelete`, into every cache of the participant |
| the network | `NetworkFault`: lose, duplicate, reorder |

Who holds a monitor follows from the program counters (`LocalLocked`,
`UpdatedLocked`, ...); an action whose code takes a monitor is disabled while
another thread holds it.

Abstractions. Caches are created, factories registered and ownership set before
the model starts (`CacheIndex`, `Subscriber`, `OwnershipCheck`); one class. The
content of an item is a version number; the payload serialised by `publish` is
the one the item has at that moment. The read and the write-back of
`_nextInstance++` are apart, but the write-back and `_local.put` are one step:
nobody reads the counter in between without having raced already. Delivery to
the caches of one participant is one step. Topics are left out: nothing in the
code reads them. Restarts are left out.

Two participants; `p1` creates and both may update or delete what they hold.
Bounds: `MaxObject` objects per participant (enough for a replica and its
re-creation), `MaxInstance` creations, `MaxVersion` writes per item,
`MaxInFlight` datagrams on a channel. Each bound disables an action when it is
reached; none of the properties speaks about what happens then. Two datagrams in
flight are what it takes to reorder (`CacheFaulty`; in `CacheThreads`, whose
network does not, one is enough); two versions of one item what it takes to
be stale; two items (`CacheThreads`) are needed for numbering.

| run | shows |
|---|---|
| `CacheThreads` | the two threads of `ShapesUI` in one cache. `CreationNeverForgotten`: an item its owner holds is, for every remote cache of its class, held there, on its way, or still marked; `clear()` forgets no item that the other thread marks meanwhile, and a `publish` that an `IOException` leaves half-way forgets none either. `GUIDsAreUnique`, `TypeOK` |
| `CacheFaulty` | one thread per participant; loss, duplication, disorder, sockets that fail. `Provenance`: every identity held, in flight or pending is that of an item somebody created. `ReplicasNeverAhead`: no replica, datagram or pending update is newer than the owner's item. `OwnerDecides`: the owner's item changes by its own writes only, and what the owner deleted never comes back to it |
| `CacheLive` | with fairness, `CreationReplicates`: a created item is in the end held by every subscriber or deleted by its owner. `UpdateNeverFollowsDelete`: no channel carries an update behind the deletion of the same item |
| `CacheTwoCaches` | **violation**: two caches of a participant number their items alike, so `GUIDsAreUnique` fails |

Limits of what holds, each of which the model shows when the run is changed so
(no document of the repository promises the contrary, so they are not runs):

* `UpdateNeverFollowsDelete` is a property of single-threaded use. With a second
  thread, an item updated and deleted between the two phases of `publish` is
  announced as deleted first.
* Two updates of one item in one `refresh` are applied in hash order: once
  nothing is pending the replica may still have the older content. Replicas are
  never ahead of the owner, but they may stay behind.
* A creation and its deletion that arrive between the two phases of `refresh`,
  or an update that arrives after the deletion, leave a replica that nobody
  deletes any more.
* `GUIDsAreUnique` needs one cache and one creating thread per participant: two
  threads in `create` may both read the same `_nextInstance` (make the timer
  thread of `CacheThreads` a `Creator` to see it).

Fairness (`FairSpec`). A thread inside a method goes on, but may wait for a
monitor that other threads take again and again; they are 40 ms apart in
`ShapesUI`, so the monitor is free most of the time, hence strong fairness of
`Proceed` and of the receiver threads. Publishing and refreshing threads call
both methods for ever, in a loop (`Publisher`, `Subscriber`) or on a timer
(`ShapesUI`); a thread that does one thing at a time makes each call only
intermittently possible, hence strong fairness again. Nothing forces an
application to create, update or delete.

## 3. Module `Calls`

State. `nextCallId` and `callbacks` of each participant, `queue` (the
dispatcher's default queue), `thread`, `net`, and four histories: `issued` (the
methods each participant called; a `Request` `<<p, i>>` is the i-th of them),
`log` (requests each participant executed), `delivered` (callback invocations),
`unknown` (answers without callback).

| code | actions |
|---|---|
| `IRequired.call`, `ICRUD.*`, `AbstractParticipant.call` | `IssueCall` (send), then, with a callback, `RegisterCallback` (put, increment) |
| `handleRequests` | `HandleBegin`, per operation `Execute`, `PassOver` (unknown operation, unsuccessful CRUD request) or `ExecuteFails`, `HandleEnd` (clear) |
| `AbstractNetworkReceiver.operation` | `Enqueue`, `Ignore` (interface not provided), `Answer` (callback found or not) |

The receiver reads the call mode and the queue number of a request and then
ignores both, so every remote operation is deferred and in the default queue:
one queue is modelled, and the immediate and synchronous branches of `execute`,
which nothing selects, are not (the C dispatcher does select them: section 4).
Results are the request they answer. Operations are opaque: they run, or throw
after they had their effect. `provide`, `addOperation` and the registration of
factories happen before the model starts. The unsynchronised `HashMap` of
callbacks is treated as if its steps were atomic.

| run | shows |
|---|---|
| `CallsFaulty` | one client; duplication, disorder, exceptions; implemented, unknown and absent operations and CRUD requests. `CallNeverForgotten`: a call of an implemented operation is in flight, queued or executed, although receivers fill the queue that `handleRequests` clears or leaves on an exception. `AnswersComeFromExecutions`: an answer comes of an execution |
| `CallsFifo` | two participants that serve and call each other; losses; `FairSpec`. `OperationsImplemented`: the dispatchers implement `RemoteOperations` (below). `ExecutedOnceInOrder`: a peer's requests run in order and none twice. `CallbackGetsOwnAnswer`: although both use the same call ids. `QueuedIsExecuted`: a queued request runs in the end |

`RemoteOperations` is the abstract specification of a dispatcher, which the Java
and the C one are both shown to implement. It knows the calls that each
participant issued, with the lane each was sent through, those each executed,
and those whose answers were handed over. Only a call that another participant
issued is executed, not twice, and after what its issuer sent through the same
lane before; an answer is one of an execution. It says nothing of queues,
monitors, threads, ids and messages, and does not promise that a call is
executed: the network may lose it. The refinement mapping takes `issued`, `log`
and `delivered` for these histories; all Java calls share one lane, and a C call
takes the queue it chose, or none if it is synchronous.

Limits. With a second client of the same server `CallbackGetsOwnAnswer` fails:
answers are multicast and looked up by call id alone, so a client's callback
runs on the other client's results. An answer that overtakes the registration
of its callback is dropped as unknown. `ExecutedOnceInOrder` does not hold with
exceptions (the queue is left as it was, so what ran before the failing
operation runs again) nor with duplicated datagrams, and neither does
`OperationsImplemented`.

Bounds: `MaxCall` calls per participant, `MaxInFlight` datagrams per channel,
`MaxWork` queued and executed operations per participant. A send never waits for
a receiver: where losses are modelled, what is sent to a peer whose
`MaxInFlight` datagrams are still unread is lost to that peer, as with a full
socket buffer; where they are not, sends stop at the bound. (Two participants
that wait for room in each other's channel while both hold the monitor of their
queues would be a deadlock of the bound, not of the code.) `CallsFaulty` stops
when an operation that keeps failing has used up `MaxWork`; hence
`CHECK_DEADLOCK FALSE` there.

Fairness: a thread inside `handleRequests` goes on and never waits there (weak
fairness); receivers and `handleRequests` in the application's loop as for
`Cache`.

## 4. Module `CDispatcher`

The C implementation of the remote operations differs from the Java one in
what it does with the call mode and queue that the caller chose, in what a
failure does, in who frees what, and in how callbacks are found.

State. `queues[p][q]` are the operation queues of the dispatcher; `worker`
is where each application **and** receiver thread is, since both may be in
`handleRequests`; `live` is the calls and answers whose `dcrudArguments` a
participant has allocated and not released (a call and its answer have arguments
each, so `live` holds the messages, not the requests they belong to); `callbacks` is a set of pairs of an *address*
and a request, since `collIntCompare` is given pointers and compares them;
`crashed` is the participants that have dereferenced a null call; `log`,
`failed`, `delivered`, `unknown` and `issued` are histories.

| code | actions |
|---|---|
| `dcrudIRequired_call`, `dcrudICRUD_*`, `dcrudIParticipantImpl_call` | `IssueCall`, `RegisterCallback` |
| `dcrudNetworkReceiver_run`, `_operation` | one of the actions of `Receive`: `Discard` (the participant has left), `NoArguments` (allocation failed), or what the dispatcher does with the frame |
| `dcrudIDispatcher_execute`, `_executeCrud` | `Enqueue`, `QueueFull`, `NoCall`, `NoCrudCall`, `Ignore`, `UnknownOperation`, `RunSynchronously` |
| `dcrudIParticipantImpl_callback` | `ReceiveAnswer` |
| `dcrudIDispatcher_handleRequests` | `HandleBegin`, then per call `Run`, `RunFails` or `RunNull`, and per queue `ClearQueue` |
| `dcrudIParticipant_leave` | `Leave` |

A deferred call is queued by the receiver under `operationQueuesMutex`; an
immediate one is queued and then the receiver handles all queues itself; a
synchronous one runs on the receiver without the mutex. When a call of a queue
fails, `collList_foreach` stops and the queue is cleared: the calls behind it
are lost, and their arguments are never released. When the allocation of a call
fails, `execute` only logs it and queues the null pointer, which the next
`handleRequests` dereferences.

| run | shows |
|---|---|
| `CDispatcherFaulty` | every mode, two queues of two calls, answers asked for or not, calls of unknown operations and absent interfaces, CRUD requests; allocations and sends fail, the callee may leave. `OperationsImplemented`: the dispatchers implement `RemoteOperations` (section 3), with their queues as lanes. It implies `ExecutedOnce`, though two kinds of threads handle the queues and a queue keeps what was executed until it is cleared, and `QueueOrder`: calls of one queue run in the order they were issued, whichever thread runs them. `ArgumentsOwned`: what waits has its arguments; what leaks belongs to a failure, to the calls behind one, or to an answer. `CallAccountedFor`: a call is in flight, waiting, executed, or lost with a failure of its queue |
| `CDispatcherLive` | `QueuedIsExecuted`: a waiting call, in any queue, is taken out of it, unless the program crashes or leaves (`leave` makes `handleRequests` stop after one queue) |
| `CDispatcherCallback` | **violation**: `AnswerFindsCallback`. The callback is put under the address of the field `callId` and looked up under the address of a local variable: no answer ever finds one |

Further facts of the code that the model contains: without a callback the call
id sent is 0, and so is the id of the first call *with* one, which is then never
answered; the arguments of an answer that finds no callback leak.

Bounds: `MaxCall` is 3, so that a queue (of `QueueLimit` 2) can be full and a
failing call can have another one before and behind it; sends of the model wait
for room on a channel (`MaxInFlight`). The callee and the caller are one thread
each, beside one receiver each. A participant may crash and the number of calls
is bounded, so `CHECK_DEADLOCK FALSE`. Fairness is weak: a receiver thread
blocks only while nothing arrives or while it waits for the mutex, and TLC shows
that weak fairness suffices because the mutex is not held for ever.

## 5. Module `CNode`

State. `life`, `alive`, `receiver` and `caches` are the life cycle of a
participant: its caches are a sequence of caches and *holes*, since
`createCache` counts a cache before its allocation may fail. `local`,
`updated`, `deleted`, `toUpdate`, `toDelete` are the bounded collections of each
cache (`SetLimit`), `freed` the items given to `dcrudShareable_delete`, `number`
their instances. `announced`, `lost`, `refreshed` are histories. Contents play
no role.

| code | actions |
|---|---|
| `dcrudICache_create`, `_update`, `_delete` | `Create`/`UpdateCheck` then `MarkUpdated`; `DeleteItem` then `MarkDeleted`: one per mutex |
| `dcrudICache_publish` | `PublishUpdated`, `PublishDeleted` (announce and free), and a failing send in either |
| `dcrudICache_refresh` | `Refresh`, which returns as soon as its handle is valid |
| `dcrudNetworkReceiver_dataUpdate`, `_dataDelete` | `ReceiveUpdate` (up to the first hole, or the copy that cannot be allocated), `ReceiveDelete` (the whole array) |
| `dcrudIParticipant_createCache`, `_listen`, `_leave`, `_delete` | `CreateCache`, `Listen` and `SetAlive`, `Leave`, `DeleteBegin`, `JoinReceiver`, `DeleteEnd` |

A full collection refuses an item, and `create`, `update`, `delete` and the
receiver do not look at its status. A failing send in the first half of
`publish` clears the updated items all the same. `delete` joins the receivers,
which look at `alive` only after a datagram.

| run | shows |
|---|---|
| `CNodeLife` | allocations and sends fail, collections hold one item, up to three caches. `NoFreedItem`: no set refers to a freed item. `CreationAccountedFor`: a created item is marked, announced, or was dropped by a full set or a failed send, and by nothing else. `FreedIsAnnounced`: what is freed has been announced as deleted. `EarlierCachesKnowMore`: an earlier cache has received whatever a later one has. `JoinedBeforeDeleted`: no receiver outlives its participant's buffers and mutexes. `ReceiverEnds`: after `leave`, a receiver that is sent one more datagram ends |
| `CNodeRefresh` | **violation**: `RefreshApplies`. Nothing that a cache received is ever in it after `refresh` |

Limits. `NoFreedItem` is for programs whose caches have one thread (with a
second one an item may be updated between its publication and its freeing).
`ReceiverEnds` says "one more datagram" because the `shutdown` that would wake
up the receiver is compiled only when `_linux` is defined, which no build of the
repository does: on a quiet network `delete` waits for ever. A hole makes
`delete` return half way.

Bounds: `SetLimit` 1 so that every collection is full at times; two items per
participant, so that one can be refused; three caches so that a hole can have a
cache before and one behind it; `MaxInFlight` is the socket's buffer, which
loses what does not fit. Everything may have been created, deleted and filed,
so `CHECK_DEADLOCK FALSE`. Fairness: a receiver blocks only while nothing
arrives, `delete` only while it joins.

## 6. The C run time and the C++ caches in `MCRuntime`

These parts share no state. Each behaviour of `MCRuntime` picks one (the
variable `part`) and works with it alone, so that their state spaces add up
instead of multiplying. All of them are sequential except `CppNode` and
`Channel` (section 7).

**`CPool`** (`util/Pool.c`, `util/String.c`). Cells with reference counts, a
pool per size class, the counters of `utilPool_dumpAll`. `PoolAccounts`: a
cell's count is the number of pointers to it, reserved minus released is the
number of cells in use, no more than the peak, no more than the pool, and a
string fits its cell. Two pools of two cells, three pointers: a pool can be
exhausted while another has room, and a cell shared while another is. No lock
protects a pool; use by several threads is a data race and left out.

**`CCollections`** (`coll/Map.c`, `Set.c`, `List.c`, `GUID.c`) implements the
abstract **`Collections`**. The detailed module has the sorted arrays, `bsearch`
and `qsort` with the comparator of GUIDs, the sign of a wrapped difference of
unsigned integers; the abstract one a function, a set, a sequence and the answer
of the last call. The refinement (`CollectionsImplemented ==
Abstract!CollectionsSpec`) maps the array of pairs to the function it stands
for, the array of items to its set, the list to itself, and replies to answers.
The keys are three-bit integers on both sides of the wrap-around (6, 7, 0, 1):
the order is consistent as long as all keys are less than half of the range
apart (`KeysTogether`), which holds for instance numbers in the code and is what
the refinement needs. Add a key 3 or 4 and it fails, as it must. `MCRuntime`
assumes `KeysTogether` of its keys, for TLC to evaluate.

**`CBuffer`** (`io/ByteBuffer.c`). Position, limit, mark and bytes; a byte has
two values, integers one or two bytes, the capacity is two; hosts of either
byte order. `BufferInBounds`: the position never passes the limit nor the limit
the array, in whatever order the operations come, so that no unsigned
difference wraps and no `memcpy` leaves the array. `FieldsIntact`: what was put
and not overwritten is read back, in place, in a copy, in a buffer it was
appended to, and by a host of the other byte order. The history `fields` keeps
what was put where.

**`CArguments`** (`dcrud/Arguments.c`, `NetworkReceiver.c`, `ClassID.c`). The
maps of values and types, the frame, and what the peer makes of it.
`ArgumentsTyped`: a value bears the type it was put with, or none at all once
stale names (no `clear` empties the map of types) fill that map, and then
nothing can be sent. `ArgumentsTransferred`: a call without characters arrives
whole; with characters the peer is right up to the argument just before the
first of them, because it does not read the byte of a character and reads all
that follows one off. Four names for maps of three, so that they fill up.
`Ordered` is the names of the map in the order of its array, of which there is
just one.

**`CCmdLine`** (`util/CmdLine.c`). `Turns` is the loop of `utilCmdLine_parse`,
the definitions and the status after each argument; the history `given` keeps
the arguments, and is empty until they are parsed. `OptionsReadBack`: an option is read back
with the value the command line meant for it, provided no earlier option's name
starts its own; without that proviso it is not, since `getValue` compares only
as many characters as the definition's name has. Three names of which one starts
another, command lines of two arguments.

**`CppNode`** (`Cache.cpp`, `ParticipantImpl.cpp`, `NetworkReceiver.cpp`). The
default caches of two participants, one application thread and a thread per
receiver. Two buffers that outlive a frame decide what happens: `_header`, which
a deletion does not clear (so that a deletion has room only in a header never
used or left by a deletion whose send failed; otherwise the exception keeps it
pending), and the receiver's `_inBuf`, which nothing clears (the second datagram
finds no room, and the exception ends the process). Beyond the created caches
the array of caches is uninitialised; the walk through it may stop or end the
process. `CppNothingForgotten`: whatever fails, what was created or deleted is
pending or was sent. `CppFramesWhole`: no frame carries the remains of another.
`CppReplicasGenuine`: an item in a cache was created by its publisher and, if it
is a replica or was deleted before, announced.

The collections, the pools and the command line may all be used up, so
`CHECK_DEADLOCK FALSE`; no fairness is assumed.

## 7. Module `Channel`

A C process and a Java one, each end of a channel bound to a port and connected
to its peer's. `phase`, `receiver` and `waiting` are an end, its thread and its
socket; `handlers` the sorted cells of a C channel, `javaHandlers` the map of a
Java one; `factories` and `javaFactories` are static, one for each process. A
message is an id and a list of references to items, of which only the class
matters: 0 is a null item.

| code | actions |
|---|---|
| `channelUDPChannel_new`, `new UDPChannel` | `New` |
| `channelUDPChannel_addHandler` | `AddHandlerBegins`, `AddHandlerEnds`; `JavaAddHandler` in Java |
| `channelFactories_add`, `Factories.add` | `AddFactory`, `JavaAddFactory` |
| `channelUDPChannel_send`, `send` with `putList`, `putSet` | `Send`, `JavaSend`, `SendReportsRefusal` |
| `channelUDPChannel_run` | `Receive` (the search), `Call` (the handler and `getList`), `CallCrashes`, `ReceiveFails` |
| `UDPChannel.run` with `getSet` | `JavaReceive`, `ReceiveFails` |
| `channelUDPChannel_delete` | `DeleteBegins` (shutdown), `DeleteEnds` (join, release, `channelFactories_done`) |

No lock protects the cells of a C channel, whose receiver runs before the first
handler is added. A search or a call that overlaps `addHandler` is a data race:
it may find any handler there is, none, or a cell not yet filled, whose NULL is
called. `raced` remembers it. `MessagesFindTheirHandler` says that everything
else goes where it should, whatever the order in which handlers are added.

A socket connected to a port where nobody listens yet hears of it (`refused`)
and reports it once, to the next send or to the receiver, which then ends, in
both languages: an application that sends before its peer has started never
receives again. `ReceiverGoesOn` is what is left: nothing that arrives, declared
or not, decodable or not, stops a receiver. Message loss is the third way of
`SendTo`.

`ListsArrive`: what is decoded is what was sent. A C reader takes nothing of a
list with a null item, which Java sends as class 0, of one longer than its pool
of items, or once any channel of its process has been deleted, for this forgets
the factories of all of them.

`channelUDPChannel_delete` joins a receiver that `shutdown` has woken up
(`Woken`), or that a refusal has ended before.

`Channel` is the part "channel" of the run `CRuntime`. `Routes` are the ways to
connect the channels in use, and a behaviour picks one: a C channel and a Java
one, or two channels of one C process, which share its factories. Two ids may be
added in either order, twice, so that the cells have to be sorted and may be
full; a list of C has one item, and a set of Java one, or a null one as well,
which is then too long for C. Two messages are enough for one to be refused or
undeclared and another to follow it; one waits at an end at a time, and another
is then lost. No fairness is assumed: that a deletion returns is not a property
of a run.

## 8. Proofs

Every theorem is about all values of the constants that satisfy the module's
assumption on them. Where one has a further hypothesis it is named, and sections
2 to 6 say why the property fails without it. Each inductive invariant below was
first checked with TLC on the instance of a run.

`SequenceLemmas` has what the others need of `Append`, `Tail` and the elements of
a sequence, and some facts about finite sets: an injective sequence as long as a
set is finite has all its elements (`EnumerationsAreComplete`), pairs of one
participant and a number up to `n` are at most `n` (`NumberedPairs`), and a
finite set of numbers can be listed in ascending order, without leaving one out
(`AscendingEnumeration`, `AscendingIsComplete`). Induction
is available over a given set (`NumbersFromZero`: a set of numbers with 0 and
the successor of each of its members has all of them; `LeastNumber`): enough for
the recursive functions below, each with a set of its own.

### The Java caches

For every value of the constants that satisfies `ConstantsAssumption`:

* `TypeCorrect`: `Spec => []TypeOK`, one lemma per group of actions.
* `ProvenanceHolds`: `Spec => []Provenance`. `Provenance` is not inductive: that
  an update in flight bears a created identity follows from the item that was
  marked having one, and a replica's identity from a fresh object never having
  been created. `ProvenanceInv` adds these (`CreatedAreShared`, `HeldAreShared`,
  `CreatingIsNumbered`). The argument: an identity once given to an object is
  kept (`StepKeepsIdentity`), so what has an origin keeps it (`OriginIsKept`);
  network steps only pass frames on (`SendFrames`, `ArrivedFrames`,
  `FaultFrames`); and the two steps that give an object an identity
  (`CreatePut`, `Instantiate`) give it one with an origin (`ProvenanceGrows`).
* `IdentityIsUnique`: `SingleCreator` implies `Spec => []GUIDsAreUnique`.
  `NumberingInv` adds that created instances are below the counter and that the
  number a creating thread has read is still the counter's, which holds because
  it is the only one. Both halves of `SingleCreator` are needed, see section 2.

In `OwnershipProofs`, for caches that check who owns what and identities that
are unique (`OwnershipRules` is `OwnershipCheck` and `SingleCreator`; without the
first a participant writes what another one owns, without the second two objects
share an identity, and in either case TLC finds all four violated):

* The module starts with what a step may do to each variable and which handler
  does it (`HeapStep`, `LocalStep`, `UpdatedStep`, `TodoStep`, `FramesStep`,
  `FiledStep`, ...), so that the proofs below go by cause and not by action.
* `OwnInv` says who may have whose items: a cache marks its own only, a channel
  carries those of its sender to others, what is filed in a cache is about items
  of others, an object at its owner's that bears the owner's identity is the one
  `create` gave it to, and a cache holds objects of its own participant's heap.
* `ReplicasAreBehind`: content travels from the owner's object to a datagram, to
  a pending update, to a replica. The owner's own object is never overwritten
  (`OwnerWrites`), by the ownership check of `refresh` and `OwnItemsSent`.
* `OwnersAreInCharge`: the same two facts for an action property, and
  `GoneStays`: an identity that has left its owner's cache is not given out again
  (`FreshIdentity`) and not replicated there (`OthersFiled`).
* `CreationsAreRemembered`, if nothing is lost. A replica disappears only by a
  deletion that was filed; `GoneInv` says that whatever is deleted, announced or
  filed as deleted, its owner does not hold. `publish` clears what it has sent;
  `PushedAreReaching` says that those items of the set which are not left to be
  sent are held by or on their way to everybody, which depends on the monitor of
  `_updated`: nobody marks an item meanwhile.
* `DeletionsComeLast`, if the network does nothing worse than lose and each
  participant calls its cache from one thread (`OneThread`). `DeletionInv`
  says that between the two halves of `publish` nothing is marked, and that what
  is marked or about to be was not announced as deleted.

### The C++ caches

For all participants, listeners, ownerships and bounds:

* `FramesAreWhole`: `CppSpec => []CppFramesWhole`. The property says nothing of
  `_header`, on which the next frame depends. `FramesInv` adds its four states
  (new, spent by an update, spent by a deletion, rewound after a deletion that
  was not sent); in each, if it has room for a deletion it is at its start
  (`RoomIsAtTheStart`), so that the deletion is a frame of its own.
* `NothingIsForgotten`: `CppSpec => []CppNothingForgotten`. A publish that
  succeeds sends what was marked in some order and clears the set. That every
  order is complete is the pigeonhole principle
  (`OrdersAreComplete`: an injective sequence of the length of a finite set has
  all of its elements), hence `PublishInv` also says that the pending sets are
  finite.
* `ReplicasAreGenuine`: `CppSpec => []CppReplicasGenuine`. `GenuineInv` follows an
  item backwards: what is in flight was sent, what was sent was created, what a
  receiver has filed was announced, and so was every replica.

### The Java remote operations (`CallsProofs`)

* `TypesHold`: `Spec => []TypeOK`. That a call id stays in its type is not
  inductive: `IssueCall` sends a call and `RegisterCallback` increments the id
  later. `CallsCounted` counts the threads in between: ids used plus threads that
  will use one never exceed the calls issued.
* `AnswersAreReal`: a callback runs only with the answer of an execution. An
  answer in flight was sent by `Execute`, which writes the log.
* `NoCallIsForgotten`, if the network does not lose: what `handleRequests` has
  passed by in its loop was executed or is none of the participant's operations
  (`PassedAreExecuted`), one thread at a time is in it (`OneHandler`, from its
  monitor), so that what `HandleEnd` clears has been dealt with.
* `OrderIsKept`, if the network does nothing worse than lose: the requests of one
  issuer are in order of issue along log, rest of the queue, and channel.
  `OrderInv` states it of each of the three and of each pair, since a step moves
  a request from one to the next.
* `OperationsAreImplemented`, under the same hypothesis: each step of `Calls` is
  one of `RemoteOperations` or leaves its variables alone. `Execute` is the
  abstract one because `OrderInv` puts what a handler is at after all that was
  executed, `Answer` hands over at most one answer because of `AnswersAreReal`,
  and a call appends the lane.
* `CallbacksAreMatched`, with two participants (`TwoAtMost`) and one calling
  thread each (`OneCaller`): for each message about there is a callback under its
  id, or the thread that will register it next (`CallbackKnown`).

### The C remote operations (`CDispatcherProofs`)

No hypotheses beyond the module's assumption: sends of this model are neither
duplicated nor reordered, and failures are part of the theorems.

* `CDispatcherTyped`, as for `Calls`; in addition `HandlersPlaced`: a thread in
  `handleRequests` is at a position of a queue that exists.
* `CExecutesOnce` and `CKeepsQueueOrder` follow from `OrderInv`: what was
  executed, what waits and what is in flight is in order of issue, over the
  queues that a thread is in the middle of, those it has cleared, and those it
  has not come to. Calls that chose different queues may overtake each other
  once queued, so only `ExecutedBeforeWaiting` is restricted to `SameQueue`;
  nothing in flight is ever older than what was executed or queued
  (`SeenBeforeFrames`).
* `COperationsAreImplemented`: `CDispatcher` implements `RemoteOperations`. Two
  executed requests of one lane chose the same queue (`SameLaneIsSameQueue`), so
  that `ExecutedBeforeWaiting` orders what `handleRequests` executes and
  `SeenBeforeFrames` shows that a synchronous call was never executed before.
  Nothing is ever handed over, for no callback is found (`NoCallbackFound`).
  The two theorems above say less; the refinement adds that what is executed
  was issued before, by another participant, and is never taken back.
* `CArgumentsAreOwned`: `LiveAfter` says what a step can do to the arguments:
  `Run` releases those of its call, a receiver allocates those of its frame or
  leaves them to a failure. A call is not released twice since it is executed
  once, which is why the proof needs `OrderInv`.
* `CCallsAreAccountedFor`: what a step takes from a channel it queues, executes,
  discards because the participant has left, or fails; what it takes from a
  queue was executed or is behind a failure (`Located` stays true of a request).

### The C participant and its caches (`CNodeProofs`)

* `CNodeTyped`: the number of an item is one of its participant's because a
  cache has given as many numbers as it created items (`NumbersInv`, by counting
  finite sets), sets grow only where there was room (`Fits`), and items stay in
  the cache they were created in (`AtHome`).
* `ReceiversAreJoined`: receivers of a participant that is being deleted only
  end.
* `FreedAfterAnnounced` (`FreedInv` adds that what is freed has a GUID).
* `CreationsAreKept` (`CreationKept`: between its creation and its marking the
  item is in the hands of its creator).
* `EarlierCachesAreAhead`: the property alone is not inductive, since the walk of
  `dataUpdate` stops at a hole and `createCache` may add a cache behind one;
  `NothingBeyondHole` adds that nothing was ever filed there.
* `NothingFreedIsLeft`, if a participant is used by one thread (`OneThread`).
  `SafetyInv` says what that thread knows between the two mutexes it takes: an
  item it holds is not freed, one it has removed is not in the cache any more,
  and between the two halves of `publish` nothing is marked as updated.

### The C run time and the channels (`RuntimeProofs`)

* `TypesAgree` (`ArgumentsTyped`): the map of the types is never overfull
  (`TypesFit`), so that a name it lacks was refused by a full map.
* `ArgumentsAreTransferred` (`ArgumentsTransferred`). The names of a finite map in
  ascending order exist and are all its names (`NamesInOrder`, from the two
  lemmas on ascending sequences), so the frame has each argument once, and the
  position of a name among them is compared as the name itself. What lies before
  the first character is read in step (`StopsBeforeChar`), and the argument the
  receiver may lose is the last of those (`CallTransfers`). `ArgumentsInvariant`
  adds to `TypesAgree` that the arguments are finitely many and their names those
  of the constant.
* `OptionsAreReadBack` (`OptionsReadBack`). What is shown of the loop over the
  arguments, by induction over their number (`TurnsAreTaken`, `TurnHolds`), is
  that after each argument the first definition of each name has the value that
  the arguments so far meant for it (`HoldsMeant`): the argument goes
  to the first definition of its name, which is that one if the name is its own
  (`MeantByName`), and changes what is meant only then (`MeantAfter`,
  `OneMoreArgument`). `OptionsKept`, the invariant, is `HoldsMeant` for all the arguments
  given so far, none before the parsing;
  and `getValue` finds that definition first (`FirstCandidate`).
* `BooksBalance` (`PoolAccounts`): each cell's count is the number of its
  holders, reserved minus released the number of cells in use, both by counting
  finite sets; the chosen size class is the first one that fits.
* `BuffersStayInBounds` and `FieldsAreReadBack` share `BufferInv`: numbers in
  order, fields within the array, and the bytes of a field being the digits of
  its value, the most significant first. Two facts carry it. Digits and numbers
  are inverse to each other, for any base and any number of digits
  (`DigitsOfNumber`, `NumberOfDigits`), so that the exchange of bytes undoes
  itself on either host (`EncodedDigits`, `DecodedNumber`). And a `memcpy` keeps
  the fields outside of what it overwrites, and moves those that are whole
  within what it copies (`OutsideHolds`, `InsideHolds`, `MovedHold`). An integer
  is assumed to fit the bytes it is put in (`Values`).
* `ArraysImplementCollections`: `CCollections` implements `Collections`. The
  hypothesis is `KeysTogether`: counted from some integer, round the end of their
  range, all keys lie within half of it. Then the wrapped difference of two keys
  is that of their places (`Places`), the comparator is a strict order, and what
  `bsearch` finds is what is there (`KeyIsFound`). `CollectionsInv` says that the
  arrays of the map and the set are in that order and no array is overfull; a
  new key goes to its rank, where qsort leaves it, and nothing else moves
  (`RankIsPlace`, `InsertedInOrder`, `RemovedInOrder`). With the keys in order, an
  array of pairs stands for a function with as many elements in its domain
  (`Bindings`), and each operation is one of the abstract collections
  (`CollectionsStep`).
* `ReceiversGoOn`, `HandlersAreFound` and `ListsAreDecoded`, from `ChannelInv`:
  the cells of a C channel are in strictly ascending order except while
  `addHandler` is at work, a call that no `addHandler` overlapped found the cell
  of its id, and what is left of a list is what was sent. `qsort` is known by
  what it promises, some rearrangement in ascending order, which is shown to
  exist for a sorted array with one cell more (`InsertedAscends`); the recursive
  function of `bsearch` is shown to exist and to find what is there, and only
  that (`BisectionFinds` of `SequenceLemmas`). The module assumes that a Java set is finite and that no
  end is both C and Java.

### What stays with TLC

Liveness (`QueuedIsExecuted` of both dispatchers, `CreationReplicates`,
`ReceiverEnds`): the prover has no rules for fairness and ENABLED. And the three
expected violations, which are single behaviours. Every other property of a run
is stated by a theorem. The library's induction theorems take an operator as a
parameter that no installed prover can instantiate; induction here is over sets
of numbers (`NumbersFromZero`), which was enough for `bsearch`, for the digits of
an integer and for the loop of the command line.

## 9. Mutations

A property is worth running only if a plausible bug breaks it. The definition
just above a mapped one, marked `Defect` in `Cache` and `Calls` and introduced
by "a form that..." elsewhere, is such a bug; `PROJECT.json` says which property
of which run each one must break when it takes the place of the definition
below it: numbering from zero, a missing increment, a dropped ownership check
or membership test, a monitor not taken, a set cleared on an exception, a queue
that is not cleared or cleared with all the others, a bound off by one, a datagram
read twice, items freed although their deletion was not announced, a loop that does not look at
`isAlive`, bytes that are not exchanged, a `memmove` one cell short, a header
written without looking for room, and so on.

## 10. Not modelled, and the plan

Out: logging, tracing, performance records, user interfaces, sockets (pure I/O);
the unicast participant (a stub in the code); wrappers of the operating system;
the demonstration programs and the participant registry, which is a test
program.

Left out of modelled parts: `setOwnership` after the start, queries, iterators,
registrations before the first message, restarts of a participant (GUIDs then
collide and no code detects it), the `HashMap` of the Java callbacks under a
data race, the byte counter of the Java `createCache`.

Of the C code: `collSet_contains`, which answers the contrary of what it found,
and `collList_indexOf`, which does not end unless the first item is the one
sought (nothing calls either); what `dcrudArguments_put` does when it replaces a
value (it releases it by the type of its successor); the pools of
`io/ByteBuffer.c` when `wrap` is called before `new`; the status that
`utilCmdLine_parse` returns after several failures. Of the C++ code: deferred
operations, which keep a reference to arguments on the stack of a receiver that
has moved on (undefined from the first call), and destructors, which delete
dispatcher and caches before the receivers that use them. Two threads that call
`refresh` and `handleRequests` of one C++ participant take `localMutex` and
`factoriesMutex` in opposite orders; the single application thread of `CppNode`
cannot show it.

Of the channels: nested values and arrays, the handlers that use the channel
themselves, the race of the Java `HashMap` of handlers, the socket that
`channelUDPChannel_new` leaves open when its thread cannot be started, and the
build with `malloc`, in which `channelFactories_done` does not reset the capacity
and the next `channelFactories_add` writes through NULL. `CoDec.putByte` of Java
writes four bytes of which `getByte` reads one; nothing calls them.

What a theorem does not reach are the hypotheses named in section 8, each of
them needed: `OperationsImplemented` of Java fails with exceptions or duplicated
datagrams, the caches' ownership theorems without the ownership check, and so
on. The next thing worth modelling is a restart of a participant, for which the
code has no protection; the next worth proving, when the prover has rules for
it, `CreationReplicates`.
