------------------------------- MODULE Cache -------------------------------
(***************************************************************************)
(* The distributed caches of org.hpms.mw.dcrud (Java implementation).      *)
(*                                                                         *)
(* Every participant owns caches (Cache.java), application threads that    *)
(* call create / update / delete / publish / refresh on them, and one      *)
(* receiver thread per peer that files what arrives from the network into  *)
(* _toUpdate and _toDelete.  The monitors of Cache.java (_local, _updated, *)
(* _deleted, _toUpdate, _toDelete) are not variables: who holds one is     *)
(* read off the program counters of the application threads.               *)
(*                                                                         *)
(* An Item <<p, i>> is the i-th Shareable object of participant p's heap.  *)
(* The content of an item is abstracted to a version number: its creator   *)
(* writes version 1, each application write the next one.                  *)
(***************************************************************************)
EXTENDS Naturals, Sequences

CONSTANTS
  Participant,     \* the processes that joined the multicast group
  CacheIndex,      \* indexes of the caches each participant has created
  Thread,          \* application threads of each participant
  Creator,         \* application threads that call create
  Editor,          \* application threads that call update and delete
  Networker,       \* application threads that call publish and refresh
  Subscriber,      \* participants that registered a factory for the class
  OwnershipCheck,  \* the value given to setOwnership() on every cache
  Faults,          \* what the network and the socket may do wrong
  MaxObject,       \* bound: Shareable objects per participant
  MaxInstance,     \* bound: instance numbers per cache
  MaxVersion,      \* bound: writes of one item's content
  MaxInFlight      \* bound: datagrams in flight from one peer to another

FaultKinds == {"lose", "duplicate", "reorder", "ioexception"}

(***************************************************************************)
(* Index 0 is the default cache that the participant's constructor makes.  *)
(***************************************************************************)
ASSUME ConstantsAssumption ==
  /\ 0 \in CacheIndex
  /\ Creator \cup Editor \cup Networker \subseteq Participant \X Thread
  /\ Subscriber \subseteq Participant
  /\ OwnershipCheck \in BOOLEAN
  /\ Faults \subseteq FaultKinds
  /\ MaxObject \in Nat
  /\ MaxInstance \in Nat
  /\ MaxVersion \in Nat \ {0}
  /\ MaxInFlight \in Nat

VARIABLES
  heap,          \* the Shareable objects: identity, content, who made it
  local,         \* Cache._local: the objects a cache maps its GUIDs to
  updated,       \* Cache._updated
  deleted,       \* Cache._deleted
  toUpdate,      \* Cache._toUpdate
  toDelete,      \* Cache._toDelete
  nextInstance,  \* Cache._nextInstance
  thread,        \* what each application thread is doing
  net            \* datagrams sent and not yet received, per channel

vars == <<heap, local, updated, deleted, toUpdate, toDelete, nextInstance,
          thread, net>>

-----------------------------------------------------------------------------
Item     == Participant \X (1 .. MaxObject)
CacheRef == Participant \X CacheIndex
App      == Participant \X Thread
Channel  == Participant \X Participant
GUID     == Participant \X (0 .. MaxInstance)
Version  == 0 .. MaxVersion

Shareable == [id : GUID, version : Version, created : BOOLEAN]
Frame     == [type : {"CREATE_OR_UPDATE", "DELETE"}, id : GUID,
              version : Version]

PC == {"idle", "creating", "marking", "pushingUpdated", "published",
       "pushingDeleted", "applying", "removing"}

ThreadState == [pc : PC, cache : CacheIndex, todo : SUBSET Item,
                n : 0 .. MaxInstance]

(***************************************************************************)
(* The number that the first create() of a cache gives out: 0 is none.     *)
(* (A definition marked as a defect is a variant of the one below it, used *)
(* only to show that the properties notice it: see the README.)            *)
(***************************************************************************)
\* Defect: numbering starts from 0.
FirstInstanceZero == 0

FirstInstance == 1

Idle == [pc |-> "idle", cache |-> 0, todo |-> {}, n |-> 0]

(***************************************************************************)
(* Types of all the variables.                                             *)
(***************************************************************************)
TypeOK ==
  /\ heap \in [Item -> Shareable]
  /\ local \in [CacheRef -> SUBSET Item]
  /\ updated \in [CacheRef -> SUBSET Item]
  /\ deleted \in [CacheRef -> SUBSET Item]
  /\ toUpdate \in [CacheRef -> SUBSET Frame]
  /\ toDelete \in [CacheRef -> SUBSET GUID]
  /\ nextInstance \in [CacheRef -> 1 .. MaxInstance + 1]
  /\ thread \in [App -> ThreadState]
  /\ net \in [Channel -> Seq(Frame)]

Init ==
  /\ heap = [x \in Item |-> [id |-> <<x[1], 0>>, version |-> 0,
                             created |-> FALSE]]
  /\ local = [k \in CacheRef |-> {}]
  /\ updated = [k \in CacheRef |-> {}]
  /\ deleted = [k \in CacheRef |-> {}]
  /\ toUpdate = [k \in CacheRef |-> {}]
  /\ toDelete = [k \in CacheRef |-> {}]
  /\ nextInstance = [k \in CacheRef |-> FirstInstance]
  /\ thread = [a \in App |-> Idle]
  /\ net = [ch \in Channel |-> <<>>]

-----------------------------------------------------------------------------
(***************************************************************************)
(* Vocabulary of the handlers.                                             *)
(***************************************************************************)
CacheOf(a) == <<a[1], thread[a].cache>>

IsShared(x) == heap[x].id[2] > 0

Owns(p, id) == id[1] = p

Lookup(k, id) == {x \in local[k] : heap[x].id = id}

HasKey(k, id) == Lookup(k, id) # {}

(***************************************************************************)
(* The next object that participant p allocates: objects are allocated in  *)
(* the order of their numbers, which loses no behaviour.                   *)
(***************************************************************************)
Fresh(p) == {x \in Item : x[1] = p /\ ~ IsShared(x)}

NextFresh(p) == {x \in Fresh(p) : \A y \in Fresh(p) : x[2] <= y[2]}

\* Defect: the ownership check is dropped.
MayChangeAnyway(p, id) == TRUE

MayChange(p, id) == OwnershipCheck => Owns(p, id)

(* The guards of update(): not NOT_OWNER, NOT_CREATED, NOT_IN_THIS_CACHE. *)
\* Defect: items of no cache are accepted.
UpdatableIfShared(k, x) == MayChange(k[1], heap[x].id) /\ IsShared(x)

Updatable(k, x) ==
  /\ MayChange(k[1], heap[x].id)
  /\ IsShared(x)
  /\ HasKey(k, heap[x].id)

Holds(k, pcs) == \E a \in App : thread[a].pc \in pcs /\ CacheOf(a) = k

LocalLocked(k)    == Holds(k, {"applying", "removing"})
\* Defect: publish() does not take the monitor of _updated.
UpdatedUnlocked(k) == FALSE
UpdatedLocked(k)  == Holds(k, {"pushingUpdated"})
DeletedLocked(k)  == Holds(k, {"pushingDeleted"})
ToUpdateLocked(k) == Holds(k, {"applying"})

(***************************************************************************)
(* A datagram sent to the sender's multicast group reaches every other     *)
(* participant: listen() skips the participant's own group.                *)
(***************************************************************************)
CanSend(p) == \A ch \in Channel : ch[1] = p => Len(net[ch]) < MaxInFlight

\* Defect: the test by which listen() skips the own group is inverted.
SendHome(p, f) ==
  net' = [ch \in Channel |->
            IF ch[1] = p /\ ch[2] = p THEN Append(net[ch], f) ELSE net[ch]]

Send(p, f) ==
  net' = [ch \in Channel |->
            IF ch[1] = p /\ ch[2] # p THEN Append(net[ch], f) ELSE net[ch]]

-----------------------------------------------------------------------------
\* Defect: the increment is missing.
NextNumberSame(n) == n

NextNumber(n) == n + 1

(***************************************************************************)
(* Cache.create: the instance number is read, then written back            *)
(* incremented with no lock held (_nextInstance++); the item enters _local *)
(* under the monitor of _local and, later, _updated under that of _updated *)
(* (MarkUpdated).  A shared item is refused (ALREADY_CREATED).             *)
(***************************************************************************)
CreateRead(a, c) ==
  LET k == <<a[1], c>> IN
  /\ thread[a].pc = "idle"
  /\ Fresh(a[1]) # {}
  /\ nextInstance[k] <= MaxInstance
  /\ thread' = [thread EXCEPT ![a] =
                  [pc |-> "creating", cache |-> c, todo |-> {},
                   n |-> nextInstance[k]]]
  /\ UNCHANGED <<heap, local, updated, deleted, toUpdate, toDelete,
                 nextInstance, net>>

CreatePut(a) ==
  LET k  == CacheOf(a)
      id == <<a[1], thread[a].n>>
  IN
  /\ thread[a].pc = "creating"
  /\ ~ LocalLocked(k)
  /\ \E x \in NextFresh(a[1]) :
       /\ heap' = [heap EXCEPT ![x] = [id |-> id, version |-> 1,
                                       created |-> TRUE]]
       /\ local' = [local EXCEPT ![k] = (@ \ Lookup(k, id)) \cup {x}]
       /\ thread' = [thread EXCEPT ![a].pc = "marking", ![a].todo = {x}]
  /\ nextInstance' = [nextInstance EXCEPT ![k] = NextNumber(thread[a].n)]
  /\ UNCHANGED <<updated, deleted, toUpdate, toDelete, net>>

(***************************************************************************)
(* Cache.update: the application has written new content into the item;    *)
(* the guards are evaluated with no lock held, the item enters _updated    *)
(* afterwards (MarkUpdated).                                               *)
(* The item may be one the application kept after it left the cache.       *)
(***************************************************************************)
UpdateCheck(a, c, x) ==
  /\ thread[a].pc = "idle"
  /\ x[1] = a[1]
  /\ Updatable(<<a[1], c>>, x)
  /\ heap[x].version < MaxVersion
  /\ heap' = [heap EXCEPT ![x].version = @ + 1]
  /\ thread' = [thread EXCEPT ![a] = [pc |-> "marking", cache |-> c,
                                      todo |-> {x}, n |-> 0]]
  /\ UNCHANGED <<local, updated, deleted, toUpdate, toDelete, nextInstance,
                 net>>

(* The last step of create and of update, under the monitor of _updated. *)
MarkUpdated(a) ==
  LET k == CacheOf(a) IN
  /\ thread[a].pc = "marking"
  /\ ~ UpdatedLocked(k)
  /\ updated' = [updated EXCEPT ![k] = @ \cup thread[a].todo]
  /\ thread' = [thread EXCEPT ![a] = Idle]
  /\ UNCHANGED <<heap, local, deleted, toUpdate, toDelete, nextInstance, net>>

(***************************************************************************)
(* Cache.delete, under the monitors of _local and _deleted.                *)
(***************************************************************************)
DeleteItem(a, c, x) ==
  LET k  == <<a[1], c>>
      id == heap[x].id
  IN
  /\ thread[a].pc = "idle"
  /\ x[1] = a[1]
  /\ ~ LocalLocked(k)
  /\ ~ DeletedLocked(k)
  /\ MayChange(a[1], id)
  /\ HasKey(k, id)
  /\ local' = [local EXCEPT ![k] = @ \ Lookup(k, id)]
  /\ deleted' = [deleted EXCEPT ![k] = @ \cup {x}]
  /\ UNCHANGED <<heap, updated, toUpdate, toDelete, nextInstance, thread, net>>

-----------------------------------------------------------------------------
(***************************************************************************)
(* Cache.publish: first every item of _updated is serialised with its      *)
(* content of the moment and sent, in the order of a HashSet, then         *)
(* _updated is cleared, all under its monitor; the monitor is released;    *)
(* then the same with _deleted.  An IOException leaves the set uncleared.  *)
(***************************************************************************)
PublishBegin(a, c) ==
  LET k == <<a[1], c>> IN
  /\ thread[a].pc = "idle"
  /\ ~ UpdatedLocked(k)
  /\ thread' = [thread EXCEPT ![a] = [pc |-> "pushingUpdated", cache |-> c,
                                      todo |-> updated[k], n |-> 0]]
  /\ UNCHANGED <<heap, local, updated, deleted, toUpdate, toDelete,
                 nextInstance, net>>

PushCreateOrUpdateItem(a) ==
  /\ thread[a].pc = "pushingUpdated"
  /\ CanSend(a[1])
  /\ \E x \in thread[a].todo :
       /\ Send(a[1], [type |-> "CREATE_OR_UPDATE", id |-> heap[x].id,
                      version |-> heap[x].version])
       /\ thread' = [thread EXCEPT ![a].todo = @ \ {x}]
  /\ UNCHANGED <<heap, local, updated, deleted, toUpdate, toDelete,
                 nextInstance>>

PublishUpdated(a) ==
  /\ thread[a].pc = "pushingUpdated"
  /\ thread[a].todo = {}
  /\ updated' = [updated EXCEPT ![CacheOf(a)] = {}]
  /\ thread' = [thread EXCEPT ![a].pc = "published"]
  /\ UNCHANGED <<heap, local, deleted, toUpdate, toDelete, nextInstance, net>>

PublishDeletedBegin(a) ==
  LET k == CacheOf(a) IN
  /\ thread[a].pc = "published"
  /\ ~ DeletedLocked(k)
  /\ thread' = [thread EXCEPT ![a].pc = "pushingDeleted",
                              ![a].todo = deleted[k]]
  /\ UNCHANGED <<heap, local, updated, deleted, toUpdate, toDelete,
                 nextInstance, net>>

PushDeleteItem(a) ==
  /\ thread[a].pc = "pushingDeleted"
  /\ CanSend(a[1])
  /\ \E x \in thread[a].todo :
       /\ Send(a[1], [type |-> "DELETE", id |-> heap[x].id, version |-> 0])
       /\ thread' = [thread EXCEPT ![a].todo = @ \ {x}]
  /\ UNCHANGED <<heap, local, updated, deleted, toUpdate, toDelete,
                 nextInstance>>

PublishDeleted(a) ==
  /\ thread[a].pc = "pushingDeleted"
  /\ thread[a].todo = {}
  /\ deleted' = [deleted EXCEPT ![CacheOf(a)] = {}]
  /\ thread' = [thread EXCEPT ![a] = Idle]
  /\ UNCHANGED <<heap, local, updated, toUpdate, toDelete, nextInstance, net>>

\* Defect: the set is cleared in a finally clause.
PublishFailsCleared(a) ==
  /\ "ioexception" \in Faults
  /\ thread[a].pc = "pushingUpdated"
  /\ thread[a].todo # {}
  /\ updated' = [updated EXCEPT ![CacheOf(a)] = {}]
  /\ thread' = [thread EXCEPT ![a] = Idle]
  /\ UNCHANGED <<heap, local, deleted, toUpdate, toDelete, nextInstance, net>>

PublishFails(a) ==
  /\ "ioexception" \in Faults
  /\ thread[a].pc \in {"pushingUpdated", "pushingDeleted"}
  /\ thread[a].todo # {}
  /\ thread' = [thread EXCEPT ![a] = Idle]
  /\ UNCHANGED <<heap, local, updated, deleted, toUpdate, toDelete,
                 nextInstance, net>>

-----------------------------------------------------------------------------
(***************************************************************************)
(* Cache.refresh: under the monitor of _local, first every update of       *)
(* _toUpdate is applied, in the order of a HashSet and under the monitor   *)
(* of _toUpdate; that monitor is released; then the GUIDs of _toDelete     *)
(* leave _local, whoever owns them.                                        *)
(***************************************************************************)
RefreshBegin(a, c) ==
  LET k == <<a[1], c>> IN
  /\ thread[a].pc = "idle"
  /\ ~ LocalLocked(k)
  /\ thread' = [thread EXCEPT ![a] = [pc |-> "applying", cache |-> c,
                                      todo |-> {}, n |-> 0]]
  /\ UNCHANGED <<heap, local, updated, deleted, toUpdate, toDelete,
                 nextInstance, net>>

(* The item is present: unserialize() overwrites its content. *)
Overwrite(k, f) ==
  /\ HasKey(k, f.id)
  /\ heap' = IF OwnershipCheck /\ Owns(k[1], f.id) THEN heap
             ELSE [x \in Item |-> IF x \in Lookup(k, f.id)
                                  THEN [heap[x] EXCEPT !.version = f.version]
                                  ELSE heap[x]]
  /\ UNCHANGED local

\* Defect: a replica gets a number of the cache that makes it.
ReplicaRenumbered(k, f) ==
  [id |-> <<k[1], nextInstance[k]>>, version |-> f.version, created |-> FALSE]

Replica(k, f) == [id |-> f.id, version |-> f.version, created |-> FALSE]

(* The item is absent: newInstance() makes a replica, if the class is known. *)
Instantiate(k, f) ==
  /\ ~ HasKey(k, f.id)
  /\ IF k[1] \in Subscriber
     THEN \E x \in NextFresh(k[1]) :
            /\ heap' = [heap EXCEPT ![x] = Replica(k, f)]
            /\ local' = [local EXCEPT ![k] = @ \cup {x}]
     ELSE UNCHANGED <<heap, local>>

RefreshUpdate(a) ==
  LET k == CacheOf(a) IN
  /\ thread[a].pc = "applying"
  /\ \E f \in toUpdate[k] :
       /\ Overwrite(k, f) \/ Instantiate(k, f)
       /\ toUpdate' = [toUpdate EXCEPT ![k] = @ \ {f}]
  /\ UNCHANGED <<updated, deleted, toDelete, nextInstance, thread, net>>

RefreshUpdated(a) ==
  /\ thread[a].pc = "applying"
  /\ toUpdate[CacheOf(a)] = {}
  /\ thread' = [thread EXCEPT ![a].pc = "removing"]
  /\ UNCHANGED <<heap, local, updated, deleted, toUpdate, toDelete,
                 nextInstance, net>>

RefreshDelete(a) ==
  LET k == CacheOf(a) IN
  /\ thread[a].pc = "removing"
  /\ local' = [local EXCEPT ![k] = {x \in @ : heap[x].id \notin toDelete[k]}]
  /\ toDelete' = [toDelete EXCEPT ![k] = {}]
  /\ thread' = [thread EXCEPT ![a] = Idle]
  /\ UNCHANGED <<heap, updated, deleted, toUpdate, nextInstance, net>>

-----------------------------------------------------------------------------
(***************************************************************************)
(* The receiver thread of channel ch takes one datagram and files it into  *)
(* every cache of its participant, under their monitors.                   *)
(***************************************************************************)
Arrived(ch) == net[ch] # <<>> /\ net' = [net EXCEPT ![ch] = Tail(@)]

DataUpdate(ch) ==
  /\ Arrived(ch)
  /\ Head(net[ch]).type = "CREATE_OR_UPDATE"
  /\ \A c \in CacheIndex : ~ ToUpdateLocked(<<ch[2], c>>)
  /\ toUpdate' = [k \in CacheRef |->
                    IF k[1] = ch[2] THEN toUpdate[k] \cup {Head(net[ch])}
                    ELSE toUpdate[k]]
  /\ UNCHANGED <<heap, local, updated, deleted, toDelete, nextInstance,
                 thread>>

DataDelete(ch) ==
  /\ Arrived(ch)
  /\ Head(net[ch]).type = "DELETE"
  /\ toDelete' = [k \in CacheRef |->
                    IF k[1] = ch[2] THEN toDelete[k] \cup {Head(net[ch]).id}
                    ELSE toDelete[k]]
  /\ UNCHANGED <<heap, local, updated, deleted, toUpdate, nextInstance,
                 thread>>

(***************************************************************************)
(* What UDP multicast may do to the datagrams of a channel.                *)
(***************************************************************************)
NetworkFault(ch) ==
  /\ net[ch] # <<>>
  /\ \/ /\ "lose" \in Faults
        /\ net' = [net EXCEPT ![ch] = Tail(@)]
     \/ /\ "duplicate" \in Faults
        /\ Len(net[ch]) < MaxInFlight
        /\ net' = [net EXCEPT ![ch] = Append(@, Head(@))]
     \/ /\ "reorder" \in Faults
        /\ net' = [net EXCEPT ![ch] = Append(Tail(@), Head(@))]
  /\ UNCHANGED <<heap, local, updated, deleted, toUpdate, toDelete,
                 nextInstance, thread>>

-----------------------------------------------------------------------------
(* The steps a thread takes once it has entered a method of the cache. *)
Proceed(a) ==
  \/ CreatePut(a)
  \/ MarkUpdated(a)
  \/ PushCreateOrUpdateItem(a)
  \/ PublishUpdated(a)
  \/ PublishDeletedBegin(a)
  \/ PushDeleteItem(a)
  \/ PublishDeleted(a)
  \/ RefreshUpdate(a)
  \/ RefreshUpdated(a)
  \/ RefreshDelete(a)

(* The methods an idle thread may call. *)
Call(a, c) ==
  \/ a \in Creator /\ CreateRead(a, c)
  \/ a \in Editor /\ \E x \in Item : UpdateCheck(a, c, x) \/ DeleteItem(a, c, x)
  \/ a \in Networker /\ (PublishBegin(a, c) \/ RefreshBegin(a, c))

Receive(ch) == DataUpdate(ch) \/ DataDelete(ch)

Next ==
  \/ \E a \in App : Proceed(a) \/ PublishFails(a)
  \/ \E a \in App, c \in CacheIndex : Call(a, c)
  \/ \E ch \in Channel : Receive(ch) \/ NetworkFault(ch)

Spec == Init /\ [][Next]_vars

(***************************************************************************)
(* Fairness: a thread inside a method goes on, and a receiver thread files *)
(* its datagram, though other threads may take the monitor they need again *)
(* and again: it is free for most of the 40 ms between two of their calls  *)
(* in ShapesUI, hence SF.  The networking threads publish and refresh each *)
(* cache for ever (the timer of ShapesUI, the loops of Publisher and       *)
(* Subscriber), which a thread busy with one call at a time can only do    *)
(* intermittently: SF again.                                               *)
(***************************************************************************)
Fairness ==
  /\ \A a \in App : SF_vars(Proceed(a))
  /\ \A ch \in Channel : SF_vars(Receive(ch))
  /\ \A a \in Networker, c \in CacheIndex : /\ SF_vars(PublishBegin(a, c))
                                           /\ SF_vars(RefreshBegin(a, c))

FairSpec == Spec /\ Fairness

-----------------------------------------------------------------------------
(***************************************************************************)
(* Identity.  Two items that create() has accepted, anywhere in the        *)
(* system, have different GUIDs ("an identity, unique system wide").       *)
(***************************************************************************)
GUIDsAreUnique ==
  \A x, y \in Item :
    heap[x].created /\ heap[y].created /\ heap[x].id = heap[y].id => x = y

(* The item an application created under identity id. *)
Origin(id) == {x \in Item : heap[x].created /\ heap[x].id = id}

FramesIn(ch) == {net[ch][i] : i \in 1 .. Len(net[ch])}

(* Every update that is on its way to, or waits in, cache k. *)
UpdatesTo(k) ==
  toUpdate[k] \cup UNION {{f \in FramesIn(ch) : f.type = "CREATE_OR_UPDATE"} :
                            ch \in {d \in Channel : d[2] = k[1]}}

(***************************************************************************)
(* Provenance.  Whatever identity a replica, a datagram or a pending       *)
(* update or deletion bears is that of an item its publisher has created:  *)
(* loss, duplication and disorder never make a participant hold, or        *)
(* delete, something nobody created.                                       *)
(***************************************************************************)
Provenance ==
  /\ \A x \in Item : IsShared(x) => Origin(heap[x].id) # {}
  /\ \A ch \in Channel : \A f \in FramesIn(ch) : Origin(f.id) # {}
  /\ \A k \in CacheRef : /\ \A f \in toUpdate[k] : Origin(f.id) # {}
                         /\ \A id \in toDelete[k] : Origin(id) # {}

(***************************************************************************)
(* Under the ownership check no replica, datagram or pending update is     *)
(* ahead of the item its publisher holds: content only comes from the      *)
(* owner.                                                                  *)
(***************************************************************************)
ReplicasNeverAhead ==
  \A o \in Item : heap[o].created =>
    /\ \A x \in Item : heap[x].id = heap[o].id =>
                         heap[x].version <= heap[o].version
    /\ \A k \in CacheRef : \A f \in UpdatesTo(k) :
         f.id = heap[o].id => f.version <= heap[o].version

(***************************************************************************)
(* Under the ownership check an owner's item changes by its own            *)
(* application's writes only, never by refresh(), and once the owner has   *)
(* deleted an item its cache never holds that identity again.              *)
(***************************************************************************)
OwnersChange ==
  \A x \in Item : heap[x].created =>
    LET held(k) == \E y \in local[k] : heap[y].id = heap[x].id
    IN /\ heap'[x].version # heap[x].version =>
            \E a \in App : /\ a[1] = x[1]
                           /\ thread[a].pc = "idle"
                           /\ thread'[a].pc = "marking"
       /\ \A c \in CacheIndex : ~ held(<<x[1], c>>) => ~ held(<<x[1], c>>)'

OwnerDecides == [][OwnersChange]_vars

(* Cache k is going to hold the identity id, or already does. *)
Reaching(id, k) ==
  \/ HasKey(k, id)
  \/ \E f \in UpdatesTo(k) : f.id = id

(***************************************************************************)
(* On a network without loss, an item that its owner still holds is,       *)
(* for every cache of every other participant that knows the class,        *)
(* already replicated, on its way, or still to be published: no            *)
(* interleaving of create, publish (which clears _updated), receive and    *)
(* refresh (which clears _toUpdate) forgets a creation.                    *)
(***************************************************************************)
CreationNeverForgotten ==
  \A k \in CacheRef : \A x \in local[k] : heap[x].created =>
    \/ x \in updated[k]
    \/ \E a \in App : /\ thread[a].pc = "marking"
                      /\ CacheOf(a) = k
                      /\ x \in thread[a].todo
    \/ \A j \in CacheRef :
         j[1] # k[1] /\ j[1] \in Subscriber => Reaching(heap[x].id, j)

(***************************************************************************)
(* Under the ownership check and on a FIFO network, no channel carries an  *)
(* update of an item behind the item's deletion: publish() never announces *)
(* again what it has announced as deleted.                                 *)
(***************************************************************************)
UpdateNeverFollowsDelete ==
  \A ch \in Channel : \A i, j \in 1 .. Len(net[ch]) :
    i < j /\ net[ch][i].type = "DELETE" /\ net[ch][j].type = "CREATE_OR_UPDATE"
      => net[ch][i].id # net[ch][j].id

-----------------------------------------------------------------------------
(***************************************************************************)
(* Under fair publishing and refreshing, an item that is created and not   *)
(* deleted by its owner is eventually replicated in the cache of every     *)
(* participant that knows its class.                                       *)
(***************************************************************************)
CreationReplicates ==
  \A x \in Item, j \in CacheRef : j[1] # x[1] /\ j[1] \in Subscriber =>
    ((heap[x].created /\ ~ HasKey(j, heap[x].id))
       ~> (HasKey(j, heap[x].id) \/ ~ HasKey(<<x[1], 0>>, heap[x].id)))

-----------------------------------------------------------------------------
(***************************************************************************)
(* Provenance is not inductive by itself: a fresh object must be one that  *)
(* nobody created, and what the caches and the threads hold ready to be    *)
(* published must bear an identity.                                        *)
(***************************************************************************)
CreatedAreShared == \A x \in Item : heap[x].created => IsShared(x)

HeldAreShared ==
  /\ \A k \in CacheRef : \A x \in updated[k] \cup deleted[k] : IsShared(x)
  /\ \A k \in CacheRef : \A x \in local[k] : IsShared(x)
  /\ \A a \in App : \A x \in thread[a].todo : IsShared(x)

CreatingIsNumbered ==
  \A a \in App : thread[a].pc = "creating" => thread[a].n > 0

(***************************************************************************)
(* The inductive invariant behind Provenance: with it, every identity that *)
(* travels is traced back, through publish, receive and refresh, to the    *)
(* create() that gave it out.                                              *)
(***************************************************************************)
ProvenanceInv ==
  Provenance /\ CreatedAreShared /\ HeldAreShared /\ CreatingIsNumbered

(***************************************************************************)
(* The use of the library under which identities are unique: one cache per *)
(* participant, and one thread of it that creates.                         *)
(***************************************************************************)
SingleCreator ==
  /\ CacheIndex = {0}
  /\ \A a, b \in Creator : a[1] = b[1] => a = b

(***************************************************************************)
(* The inductive invariant behind GUIDsAreUnique: what create() has given  *)
(* out is below the counter, and the number a creating thread has read is  *)
(* still the counter's.                                                    *)
(***************************************************************************)
NumberingInv ==
  /\ GUIDsAreUnique
  /\ \A x \in Item : heap[x].created =>
       /\ heap[x].id[1] = x[1]
       /\ heap[x].id[2] > 0
       /\ heap[x].id[2] < nextInstance[<<x[1], 0>>]
  /\ \A a \in App : thread[a].pc = "creating" =>
       a \in Creator /\ thread[a].n = nextInstance[<<a[1], 0>>]
=============================================================================
