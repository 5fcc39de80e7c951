--------------------------- MODULE OwnershipProofs ---------------------------
(***************************************************************************)
(* Theorems about what the owner of an item can rely on (Cache), for all   *)
(* participants, threads, faults and bounds, when every cache checks who   *)
(* owns what it changes (setOwnership(true)) and identities are unique     *)
(* (SingleCreator).                                                        *)
(***************************************************************************)
EXTENDS CacheProofs, SequenceLemmas

-----------------------------------------------------------------------------
(***************************************************************************)
(* Who may have whose items.  A cache announces its own only; channels     *)
(* carry those of their sender to others; nothing that is filed in a cache *)
(* is about an item of its own participant; and an object that bears the   *)
(* identity of its participant is the one that create() gave it to.        *)
(***************************************************************************)
OwnItemsMarked ==
  /\ \A k \in CacheRef : \A x \in updated[k] \cup deleted[k] : heap[x].id[1] = k[1]
  /\ \A a \in App : \A x \in thread[a].todo : heap[x].id[1] = a[1]

OwnItemsSent ==
  \A ch \in Channel : \A f \in FramesIn(ch) : f.id[1] = ch[1] /\ ch[1] # ch[2]

OthersFiled ==
  \A k \in CacheRef : /\ \A f \in toUpdate[k] : f.id[1] # k[1]
                      /\ \A id \in toDelete[k] : id[1] # k[1]

OwnItemsCreated ==
  \A x \in Item : IsShared(x) /\ heap[x].id[1] = x[1] => heap[x].created

ObjectsAtHome == \A k \in CacheRef : \A x \in local[k] : x[1] = k[1]

OwnInv == OwnItemsMarked /\ OwnItemsSent /\ OthersFiled /\ OwnItemsCreated /\ ObjectsAtHome

(* What the proofs about owners start from. *)
BaseInv == TypeOK /\ ProvenanceInv /\ NumberingInv /\ OwnInv

(***************************************************************************)
(* What its owner has deleted, or somebody has announced as deleted, the   *)
(* owner's cache does not hold.                                            *)
(***************************************************************************)
Gone(id) == ~ HasKey(<<id[1], 0>>, id)

GoneInv ==
  /\ \A k \in CacheRef : \A x \in deleted[k] : Gone(heap[x].id)
  /\ \A a \in App : thread[a].pc = "pushingDeleted" =>
       \A x \in thread[a].todo : Gone(heap[x].id)
  /\ \A ch \in Channel : \A f \in FramesIn(ch) : f.type = "DELETE" => Gone(f.id)
  /\ \A k \in CacheRef : \A id \in toDelete[k] : Gone(id)

(***************************************************************************)
(* publish() is going to clear the items it has sent: those that its cache *)
(* holds have reached everybody, or are on their way.                      *)
(***************************************************************************)
ReachingAll(id) ==
  \A j \in CacheRef : j[1] # id[1] /\ j[1] \in Subscriber => Reaching(id, j)

PushedAreReaching ==
  \A a \in App : thread[a].pc = "pushingUpdated" =>
    \A x \in updated[CacheOf(a)] \ thread[a].todo :
      x \in local[CacheOf(a)] /\ heap[x].created => ReachingAll(heap[x].id)

CreationInv == GoneInv /\ PushedAreReaching /\ CreationNeverForgotten

(***************************************************************************)
(* The use of the library under which updates precede deletions: each      *)
(* participant calls its cache from one thread.                            *)
(***************************************************************************)
OneThread ==
  \A a, b \in Creator \cup Editor \cup Networker : a[1] = b[1] => a = b

Announced(id) ==
  \E ch \in Channel : \E f \in FramesIn(ch) : f.type = "DELETE" /\ f.id = id

DeletionInv ==
  /\ \A a \in App : thread[a].pc # "idle" => a \in Creator \cup Editor \cup Networker
  /\ \A a \in App : thread[a].pc \in {"published", "pushingDeleted"} =>
       updated[CacheOf(a)] = {}
  /\ \A k \in CacheRef : \A x \in updated[k] : ~ Announced(heap[x].id)
  /\ \A a \in App : thread[a].pc \in {"marking", "pushingUpdated"} =>
       \A x \in thread[a].todo : ~ Announced(heap[x].id)
  /\ UpdateNeverFollowsDelete

-----------------------------------------------------------------------------
(***************************************************************************)
(* What a step may do to each variable, and which handler does it.         *)
(***************************************************************************)
UpdateOf(x) ==
  [type |-> "CREATE_OR_UPDATE", id |-> heap[x].id, version |-> heap[x].version]

DeletionOf(x) == [type |-> "DELETE", id |-> heap[x].id, version |-> 0]

(* The ways an object changes: created, written by its application,        *)
(* overwritten by an update that was filed, or made a replica of one.      *)
Creates(a, x) ==
  /\ CreatePut(a)
  /\ x[1] = a[1]
  /\ ~ IsShared(x)
  /\ heap'[x] = [id |-> <<a[1], thread[a].n>>, version |-> 1, created |-> TRUE]

Overwrites(a, x, f) ==
  /\ RefreshUpdate(a)
  /\ f \in toUpdate[CacheOf(a)]
  /\ x \in Lookup(CacheOf(a), f.id)
  /\ ~ (OwnershipCheck /\ Owns(a[1], f.id))
  /\ heap'[x] = [heap[x] EXCEPT !.version = f.version]

Replicates(a, x, f) ==
  /\ RefreshUpdate(a)
  /\ f \in toUpdate[CacheOf(a)]
  /\ x[1] = a[1]
  /\ ~ IsShared(x)
  /\ heap'[x] = [id |-> f.id, version |-> f.version, created |-> FALSE]

HeapChange(x) ==
  \/ heap'[x] = heap[x]
  \/ \E a \in App : Creates(a, x)
  \/ \E a \in App, c \in CacheIndex : UpdateCheck(a, c, x)
  \/ \E a \in App : \E f \in toUpdate[CacheOf(a)] : Overwrites(a, x, f)
  \/ \E a \in App : \E f \in toUpdate[CacheOf(a)] : Replicates(a, x, f)

(* The object that create() takes, and where it goes. *)
LEMMA CreatePutStep ==
  ASSUME TypeOK, NEW a \in App, CreatePut(a)
  PROVE  \E x \in Item :
           /\ Creates(a, x)
           /\ \A y \in Item \ {x} : heap'[y] = heap[y]
           /\ local' = [local EXCEPT ![CacheOf(a)] =
                          (local[CacheOf(a)] \ Lookup(CacheOf(a), <<a[1], thread[a].n>>))
                             \cup {x}]
           /\ thread'[a].pc = "marking" /\ thread'[a].todo = {x}
           /\ thread'[a].cache = thread[a].cache
           /\ \A b \in App \ {a} : thread'[b] = thread[b]
<1>1. PICK x \in NextFresh(a[1]) :
        /\ heap' = [heap EXCEPT ![x] = [id |-> <<a[1], thread[a].n>>, version |-> 1,
                                        created |-> TRUE]]
        /\ local' = [local EXCEPT ![CacheOf(a)] =
                       (local[CacheOf(a)] \ Lookup(CacheOf(a), <<a[1], thread[a].n>>))
                          \cup {x}]
        /\ thread' = [thread EXCEPT ![a].pc = "marking", ![a].todo = {x}]
  BY DEF CreatePut
<1>2. x \in Item /\ x[1] = a[1] /\ ~ IsShared(x)
  BY DEF NextFresh, Fresh
<1>3. /\ heap'[x] = [id |-> <<a[1], thread[a].n>>, version |-> 1, created |-> TRUE]
      /\ \A y \in Item \ {x} : heap'[y] = heap[y]
  BY <1>1, <1>2 DEF TypeOK
<1>4. /\ thread'[a].pc = "marking" /\ thread'[a].todo = {x}
      /\ thread'[a].cache = thread[a].cache
      /\ \A b \in App \ {a} : thread'[b] = thread[b]
  BY <1>1, ThreadTyping DEF TypeOK, ThreadState
<1> QED
  BY <1>1, <1>2, <1>3, <1>4 DEF Creates

(* What refresh() does with one of the updates. *)
LEMMA RefreshUpdateStep ==
  ASSUME TypeOK, NEW a \in App, RefreshUpdate(a)
  PROVE  \E f \in toUpdate[CacheOf(a)] :
           /\ toUpdate' = [toUpdate EXCEPT ![CacheOf(a)] = toUpdate[CacheOf(a)] \ {f}]
           /\ \/ /\ HasKey(CacheOf(a), f.id)
                 /\ local' = local
                 /\ \A x \in Item : heap'[x] = heap[x] \/ Overwrites(a, x, f)
              \/ /\ ~ HasKey(CacheOf(a), f.id)
                 /\ a[1] \notin Subscriber
                 /\ heap' = heap /\ local' = local
              \/ /\ ~ HasKey(CacheOf(a), f.id)
                 /\ \E x \in Item :
                      /\ Replicates(a, x, f)
                      /\ \A y \in Item \ {x} : heap'[y] = heap[y]
                      /\ local' = [local EXCEPT ![CacheOf(a)] = local[CacheOf(a)] \cup {x}]
<1>1. PICK f \in toUpdate[CacheOf(a)] :
        /\ Overwrite(CacheOf(a), f) \/ Instantiate(CacheOf(a), f)
        /\ toUpdate' = [toUpdate EXCEPT ![CacheOf(a)] = toUpdate[CacheOf(a)] \ {f}]
  BY DEF RefreshUpdate
<1>2. CacheOf(a)[1] = a[1]
  BY DEF CacheOf
<1>3. CASE Overwrite(CacheOf(a), f)
  <2>1. HasKey(CacheOf(a), f.id) /\ local' = local
    BY <1>3 DEF Overwrite
  <2>2. CASE OwnershipCheck /\ Owns(a[1], f.id)
    BY <1>1, <1>2, <1>3, <2>1, <2>2 DEF Overwrite
  <2>3. CASE ~ (OwnershipCheck /\ Owns(a[1], f.id))
    <3>1. heap' = [x \in Item |-> IF x \in Lookup(CacheOf(a), f.id)
                                  THEN [heap[x] EXCEPT !.version = f.version]
                                  ELSE heap[x]]
      BY <1>2, <1>3, <2>3 DEF Overwrite
    <3>2. ASSUME NEW x \in Item
          PROVE  heap'[x] = heap[x] \/ Overwrites(a, x, f)
      BY <1>1, <2>3, <3>1 DEF Overwrites
    <3> QED
      BY <1>1, <2>1, <3>2
  <2> QED
    BY <2>2, <2>3
<1>4. CASE Instantiate(CacheOf(a), f) /\ a[1] \notin Subscriber
  BY <1>1, <1>2, <1>4 DEF Instantiate
<1>5. CASE Instantiate(CacheOf(a), f) /\ a[1] \in Subscriber
  <2>1. PICK x \in NextFresh(a[1]) :
          /\ heap' = [heap EXCEPT ![x] = [id |-> f.id, version |-> f.version,
                                          created |-> FALSE]]
          /\ local' = [local EXCEPT ![CacheOf(a)] = local[CacheOf(a)] \cup {x}]
    BY <1>2, <1>5 DEF Instantiate, Replica
  <2>2. x \in Item /\ x[1] = a[1] /\ ~ IsShared(x)
    BY DEF NextFresh, Fresh
  <2>3. /\ heap'[x] = [id |-> f.id, version |-> f.version, created |-> FALSE]
        /\ \A y \in Item \ {x} : heap'[y] = heap[y]
    BY <2>1, <2>2 DEF TypeOK
  <2>4. Replicates(a, x, f)
    BY <1>1, <2>2, <2>3 DEF Replicates
  <2>5. ~ HasKey(CacheOf(a), f.id)
    BY <1>5 DEF Instantiate
  <2> QED
    BY <1>1, <2>1, <2>2, <2>3, <2>4, <2>5
<1> QED
  BY <1>1, <1>3, <1>4, <1>5

LEMMA HeapStep ==
  ASSUME TypeOK, [Next]_vars, NEW x \in Item
  PROVE  HeapChange(x)
<1>1. CASE heap' = heap
  BY <1>1 DEF HeapChange
<1>2. ASSUME NEW a \in App, CreatePut(a)
      PROVE  HeapChange(x)
  BY <1>2, CreatePutStep DEF HeapChange
<1>3. ASSUME NEW a \in App, NEW c \in CacheIndex, NEW y \in Item, UpdateCheck(a, c, y)
      PROVE  HeapChange(x)
  <2>1. CASE x = y
    BY <1>3, <2>1 DEF HeapChange
  <2>2. CASE x # y
    <3>1. heap'[x] = heap[x]
      BY <1>3, <2>2 DEF UpdateCheck, TypeOK
    <3> QED
      BY <3>1 DEF HeapChange
  <2> QED
    BY <2>1, <2>2
<1>4. ASSUME NEW a \in App, RefreshUpdate(a)
      PROVE  HeapChange(x)
  BY <1>4, RefreshUpdateStep DEF HeapChange
<1>5. \A a \in App : Proceed(a) \/ PublishFails(a) =>
        heap' = heap \/ CreatePut(a) \/ RefreshUpdate(a)
  BY DEF Proceed, PublishFails, MarkUpdated, PushCreateOrUpdateItem,
         PublishUpdated, PublishDeletedBegin, PushDeleteItem, PublishDeleted,
         RefreshUpdated, RefreshDelete
<1>6. \A a \in App, c \in CacheIndex : Call(a, c) =>
        heap' = heap \/ \E y \in Item : UpdateCheck(a, c, y)
  BY DEF Call, CreateRead, DeleteItem, PublishBegin, RefreshBegin
<1>7. \A ch \in Channel : Receive(ch) \/ NetworkFault(ch) => heap' = heap
  BY DEF Receive, DataUpdate, DataDelete, NetworkFault
<1> QED
  BY <1>1, <1>2, <1>3, <1>4, <1>5, <1>6, <1>7 DEF Next, vars

(* What enters a cache: what create() and refresh() make. *)
Enters(k, x) ==
  \/ \E a \in App : Creates(a, x) /\ k = CacheOf(a)
  \/ \E a \in App : \E f \in toUpdate[CacheOf(a)] :
       Replicates(a, x, f) /\ k = CacheOf(a) /\ ~ HasKey(k, f.id)

LEMMA LocalStep ==
  ASSUME TypeOK, [Next]_vars, NEW k \in CacheRef, NEW x \in local'[k]
  PROVE  x \in local[k] \/ Enters(k, x)
<1>1. CASE local' = local
  BY <1>1
<1>2. ASSUME NEW a \in App, CreatePut(a)
      PROVE  x \in local[k] \/ Enters(k, x)
  <2>1. PICK y \in Item :
          /\ Creates(a, y)
          /\ local' = [local EXCEPT ![CacheOf(a)] =
                         (local[CacheOf(a)] \ Lookup(CacheOf(a), <<a[1], thread[a].n>>))
                            \cup {y}]
    BY <1>2, CreatePutStep
  <2>2. x \in local[k] \/ (k = CacheOf(a) /\ x = y)
    BY <2>1 DEF TypeOK
  <2> QED
    BY <2>1, <2>2 DEF Enters
<1>3. ASSUME NEW a \in App, RefreshUpdate(a)
      PROVE  x \in local[k] \/ Enters(k, x)
  <2>1. CASE local' = local
    BY <2>1
  <2>2. CASE local' # local
    <3>1. PICK f \in toUpdate[CacheOf(a)] :
            /\ ~ HasKey(CacheOf(a), f.id)
            /\ \E y \in Item :
                 /\ Replicates(a, y, f)
                 /\ local' = [local EXCEPT ![CacheOf(a)] = local[CacheOf(a)] \cup {y}]
      BY <1>3, <2>2, RefreshUpdateStep
    <3>2. PICK y \in Item :
            /\ Replicates(a, y, f)
            /\ local' = [local EXCEPT ![CacheOf(a)] = local[CacheOf(a)] \cup {y}]
      BY <3>1
    <3>3. x \in local[k] \/ (k = CacheOf(a) /\ x = y)
      BY <3>2 DEF TypeOK
    <3> QED
      BY <3>1, <3>2, <3>3 DEF Enters
  <2> QED
    BY <2>1, <2>2
<1>4. ASSUME NEW a \in App, RefreshDelete(a)
      PROVE  x \in local[k]
  BY <1>4 DEF RefreshDelete, TypeOK
<1>5. ASSUME NEW a \in App, NEW c \in CacheIndex, NEW y \in Item, DeleteItem(a, c, y)
      PROVE  x \in local[k]
  BY <1>5 DEF DeleteItem, TypeOK
<1>6. \A a \in App : Proceed(a) \/ PublishFails(a) =>
        local' = local \/ CreatePut(a) \/ RefreshUpdate(a) \/ RefreshDelete(a)
  BY DEF Proceed, PublishFails, MarkUpdated, PushCreateOrUpdateItem,
         PublishUpdated, PublishDeletedBegin, PushDeleteItem, PublishDeleted,
         RefreshUpdated
<1>7. \A a \in App, c \in CacheIndex : Call(a, c) =>
        local' = local \/ \E y \in Item : DeleteItem(a, c, y)
  BY DEF Call, CreateRead, UpdateCheck, PublishBegin, RefreshBegin
<1>8. \A ch \in Channel : Receive(ch) \/ NetworkFault(ch) => local' = local
  BY DEF Receive, DataUpdate, DataDelete, NetworkFault
<1> QED
  BY <1>1, <1>2, <1>3, <1>4, <1>5, <1>6, <1>7, <1>8 DEF Next, vars

LEMMA UpdatedStep ==
  ASSUME TypeOK, [Next]_vars, NEW k \in CacheRef, NEW x \in updated'[k]
  PROVE  \/ x \in updated[k]
         \/ \E a \in App : MarkUpdated(a) /\ k = CacheOf(a) /\ x \in thread[a].todo
<1>1. CASE updated' = updated
  BY <1>1
<1>2. ASSUME NEW a \in App, MarkUpdated(a)
      PROVE  x \in updated[k] \/ (k = CacheOf(a) /\ x \in thread[a].todo)
  BY <1>2 DEF MarkUpdated, TypeOK
<1>3. ASSUME NEW a \in App, PublishUpdated(a)
      PROVE  x \in updated[k]
  BY <1>3 DEF PublishUpdated, TypeOK
<1>4. \A a \in App : Proceed(a) \/ PublishFails(a) =>
        updated' = updated \/ MarkUpdated(a) \/ PublishUpdated(a)
  BY DEF Proceed, PublishFails, CreatePut, PushCreateOrUpdateItem, PublishDeletedBegin,
         PushDeleteItem, PublishDeleted, RefreshUpdate, RefreshUpdated, RefreshDelete
<1>5. \A a \in App, c \in CacheIndex : Call(a, c) => updated' = updated
  BY DEF Call, CreateRead, UpdateCheck, DeleteItem, PublishBegin, RefreshBegin
<1>6. \A ch \in Channel : Receive(ch) \/ NetworkFault(ch) => updated' = updated
  BY DEF Receive, DataUpdate, DataDelete, NetworkFault
<1> QED
  BY <1>1, <1>2, <1>3, <1>4, <1>5, <1>6 DEF Next, vars

(* Only publish() clears the set. *)
LEMMA UpdatedLoses ==
  ASSUME TypeOK, [Next]_vars, NEW k \in CacheRef, NEW x \in updated[k], x \notin updated'[k]
  PROVE  \E a \in App : PublishUpdated(a) /\ k = CacheOf(a)
<1>1. ASSUME NEW a \in App, MarkUpdated(a)
      PROVE  x \in updated'[k]
  BY <1>1 DEF MarkUpdated, TypeOK
<1>2. ASSUME NEW a \in App, PublishUpdated(a)
      PROVE  k = CacheOf(a)
  BY <1>2 DEF PublishUpdated, TypeOK
<1>3. \A a \in App : Proceed(a) \/ PublishFails(a) =>
        updated' = updated \/ MarkUpdated(a) \/ PublishUpdated(a)
  BY DEF Proceed, PublishFails, CreatePut, PushCreateOrUpdateItem, PublishDeletedBegin,
         PushDeleteItem, PublishDeleted, RefreshUpdate, RefreshUpdated, RefreshDelete
<1>4. \A a \in App, c \in CacheIndex : Call(a, c) => updated' = updated
  BY DEF Call, CreateRead, UpdateCheck, DeleteItem, PublishBegin, RefreshBegin
<1>5. \A ch \in Channel : Receive(ch) \/ NetworkFault(ch) => updated' = updated
  BY DEF Receive, DataUpdate, DataDelete, NetworkFault
<1> QED
  BY <1>1, <1>2, <1>3, <1>4, <1>5 DEF Next, vars

LEMMA DeletedStep ==
  ASSUME TypeOK, [Next]_vars, NEW k \in CacheRef, NEW x \in deleted'[k]
  PROVE  \/ x \in deleted[k]
         \/ \E a \in App, c \in CacheIndex : DeleteItem(a, c, x) /\ k = <<a[1], c>>
<1>1. CASE deleted' = deleted
  BY <1>1
<1>2. ASSUME NEW a \in App, NEW c \in CacheIndex, NEW y \in Item, DeleteItem(a, c, y)
      PROVE  x \in deleted[k] \/ (k = <<a[1], c>> /\ x = y)
  BY <1>2 DEF DeleteItem, TypeOK
<1>3. ASSUME NEW a \in App, PublishDeleted(a)
      PROVE  x \in deleted[k]
  BY <1>3 DEF PublishDeleted, TypeOK
<1>4. \A a \in App : Proceed(a) \/ PublishFails(a) => deleted' = deleted \/ PublishDeleted(a)
  BY DEF Proceed, PublishFails, CreatePut, MarkUpdated, PushCreateOrUpdateItem,
         PublishUpdated, PublishDeletedBegin, PushDeleteItem, RefreshUpdate,
         RefreshUpdated, RefreshDelete
<1>5. \A a \in App, c \in CacheIndex : Call(a, c) =>
        deleted' = deleted \/ \E y \in Item : DeleteItem(a, c, y)
  BY DEF Call, CreateRead, UpdateCheck, PublishBegin, RefreshBegin
<1>6. \A ch \in Channel : Receive(ch) \/ NetworkFault(ch) => deleted' = deleted
  BY DEF Receive, DataUpdate, DataDelete, NetworkFault
<1> QED
  BY <1>1, <1>2, <1>3, <1>4, <1>5, <1>6 DEF Next, vars

(***************************************************************************)
(* What a thread has to do: what it had, the item it creates or updates,   *)
(* or what is marked in the set it publishes.                              *)
(***************************************************************************)
Begins(a, x) ==
  \/ /\ Creates(a, x)
     /\ thread'[a].pc = "marking"
     /\ thread'[a].cache = thread[a].cache
  \/ \E c \in CacheIndex : /\ UpdateCheck(a, c, x)
                           /\ thread'[a].pc = "marking"
                           /\ thread'[a].cache = c
  \/ \E c \in CacheIndex : /\ PublishBegin(a, c)
                           /\ x \in updated[<<a[1], c>>]
                           /\ thread'[a].pc = "pushingUpdated"
                           /\ thread'[a].cache = c
  \/ /\ PublishDeletedBegin(a)
     /\ x \in deleted[CacheOf(a)]
     /\ thread'[a].pc = "pushingDeleted"
     /\ thread'[a].cache = thread[a].cache

Continues(a, x) ==
  /\ x \in thread[a].todo
  /\ thread'[a].cache = thread[a].cache
  /\ \/ thread'[a].pc = thread[a].pc
     \/ thread'[a].pc \in {"published", "removing"}

LEMMA TodoStep ==
  ASSUME TypeOK, [Next]_vars, NEW a \in App, NEW x \in thread'[a].todo
  PROVE  Continues(a, x) \/ Begins(a, x)
<1>1. ASSUME thread'[a] = thread[a]
      PROVE  Continues(a, x)
  BY <1>1 DEF Continues
<1>2. ASSUME NEW b \in App, CreatePut(b)
      PROVE  Continues(a, x) \/ Begins(a, x)
  BY <1>1, <1>2, CreatePutStep, ZenonT(40) DEF Begins
<1>3. ASSUME NEW b \in App, thread' = [thread EXCEPT ![b] = Idle]
      PROVE  Continues(a, x)
  BY <1>1, <1>3 DEF Idle, TypeOK
<1>4. ASSUME NEW b \in App, PushCreateOrUpdateItem(b) \/ PushDeleteItem(b)
      PROVE  Continues(a, x)
  <2>1. PICK y : thread' = [thread EXCEPT ![b].todo = @ \ {y}]
    BY <1>4 DEF PushCreateOrUpdateItem, PushDeleteItem
  <2>2. /\ thread'[b].pc = thread[b].pc
        /\ thread'[b].cache = thread[b].cache
        /\ thread'[b].todo = thread[b].todo \ {y}
        /\ \A d \in App \ {b} : thread'[d] = thread[d]
    BY <2>1, ThreadTyping DEF TypeOK, ThreadState
  <2> QED
    BY <1>1, <2>2 DEF Continues
<1>5. ASSUME NEW b \in App, PublishUpdated(b) \/ RefreshUpdated(b)
      PROVE  Continues(a, x)
  <2>1. PICK v \in {"published", "removing"} : thread' = [thread EXCEPT ![b].pc = v]
    BY <1>5 DEF PublishUpdated, RefreshUpdated
  <2>2. /\ thread'[b].pc = v
        /\ thread'[b].cache = thread[b].cache
        /\ thread'[b].todo = thread[b].todo
        /\ \A d \in App \ {b} : thread'[d] = thread[d]
    BY <2>1, ThreadTyping DEF TypeOK, ThreadState
  <2> QED
    BY <1>1, <2>2 DEF Continues
<1>6. ASSUME NEW b \in App, PublishDeletedBegin(b)
      PROVE  Continues(a, x) \/ Begins(a, x)
  <2>1. thread' = [thread EXCEPT ![b].pc = "pushingDeleted", ![b].todo = deleted[CacheOf(b)]]
    BY <1>6 DEF PublishDeletedBegin
  <2>2. /\ thread'[b].pc = "pushingDeleted"
        /\ thread'[b].cache = thread[b].cache
        /\ thread'[b].todo = deleted[CacheOf(b)]
        /\ \A d \in App \ {b} : thread'[d] = thread[d]
    BY <2>1, ThreadTyping DEF TypeOK, ThreadState
  <2> QED
    BY <1>1, <1>6, <2>2 DEF Begins
<1>7. ASSUME NEW b \in App, NEW c \in CacheIndex, Call(b, c)
      PROVE  Continues(a, x) \/ Begins(a, x)
  <2>1. CASE CreateRead(b, c)
    BY <1>1, <2>1 DEF CreateRead, TypeOK
  <2>2. CASE RefreshBegin(b, c)
    BY <1>1, <2>2 DEF RefreshBegin, TypeOK
  <2>3. CASE PublishBegin(b, c)
    <3>1. /\ thread'[b] = [pc |-> "pushingUpdated", cache |-> c,
                           todo |-> updated[<<b[1], c>>], n |-> 0]
          /\ \A d \in App \ {b} : thread'[d] = thread[d]
      BY <2>3 DEF PublishBegin, TypeOK
    <3> QED
      BY <1>1, <2>3, <3>1 DEF Begins
  <2>4. ASSUME NEW y \in Item, UpdateCheck(b, c, y)
        PROVE  Continues(a, x) \/ Begins(a, x)
    <3>1. /\ thread'[b] = [pc |-> "marking", cache |-> c, todo |-> {y}, n |-> 0]
          /\ \A d \in App \ {b} : thread'[d] = thread[d]
      BY <2>4 DEF UpdateCheck, TypeOK
    <3> QED
      BY <1>1, <2>4, <3>1 DEF Begins
  <2>5. ASSUME NEW y \in Item, DeleteItem(b, c, y)
        PROVE  Continues(a, x)
    BY <1>1, <2>5 DEF DeleteItem
  <2> QED
    BY <1>7, <2>1, <2>2, <2>3, <2>4, <2>5 DEF Call
<1>8. \A b \in App : Proceed(b) \/ PublishFails(b) =>
        \/ thread' = thread
        \/ CreatePut(b)
        \/ thread' = [thread EXCEPT ![b] = Idle]
        \/ PushCreateOrUpdateItem(b) \/ PushDeleteItem(b)
        \/ PublishUpdated(b) \/ RefreshUpdated(b)
        \/ PublishDeletedBegin(b)
  BY DEF Proceed, PublishFails, MarkUpdated, PublishDeleted, RefreshUpdate, RefreshDelete
<1>9. \A ch \in Channel : Receive(ch) \/ NetworkFault(ch) => thread' = thread
  BY DEF Receive, DataUpdate, DataDelete, NetworkFault
<1>10. CASE thread' = thread
  BY <1>1, <1>10
<1> QED
  BY <1>2, <1>3, <1>4, <1>5, <1>6, <1>7, <1>8, <1>9, <1>10 DEF Next, vars

(***************************************************************************)
(* What is in flight: what was, or what publish() sends, to the others     *)
(* only.                                                                   *)
(***************************************************************************)
Sends(a, x, f) ==
  /\ x \in thread[a].todo
  /\ \/ PushCreateOrUpdateItem(a) /\ f = UpdateOf(x)
     \/ PushDeleteItem(a) /\ f = DeletionOf(x)
  /\ f \in Frame
  /\ Send(a[1], f)
  /\ thread'[a].todo = thread[a].todo \ {x}

LEMMA SendsStep ==
  ASSUME TypeOK, NEW a \in App, PushCreateOrUpdateItem(a) \/ PushDeleteItem(a)
  PROVE  \E x \in Item, f \in Frame : Sends(a, x, f)
<1>1. CASE PushCreateOrUpdateItem(a)
  <2>1. PICK x \in thread[a].todo : /\ Send(a[1], UpdateOf(x))
                                    /\ thread' = [thread EXCEPT ![a].todo = @ \ {x}]
    BY <1>1 DEF PushCreateOrUpdateItem, UpdateOf
  <2>2. x \in Item /\ UpdateOf(x) \in Frame
    BY ThreadTyping, HeapTyping DEF UpdateOf, Frame
  <2>3. thread'[a].todo = thread[a].todo \ {x}
    BY <2>1, ThreadTyping DEF TypeOK, ThreadState
  <2> QED
    BY <1>1, <2>1, <2>2, <2>3 DEF Sends
<1>2. CASE PushDeleteItem(a)
  <2>1. PICK x \in thread[a].todo : /\ Send(a[1], DeletionOf(x))
                                    /\ thread' = [thread EXCEPT ![a].todo = @ \ {x}]
    BY <1>2 DEF PushDeleteItem, DeletionOf
  <2>2. x \in Item /\ DeletionOf(x) \in Frame
    BY ThreadTyping, HeapTyping, ConstantsAssumption DEF DeletionOf, Frame, Version
  <2>3. thread'[a].todo = thread[a].todo \ {x}
    BY <2>1, ThreadTyping DEF TypeOK, ThreadState
  <2> QED
    BY <1>2, <2>1, <2>2, <2>3 DEF Sends
<1> QED
  BY <1>1, <1>2

(* What a send adds to each channel. *)
LEMMA SentFrames ==
  ASSUME TypeOK, NEW p \in Participant, NEW f \in Frame, Send(p, f), NEW ch \in Channel
  PROVE  FramesIn(ch)' = IF ch[1] = p /\ ch[2] # p THEN FramesIn(ch) \cup {f}
                                                   ELSE FramesIn(ch)
<1>1. net[ch] \in Seq(Frame)
  BY DEF TypeOK
<1>2. net'[ch] = IF ch[1] = p /\ ch[2] # p THEN Append(net[ch], f) ELSE net[ch]
  BY DEF Send
<1>3. CASE ch[1] = p /\ ch[2] # p
  BY <1>1, <1>2, <1>3, AppendElements DEF FramesIn
<1>4. CASE ~ (ch[1] = p /\ ch[2] # p)
  BY <1>2, <1>4 DEF FramesIn
<1> QED
  BY <1>3, <1>4

LEMMA FramesStep ==
  ASSUME TypeOK, [Next]_vars, NEW ch \in Channel, NEW f \in FramesIn(ch)'
  PROVE  \/ f \in FramesIn(ch)
         \/ \E a \in App, x \in Item : Sends(a, x, f) /\ ch[1] = a[1] /\ ch[2] # a[1]
<1>1. CASE net' = net
  BY <1>1 DEF FramesIn
<1>2. ASSUME NEW a \in App, PushCreateOrUpdateItem(a) \/ PushDeleteItem(a)
      PROVE  \/ f \in FramesIn(ch)
             \/ \E x \in Item : Sends(a, x, f) /\ ch[1] = a[1] /\ ch[2] # a[1]
  <2>1. PICK x \in Item, g \in Frame : Sends(a, x, g)
    BY <1>2, SendsStep
  <2>2. a[1] \in Participant /\ Send(a[1], g)
    BY <2>1, ThreadTyping DEF Sends
  <2> QED
    BY <2>1, <2>2, SentFrames
<1>3. ASSUME NEW c \in Channel, Receive(c) \/ NetworkFault(c)
      PROVE  f \in FramesIn(ch)
  BY <1>3, ArrivedFrames, FaultFrames DEF Receive, DataUpdate, DataDelete
<1>4. \A a \in App : Proceed(a) \/ PublishFails(a) =>
        net' = net \/ PushCreateOrUpdateItem(a) \/ PushDeleteItem(a)
  BY DEF Proceed, PublishFails, CreatePut, MarkUpdated, PublishUpdated,
         PublishDeletedBegin, PublishDeleted, RefreshUpdate, RefreshUpdated, RefreshDelete
<1>5. \A a \in App, c \in CacheIndex : Call(a, c) => net' = net
  BY DEF Call, CreateRead, UpdateCheck, DeleteItem, PublishBegin, RefreshBegin
<1> QED
  BY <1>1, <1>2, <1>3, <1>4, <1>5 DEF Next, vars

(* What a cache has filed: what it had, or what was in flight to it. *)
LEMMA FiledStep ==
  ASSUME TypeOK, [Next]_vars, NEW k \in CacheRef
  PROVE  /\ \A f \in toUpdate'[k] :
              \/ f \in toUpdate[k]
              \/ \E ch \in Channel : /\ ch[2] = k[1]
                                     /\ f \in FramesIn(ch)
                                     /\ f.type = "CREATE_OR_UPDATE"
         /\ \A id \in toDelete'[k] :
              \/ id \in toDelete[k]
              \/ \E ch \in Channel : \E f \in FramesIn(ch) :
                   ch[2] = k[1] /\ f.type = "DELETE" /\ id = f.id
<1>1. CASE toUpdate' = toUpdate /\ toDelete' = toDelete
  BY <1>1
<1>2. ASSUME NEW a \in App, RefreshUpdate(a) \/ RefreshDelete(a)
      PROVE  toUpdate'[k] \subseteq toUpdate[k] /\ toDelete'[k] \subseteq toDelete[k]
  BY <1>2 DEF RefreshUpdate, RefreshDelete, TypeOK
<1>3. ASSUME NEW ch \in Channel, DataUpdate(ch)
      PROVE  /\ toDelete' = toDelete
             /\ \A f \in toUpdate'[k] :
                  \/ f \in toUpdate[k]
                  \/ ch[2] = k[1] /\ f \in FramesIn(ch) /\ f.type = "CREATE_OR_UPDATE"
  <2>1. Head(net[ch]) \in FramesIn(ch)
    BY <1>3, HeadFrame DEF DataUpdate, Arrived
  <2> QED
    BY <1>3, <2>1 DEF DataUpdate
<1>4. ASSUME NEW ch \in Channel, DataDelete(ch)
      PROVE  /\ toUpdate' = toUpdate
             /\ \A id \in toDelete'[k] :
                  \/ id \in toDelete[k]
                  \/ \E f \in FramesIn(ch) : ch[2] = k[1] /\ f.type = "DELETE" /\ id = f.id
  <2>1. Head(net[ch]) \in FramesIn(ch)
    BY <1>4, HeadFrame DEF DataDelete, Arrived
  <2>2. toDelete'[k] = IF k[1] = ch[2] THEN toDelete[k] \cup {Head(net[ch]).id} ELSE toDelete[k]
    BY <1>4 DEF DataDelete
  <2> QED
    BY <1>4, <2>1, <2>2 DEF DataDelete
<1>5. \A a \in App : Proceed(a) \/ PublishFails(a) =>
        \/ toUpdate' = toUpdate /\ toDelete' = toDelete
        \/ RefreshUpdate(a) \/ RefreshDelete(a)
  BY DEF Proceed, PublishFails, CreatePut, MarkUpdated, PushCreateOrUpdateItem,
         PublishUpdated, PublishDeletedBegin, PushDeleteItem, PublishDeleted, RefreshUpdated
<1>6. \A a \in App, c \in CacheIndex : Call(a, c) => toUpdate' = toUpdate /\ toDelete' = toDelete
  BY DEF Call, CreateRead, UpdateCheck, DeleteItem, PublishBegin, RefreshBegin
<1>7. \A ch \in Channel : NetworkFault(ch) => toUpdate' = toUpdate /\ toDelete' = toDelete
  BY DEF NetworkFault
<1> QED
  BY <1>1, <1>2, <1>3, <1>4, <1>5, <1>6, <1>7 DEF Next, vars, Receive

-----------------------------------------------------------------------------
(***************************************************************************)
(* setOwnership(true) on every cache, and identities that are unique.      *)
(***************************************************************************)
OwnershipRules == OwnershipCheck /\ SingleCreator

(* What is marked, or about to be, is shared and keeps its identity. *)
LEMMA MarkedKeepIdentity ==
  ASSUME TypeOK, ProvenanceInv, IdentityKept
  PROVE  /\ \A k \in CacheRef : \A x \in local[k] \cup updated[k] \cup deleted[k] :
              x \in Item /\ IsShared(x) /\ heap'[x].id = heap[x].id
         /\ \A a \in App : \A x \in thread[a].todo :
              x \in Item /\ IsShared(x) /\ heap'[x].id = heap[x].id
<1>1. \A k \in CacheRef : \A x \in local[k] \cup updated[k] \cup deleted[k] :
        x \in Item /\ IsShared(x)
  BY DEF TypeOK, ProvenanceInv, HeldAreShared
<1>2. \A a \in App : \A x \in thread[a].todo : x \in Item /\ IsShared(x)
  BY ThreadTyping DEF ProvenanceInv, HeldAreShared
<1> QED
  BY <1>1, <1>2 DEF IdentityKept

(* What the guards of update() and delete() say of the item. *)
LEMMA UpdateGuard ==
  ASSUME OwnershipCheck, TypeOK, NEW a \in App, NEW c \in CacheIndex, NEW x \in Item,
         UpdateCheck(a, c, x)
  PROVE  /\ x[1] = a[1]
         /\ heap[x].id[1] = a[1]
         /\ IsShared(x)
         /\ HasKey(<<a[1], c>>, heap[x].id)
         /\ heap'[x].id = heap[x].id
         /\ heap'[x].created = heap[x].created
         /\ heap'[x].version = heap[x].version + 1
<1>1. heap'[x] = [heap[x] EXCEPT !.version = heap[x].version + 1]
  BY DEF UpdateCheck, TypeOK
<1> QED
  BY <1>1, HeapTyping DEF UpdateCheck, Updatable, MayChange, Owns, Shareable

LEMMA DeleteGuard ==
  ASSUME OwnershipCheck, TypeOK, ProvenanceInv, NEW a \in App, NEW c \in CacheIndex,
         NEW x \in Item, DeleteItem(a, c, x)
  PROVE  /\ x[1] = a[1]
         /\ heap[x].id[1] = a[1]
         /\ IsShared(x)
         /\ <<a[1], c>> \in CacheRef
<1>1. <<a[1], c>> \in CacheRef
  BY ThreadTyping DEF CacheRef
<1>2. PICK y \in local[<<a[1], c>>] : heap[y].id = heap[x].id
  BY DEF DeleteItem, HasKey, Lookup
<1>3. IsShared(x)
  BY <1>1, <1>2 DEF ProvenanceInv, HeldAreShared, IsShared
<1> QED
  BY <1>1, <1>3 DEF DeleteItem, MayChange, Owns

LEMMA OwnStep ==
  ASSUME OwnershipRules, BaseInv, [Next]_vars
  PROVE  OwnInv'
<1>0. /\ TypeOK /\ ProvenanceInv /\ OwnInv
      /\ OwnershipCheck /\ IdentityKept
  BY StepKeepsIdentity DEF BaseInv, OwnershipRules
<1>1. /\ \A k \in CacheRef : \A x \in updated[k] \cup deleted[k] :
           /\ x \in Item
           /\ heap'[x].id = heap[x].id
           /\ heap[x].id[1] = k[1]
      /\ \A a \in App : \A x \in thread[a].todo :
           /\ x \in Item
           /\ heap'[x].id = heap[x].id
           /\ heap[x].id[1] = a[1]
  BY <1>0, MarkedKeepIdentity DEF OwnInv, OwnItemsMarked
<1>2. \A a \in App : CacheOf(a) \in CacheRef /\ CacheOf(a)[1] = a[1]
  BY <1>0, ThreadTyping
<1>3. ASSUME NEW k \in CacheRef, NEW x \in updated'[k]
      PROVE  heap'[x].id[1] = k[1]
  <2>1. \/ x \in updated[k]
        \/ \E a \in App : k = CacheOf(a) /\ x \in thread[a].todo
    BY <1>0, <1>3, UpdatedStep
  <2> QED
    BY <1>1, <1>2, <2>1
<1>4. ASSUME NEW k \in CacheRef, NEW x \in deleted'[k]
      PROVE  heap'[x].id[1] = k[1]
  <2>1. CASE x \in deleted[k]
    BY <1>1, <2>1
  <2>2. ASSUME NEW a \in App, NEW c \in CacheIndex, DeleteItem(a, c, x), k = <<a[1], c>>
        PROVE  heap'[x].id[1] = k[1]
    <3>1. heap' = heap /\ x \in Item
      BY <1>0, <1>4, <2>2, TypeStep DEF DeleteItem, TypeOK
    <3> QED
      BY <1>0, <2>2, <3>1, DeleteGuard
  <2> QED
    BY <1>0, <1>4, <2>1, <2>2, DeletedStep
<1>5. ASSUME NEW a \in App, NEW x \in thread'[a].todo
      PROVE  heap'[x].id[1] = a[1]
  <2>1. CASE Continues(a, x)
    BY <1>1, <2>1 DEF Continues
  <2>2. CASE Creates(a, x)
    BY <2>2 DEF Creates
  <2>3. ASSUME NEW c \in CacheIndex, UpdateCheck(a, c, x)
        PROVE  heap'[x].id[1] = a[1]
    <3>1. x \in Item
      BY <1>0, <1>5, TypeStep, ThreadTyping DEF TypeOK, ThreadState
    <3>2. heap[x].id[1] = a[1] /\ heap'[x].id = heap[x].id
      BY <1>0, <2>3, <3>1, UpdateGuard
    <3> QED
      BY <3>2
  <2>4. ASSUME NEW c \in CacheIndex, x \in updated[<<a[1], c>>]
        PROVE  heap'[x].id[1] = a[1]
    <3>1. <<a[1], c>> \in CacheRef
      BY <1>0, ThreadTyping DEF CacheRef
    <3> QED
      BY <1>1, <2>4, <3>1
  <2>5. CASE x \in deleted[CacheOf(a)]
    BY <1>1, <1>2, <2>5
  <2> QED
    BY <1>0, <1>5, <2>1, <2>2, <2>3, <2>4, <2>5, TodoStep DEF Begins
<1>6. OwnItemsMarked'
  BY <1>3, <1>4, <1>5 DEF OwnItemsMarked
<1>7. ASSUME NEW ch \in Channel, NEW f \in FramesIn(ch)'
      PROVE  f.id[1] = ch[1] /\ ch[1] # ch[2]
  <2>1. CASE f \in FramesIn(ch)
    BY <1>0, <2>1 DEF OwnInv, OwnItemsSent
  <2>2. ASSUME NEW a \in App, NEW x \in Item, Sends(a, x, f), ch[1] = a[1], ch[2] # a[1]
        PROVE  f.id[1] = ch[1] /\ ch[1] # ch[2]
    <3>1. f.id = heap[x].id /\ x \in thread[a].todo
      BY <2>2 DEF Sends, UpdateOf, DeletionOf
    <3> QED
      BY <1>1, <2>2, <3>1
  <2> QED
    BY <1>0, <1>7, <2>1, <2>2, FramesStep
<1>8. OwnItemsSent'
  BY <1>7 DEF OwnItemsSent
<1>9. ASSUME NEW k \in CacheRef
      PROVE  /\ \A f \in toUpdate'[k] : f.id[1] # k[1]
             /\ \A id \in toDelete'[k] : id[1] # k[1]
  <2>1. /\ \A f \in toUpdate[k] : f.id[1] # k[1]
        /\ \A id \in toDelete[k] : id[1] # k[1]
        /\ \A ch \in Channel : \A f \in FramesIn(ch) : f.id[1] # ch[2]
    BY <1>0 DEF OwnInv, OthersFiled, OwnItemsSent
  <2> QED
    BY <1>0, <2>1, FiledStep
<1>10. OthersFiled'
  BY <1>9 DEF OthersFiled
<1>11. ASSUME NEW x \in Item, IsShared(x)', heap'[x].id[1] = x[1]
       PROVE  heap'[x].created
  <2>1. CASE IsShared(x)
    <3>1. heap'[x].id = heap[x].id /\ heap'[x].created = heap[x].created
      BY <1>0, <2>1 DEF IdentityKept
    <3> QED
      BY <1>0, <1>11, <2>1, <3>1 DEF OwnInv, OwnItemsCreated
  <2>2. ASSUME NEW a \in App, Creates(a, x)
        PROVE  heap'[x].created
    BY <2>2 DEF Creates
  <2>3. ASSUME NEW a \in App, NEW f \in toUpdate[CacheOf(a)], Replicates(a, x, f)
        PROVE  FALSE
    BY <1>0, <1>2, <1>11, <2>3 DEF Replicates, OwnInv, OthersFiled
  <2>4. ASSUME NEW a \in App, NEW f \in toUpdate[CacheOf(a)], Overwrites(a, x, f)
        PROVE  IsShared(x)
    <3>1. x \in local[CacheOf(a)]
      BY <2>4 DEF Overwrites, Lookup
    <3> QED
      BY <1>0, <1>2, <3>1, MarkedKeepIdentity
  <2>5. \A a \in App, c \in CacheIndex : UpdateCheck(a, c, x) => IsShared(x)
    BY <1>0, UpdateGuard
  <2>6. heap'[x] = heap[x] => IsShared(x)
    BY <1>11 DEF IsShared
  <2> QED
    BY <1>0, <2>1, <2>2, <2>3, <2>4, <2>5, <2>6, HeapStep DEF HeapChange
<1>12. OwnItemsCreated'
  BY <1>11 DEF OwnItemsCreated
<1>13. ASSUME NEW k \in CacheRef, NEW x \in local'[k]
       PROVE  x[1] = k[1]
  <2>1. x \in local[k] \/ Enters(k, x)
    BY <1>0, <1>13, LocalStep
  <2>2. Enters(k, x) => \E a \in App : x[1] = a[1] /\ k = CacheOf(a)
    BY DEF Enters, Creates, Replicates
  <2>3. x \in local[k] => x[1] = k[1]
    BY <1>0 DEF OwnInv, ObjectsAtHome
  <2> QED
    BY <1>2, <2>1, <2>2, <2>3
<1>14. ObjectsAtHome'
  BY <1>13 DEF ObjectsAtHome
<1> QED
  BY <1>6, <1>8, <1>10, <1>12, <1>14 DEF OwnInv

LEMMA InitOwn == Init => OwnInv
<1> SUFFICES ASSUME Init PROVE OwnInv
  OBVIOUS
<1>1. OwnItemsMarked /\ OthersFiled /\ ObjectsAtHome
  BY DEF Init, Idle, OwnItemsMarked, OthersFiled, ObjectsAtHome
<1>2. OwnItemsSent /\ OwnItemsCreated
  BY DEF Init, OwnItemsSent, OwnItemsCreated, FramesIn, IsShared
<1> QED
  BY <1>1, <1>2 DEF OwnInv

LEMMA InitBase == Init => BaseInv
BY InitTypeOK, InitProvenance, InitNumbering, InitOwn DEF BaseInv

LEMMA BaseStep ==
  ASSUME OwnershipRules, BaseInv, [Next]_vars
  PROVE  BaseInv'
BY TypeStep, ProvenanceStep, NumberingStep, OwnStep DEF BaseInv, OwnershipRules

-----------------------------------------------------------------------------
(* The number that create() has read is nobody's yet: nothing bears it. *)
LEMMA FreshIdentity ==
  ASSUME OwnershipRules, BaseInv, NEW a \in App, CreatePut(a),
         NEW id, id = <<a[1], thread[a].n>>
  PROVE  /\ Origin(id) = {}
         /\ \A x \in Item : heap[x].id # id
<1>0. TypeOK /\ ProvenanceInv /\ NumberingInv
  BY DEF BaseInv
<1>1. /\ thread[a].n = nextInstance[<<a[1], 0>>]
      /\ thread[a].n > 0
      /\ thread[a].n \in Nat
  BY <1>0, ThreadTyping DEF CreatePut, NumberingInv, ProvenanceInv, CreatingIsNumbered
<1>2. ASSUME NEW y \in Item, heap[y].created, heap[y].id = id
      PROVE  FALSE
  <2>1. y[1] = a[1] /\ thread[a].n < nextInstance[<<y[1], 0>>]
    BY <1>0, <1>2 DEF NumberingInv
  <2> QED
    BY <1>1, <2>1
<1>3. Origin(id) = {}
  BY <1>2 DEF Origin
<1>4. ASSUME NEW x \in Item, heap[x].id = id
      PROVE  FALSE
  <2>1. IsShared(x)
    BY <1>1, <1>4 DEF IsShared
  <2> QED
    BY <1>0, <1>3, <1>4, <2>1 DEF ProvenanceInv, Provenance
<1> QED
  BY <1>3, <1>4

(* An item of a participant is created there, or was before. *)
LEMMA CreatedStep ==
  ASSUME OwnershipRules, BaseInv, [Next]_vars, NEW o \in Item, heap'[o].created
  PROVE  \/ heap[o].created /\ heap'[o].id = heap[o].id /\ IsShared(o)
         \/ ~ heap[o].created /\ \E a \in App : Creates(a, o)
<1>0. /\ TypeOK /\ ProvenanceInv /\ OwnershipCheck
      /\ IdentityKept
  BY StepKeepsIdentity DEF BaseInv, OwnershipRules
<1>1. CASE IsShared(o)
  BY <1>0, <1>1 DEF IdentityKept
<1>2. CASE ~ IsShared(o)
  <2>1. ~ heap[o].created
    BY <1>0, <1>2 DEF ProvenanceInv, CreatedAreShared
  <2>2. ASSUME NEW a \in App, NEW f \in toUpdate[CacheOf(a)], Overwrites(a, o, f)
        PROVE  FALSE
    <3>1. o \in local[CacheOf(a)]
      BY <2>2 DEF Overwrites, Lookup
    <3> QED
      BY <1>0, <1>2, <3>1, MarkedKeepIdentity, ThreadTyping
  <2>3. \A a \in App, c \in CacheIndex : ~ UpdateCheck(a, c, o)
    BY <1>0, <1>2, UpdateGuard
  <2>4. ASSUME NEW a \in App, NEW f \in toUpdate[CacheOf(a)], Replicates(a, o, f)
        PROVE  FALSE
    BY <2>4 DEF Replicates
  <2>5. heap'[o] # heap[o]
    BY <2>1
  <2> QED
    BY <1>0, <2>1, <2>2, <2>3, <2>4, <2>5, HeapStep DEF HeapChange
<1> QED
  BY <1>1, <1>2

(* The content of a created item changes by its application's writes only. *)
LEMMA OwnerWrites ==
  ASSUME OwnershipRules, BaseInv, [Next]_vars, NEW o \in Item, heap[o].created
  PROVE  \/ heap'[o].version = heap[o].version
         \/ /\ heap'[o].version = heap[o].version + 1
            /\ \E a \in App, c \in CacheIndex : UpdateCheck(a, c, o)
<1>0. TypeOK /\ ProvenanceInv /\ NumberingInv /\ OwnInv /\ OwnershipCheck
  BY DEF BaseInv, OwnershipRules
<1>1. IsShared(o) /\ heap[o].id[1] = o[1]
  BY <1>0 DEF ProvenanceInv, CreatedAreShared, NumberingInv
<1>2. ASSUME NEW a \in App, NEW f \in toUpdate[CacheOf(a)], Overwrites(a, o, f)
      PROVE  FALSE
  <2>1. CacheOf(a) \in CacheRef /\ CacheOf(a)[1] = a[1]
    BY <1>0, ThreadTyping
  <2>2. o \in local[CacheOf(a)] /\ f.id = heap[o].id
    BY <1>2 DEF Overwrites, Lookup
  <2>3. o[1] = a[1]
    BY <1>0, <2>1, <2>2 DEF OwnInv, ObjectsAtHome
  <2> QED
    BY <1>0, <1>1, <1>2, <2>2, <2>3 DEF Overwrites, Owns
<1>3. \A a \in App : ~ Creates(a, o)
  BY <1>1 DEF Creates
<1>4. ASSUME NEW a \in App, NEW f \in toUpdate[CacheOf(a)], Replicates(a, o, f)
      PROVE  FALSE
  BY <1>1, <1>4 DEF Replicates
<1>5. ASSUME NEW a \in App, NEW c \in CacheIndex, UpdateCheck(a, c, o)
      PROVE  heap'[o].version = heap[o].version + 1
  BY <1>0, <1>5, UpdateGuard
<1> QED
  BY <1>0, <1>2, <1>3, <1>4, <1>5, HeapStep DEF HeapChange

(* What is on its way to a cache, or waits in it. *)
LEMMA UpdatesToStep ==
  ASSUME TypeOK, [Next]_vars, NEW k \in CacheRef, NEW f \in UpdatesTo(k)'
  PROVE  \/ f \in UpdatesTo(k)
         \/ \E a \in App, x \in Item : /\ Sends(a, x, f)
                                       /\ x \in thread[a].todo
                                       /\ f = UpdateOf(x)
<1>1. CASE f \in toUpdate'[k]
  BY <1>1, FiledStep DEF UpdatesTo
<1>2. ASSUME NEW ch \in Channel, ch[2] = k[1], f \in FramesIn(ch)',
             f.type = "CREATE_OR_UPDATE"
      PROVE  \/ f \in UpdatesTo(k)
             \/ \E a \in App, x \in Item : /\ Sends(a, x, f)
                                           /\ x \in thread[a].todo
                                           /\ f = UpdateOf(x)
  <2>1. CASE f \in FramesIn(ch)
    BY <1>2, <2>1 DEF UpdatesTo
  <2>2. ASSUME NEW a \in App, NEW x \in Item, Sends(a, x, f)
        PROVE  x \in thread[a].todo /\ f = UpdateOf(x)
    BY <1>2, <2>2 DEF Sends, DeletionOf
  <2> QED
    BY <1>2, <2>1, <2>2, FramesStep
<1> QED
  BY <1>1, <1>2 DEF UpdatesTo

LEMMA AheadStep ==
  ASSUME OwnershipRules, BaseInv, ReplicasNeverAhead, [Next]_vars
  PROVE  ReplicasNeverAhead'
<1>0. /\ TypeOK /\ ProvenanceInv /\ NumberingInv /\ OwnInv
      /\ OwnershipCheck /\ IdentityKept /\ TypeOK'
  BY StepKeepsIdentity, TypeStep DEF BaseInv, OwnershipRules
<1>1. ASSUME NEW o \in Item, heap[o].created, heap'[o].id = heap[o].id
      PROVE  /\ \A x \in Item : heap'[x].id = heap'[o].id =>
                                  heap'[x].version <= heap'[o].version
             /\ \A k \in CacheRef : \A f \in UpdatesTo(k)' :
                  f.id = heap'[o].id => f.version <= heap'[o].version
  <2>1. /\ heap[o].version <= heap'[o].version
        /\ heap[o].version \in Nat /\ heap'[o].version \in Nat
    <3>1. heap[o].version \in Nat
      BY <1>0, HeapTyping DEF Version
    <3> QED
      BY <1>1, <3>1, OwnerWrites
  <2>2. /\ \A x \in Item : heap[x].id = heap[o].id => heap[x].version <= heap[o].version
        /\ \A k \in CacheRef : \A f \in UpdatesTo(k) :
             f.id = heap[o].id => f.version <= heap[o].version
    BY <1>1 DEF ReplicasNeverAhead
  <2>3. /\ \A x \in Item : heap[x].version \in Nat /\ heap'[x].version \in Nat
        /\ \A k \in CacheRef : \A f \in toUpdate[k] : f.version \in Nat
        /\ \A f \in Frame : f.version \in Nat
    BY <1>0 DEF TypeOK, Shareable, Frame, Version
  <2>4. ASSUME NEW x \in Item, heap'[x].id = heap[o].id
        PROVE  heap'[x].version <= heap'[o].version
    <3>1. CASE heap'[x] = heap[x]
      BY <2>1, <2>2, <2>3, <2>4, <3>1
    <3>2. ASSUME NEW a \in App, Creates(a, x)
          PROVE  FALSE
      <4>1. CreatePut(a) /\ heap[o].id = <<a[1], thread[a].n>>
        BY <2>4, <3>2 DEF Creates
      <4> QED
        BY <4>1, FreshIdentity
    <3>3. ASSUME NEW a \in App, NEW c \in CacheIndex, UpdateCheck(a, c, x)
          PROVE  x = o
      <4>1. x[1] = a[1] /\ heap[x].id[1] = a[1] /\ IsShared(x) /\ heap[x].id = heap[o].id
        BY <1>0, <2>4, <3>3, UpdateGuard
      <4>2. heap[x].created
        BY <1>0, <4>1 DEF OwnInv, OwnItemsCreated
      <4> QED
        BY <1>0, <1>1, <4>1, <4>2 DEF NumberingInv, GUIDsAreUnique
    <3>4. ASSUME NEW a \in App, NEW f \in toUpdate[CacheOf(a)],
                 Overwrites(a, x, f) \/ Replicates(a, x, f)
          PROVE  heap'[x].version <= heap'[o].version
      <4>1. CacheOf(a) \in CacheRef /\ f \in UpdatesTo(CacheOf(a))
        BY <1>0, ThreadTyping DEF UpdatesTo
      <4>2. f.id = heap'[x].id /\ heap'[x].version = f.version
        <5>1. CASE Overwrites(a, x, f)
          <6>1. f.id = heap[x].id /\ heap'[x] = [heap[x] EXCEPT !.version = f.version]
            BY <5>1 DEF Overwrites, Lookup
          <6> QED
            BY <1>0, <6>1, HeapTyping DEF Shareable
        <5>2. CASE Replicates(a, x, f)
          BY <5>2 DEF Replicates
        <5> QED
          BY <3>4, <5>1, <5>2
      <4> QED
        BY <2>1, <2>2, <2>3, <2>4, <4>1, <4>2
    <3> QED
      BY <1>0, <2>1, <3>1, <3>2, <3>3, <3>4, HeapStep DEF HeapChange
  <2>5. ASSUME NEW k \in CacheRef, NEW f \in UpdatesTo(k)', f.id = heap[o].id
        PROVE  f.version <= heap'[o].version
    <3>1. CASE f \in UpdatesTo(k)
      <4>1. f.version \in Nat
        BY <1>0, <2>3, <3>1, ElementsInSet DEF UpdatesTo, FramesIn, TypeOK
      <4> QED
        BY <2>1, <2>2, <2>5, <3>1, <4>1
    <3>2. ASSUME NEW x \in Item, f = UpdateOf(x)
          PROVE  f.version <= heap'[o].version
      BY <2>1, <2>2, <2>3, <2>5, <3>2 DEF UpdateOf
    <3> QED
      BY <1>0, <2>5, <3>1, <3>2, UpdatesToStep
  <2> QED
    BY <1>1, <2>4, <2>5
<1>2. ASSUME NEW o \in Item, NEW a \in App, Creates(a, o)
      PROVE  /\ \A x \in Item : heap'[x].id = heap'[o].id =>
                                  heap'[x].version <= heap'[o].version
             /\ \A k \in CacheRef : \A f \in UpdatesTo(k)' :
                  f.id = heap'[o].id => f.version <= heap'[o].version
  <2>1. PICK id : id = <<a[1], thread[a].n>>
    OBVIOUS
  <2>2. CreatePut(a) /\ heap'[o].id = id
    BY <1>2, <2>1 DEF Creates
  <2>3. Origin(id) = {} /\ \A x \in Item : heap[x].id # id
    BY <2>1, <2>2, FreshIdentity
  <2>4. PICK y \in Item : /\ Creates(a, y)
                          /\ \A x \in Item \ {y} : heap'[x] = heap[x]
    BY <1>0, <2>2, CreatePutStep
  <2>5. \A x \in Item : heap'[x].id = id => x = y
    BY <2>3, <2>4
  <2>6. ASSUME NEW k \in CacheRef, NEW f \in UpdatesTo(k)'
        PROVE  f.id # id
    <3>1. \A ch \in Channel : \A g \in FramesIn(ch) : g.id # id
      BY <1>0, <2>3 DEF ProvenanceInv, Provenance
    <3>2. f \in UpdatesTo(k) => f.id # id
      BY <1>0, <2>3, <3>1 DEF UpdatesTo, ProvenanceInv, Provenance
    <3>3. \A x \in Item : UpdateOf(x).id # id
      BY <2>3 DEF UpdateOf
    <3> QED
      BY <1>0, <2>6, <3>2, <3>3, UpdatesToStep
  <2>7. heap'[y].version \in Nat
    BY <1>0 DEF TypeOK, Shareable, Version
  <2> QED
    BY <2>2, <2>5, <2>6, <2>7
<1> QED
  BY <1>1, <1>2, CreatedStep DEF ReplicasNeverAhead

(***************************************************************************)
(* When ownership is checked and identities are unique, no replica,        *)
(* datagram or pending update is ahead of its owner's item, whatever the   *)
(* network loses, duplicates or reorders.                                  *)
(***************************************************************************)
THEOREM ReplicasAreBehind ==
  ASSUME OwnershipRules
  PROVE  Spec => []ReplicasNeverAhead
<1>1. Init => ReplicasNeverAhead
  BY DEF Init, ReplicasNeverAhead
<1> QED
  BY <1>1, InitBase, BaseStep, AheadStep, PTL DEF Spec

-----------------------------------------------------------------------------
(***************************************************************************)
(* The owner's cache never holds again an identity that somebody gave to   *)
(* an item and that the cache does not hold any more.                      *)
(***************************************************************************)
LEMMA GoneStays ==
  ASSUME OwnershipRules, BaseInv, [Next]_vars, NEW id, Origin(id) # {},
         id[1] \in Participant, Gone(id)
  PROVE  Gone(id)'
<1>0. /\ TypeOK /\ ProvenanceInv /\ OwnInv /\ IdentityKept
  BY StepKeepsIdentity DEF BaseInv
<1>1. <<id[1], 0>> \in CacheRef
  BY DEF CacheRef, OwnershipRules, SingleCreator
<1>2. ASSUME NEW y \in local'[<<id[1], 0>>], heap'[y].id = id
      PROVE  FALSE
  <2>1. CASE y \in local[<<id[1], 0>>]
    <3>1. heap[y].id = id
      BY <1>0, <1>1, <1>2, <2>1, MarkedKeepIdentity
    <3> QED
      BY <2>1, <3>1 DEF Gone, HasKey, Lookup
  <2>2. ASSUME NEW a \in App, Creates(a, y)
        PROVE  FALSE
    <3>1. CreatePut(a) /\ id = <<a[1], thread[a].n>>
      BY <1>2, <2>2 DEF Creates
    <3> QED
      BY <3>1, FreshIdentity
  <2>3. ASSUME NEW a \in App, NEW f \in toUpdate[CacheOf(a)], Replicates(a, y, f),
               <<id[1], 0>> = CacheOf(a)
        PROVE  FALSE
    <3>1. f.id = id /\ CacheOf(a)[1] = id[1]
      BY <1>2, <2>3 DEF Replicates
    <3> QED
      BY <1>0, <1>1, <2>3, <3>1 DEF OwnInv, OthersFiled
  <2> QED
    BY <1>0, <1>1, <1>2, <2>1, <2>2, <2>3, LocalStep DEF Enters
<1> QED
  BY <1>2 DEF Gone, HasKey, Lookup

LEMMA OwnersChangeStep ==
  ASSUME OwnershipRules, BaseInv, [Next]_vars
  PROVE  OwnersChange
<1>0. TypeOK /\ OwnershipCheck /\ ProvenanceInv /\ NumberingInv /\ IdentityKept
  BY StepKeepsIdentity DEF BaseInv, OwnershipRules
<1> SUFFICES ASSUME NEW x \in Item, heap[x].created
             PROVE  /\ heap'[x].version # heap[x].version =>
                         \E a \in App : /\ a[1] = x[1]
                                        /\ thread[a].pc = "idle"
                                        /\ thread'[a].pc = "marking"
                    /\ \A c \in CacheIndex :
                         ~ (\E y \in local[<<x[1], c>>] : heap[y].id = heap[x].id)
                         => ~ (\E y \in local'[<<x[1], c>>] : heap'[y].id = heap'[x].id)
  BY DEF OwnersChange
<1>1. ASSUME NEW a \in App, NEW c \in CacheIndex, UpdateCheck(a, c, x)
      PROVE  a[1] = x[1] /\ thread[a].pc = "idle" /\ thread'[a].pc = "marking"
  <2>1. thread' = [thread EXCEPT ![a] = [pc |-> "marking", cache |-> c, todo |-> {x}, n |-> 0]]
    BY <1>1 DEF UpdateCheck
  <2> QED
    BY <1>0, <1>1, <2>1 DEF UpdateCheck, TypeOK
<1>2. PICK id : id = heap[x].id
  OBVIOUS
<1>3. /\ heap'[x].id = id
      /\ id[1] = x[1]
      /\ id[1] \in Participant
      /\ Origin(id) # {}
  BY <1>0, <1>2, HeapTyping DEF NumberingInv, ProvenanceInv, CreatedAreShared, IdentityKept,
                                Origin
<1>4. ASSUME NEW c \in CacheIndex,
             ~ \E y \in local[<<x[1], c>>] : heap[y].id = heap[x].id
      PROVE  ~ \E y \in local'[<<x[1], c>>] : heap'[y].id = heap'[x].id
  <2>1. c = 0
    BY DEF OwnershipRules, SingleCreator
  <2>2. Gone(id)
    BY <1>2, <1>3, <1>4, <2>1 DEF Gone, HasKey, Lookup
  <2>3. Gone(id)'
    BY <1>3, <2>2, GoneStays
  <2>4. \A y \in local'[<<id[1], 0>>] : heap'[y].id # id
    BY <2>3 DEF Gone, HasKey, Lookup
  <2> QED
    BY <1>3, <2>1, <2>4
<1> QED
  BY <1>1, <1>4, OwnerWrites

(***************************************************************************)
(* When ownership is checked and identities are unique, an owner's item    *)
(* changes by its own application's writes only, and what its owner has    *)
(* deleted does not come back to it, whatever arrives from the network.    *)
(***************************************************************************)
THEOREM OwnersAreInCharge ==
  ASSUME OwnershipRules
  PROVE  Spec => OwnerDecides
<1>1. BaseInv /\ [Next]_vars => [OwnersChange]_vars
  BY OwnersChangeStep
<1> QED
  BY <1>1, InitBase, BaseStep, PTL DEF Spec, OwnerDecides

-----------------------------------------------------------------------------
(***************************************************************************)
(* What is to be deleted anywhere, its owner has deleted.                  *)
(***************************************************************************)
LEMMA HeldHaveOrigin ==
  ASSUME TypeOK, ProvenanceInv, NEW x \in Item, IsShared(x)
  PROVE  Origin(heap[x].id) # {} /\ heap[x].id[1] \in Participant
BY HeapTyping DEF ProvenanceInv, Provenance

LEMMA FrameIdentity ==
  ASSUME TypeOK
  PROVE  /\ \A ch \in Channel : \A f \in FramesIn(ch) : f \in Frame /\ f.id[1] \in Participant
         /\ \A k \in CacheRef : \A id \in toDelete[k] : id[1] \in Participant
<1>1. \A f \in Frame : f.id[1] \in Participant
  BY DEF Frame, GUID
<1>2. \A ch \in Channel : FramesIn(ch) \subseteq Frame
  BY ElementsInSet DEF TypeOK, FramesIn
<1>3. \A k \in CacheRef : \A id \in toDelete[k] : id[1] \in Participant
  BY DEF TypeOK, GUID
<1> QED
  BY <1>1, <1>2, <1>3

LEMMA GoneStep ==
  ASSUME OwnershipRules, BaseInv, GoneInv, [Next]_vars
  PROVE  GoneInv'
<1>0. /\ TypeOK /\ ProvenanceInv /\ OwnInv
      /\ OwnershipCheck /\ IdentityKept /\ TypeOK'
  BY StepKeepsIdentity, TypeStep DEF BaseInv, OwnershipRules
<1>1. ASSUME NEW x \in Item, IsShared(x), Gone(heap[x].id)
      PROVE  Gone(heap[x].id)'
  <2>1. PICK id : id = heap[x].id
    OBVIOUS
  <2>2. Gone(id)'
    BY <1>0, <1>1, <2>1, GoneStays, HeldHaveOrigin
  <2>3. heap'[x].id = id
    BY <1>0, <1>1, <2>1 DEF IdentityKept
  <2> QED
    BY <2>2, <2>3
<1>2. ASSUME NEW k \in CacheRef, NEW x \in deleted'[k]
      PROVE  Gone(heap[x].id)'
  <2>1. CASE x \in deleted[k]
    <3>1. x \in Item /\ IsShared(x)
      BY <1>0, <2>1, MarkedKeepIdentity
    <3> QED
      BY <1>1, <2>1, <3>1 DEF GoneInv
  <2>2. ASSUME NEW a \in App, NEW c \in CacheIndex, DeleteItem(a, c, x)
        PROVE  Gone(heap[x].id)'
    <3>1. x \in Item
      BY <1>0, <1>2 DEF TypeOK
    <3>2. PICK j : j = <<a[1], c>>
      OBVIOUS
    <3>3. PICK id : id = heap[x].id
      OBVIOUS
    <3>4. j \in CacheRef /\ j = <<id[1], 0>>
      BY <1>0, <2>2, <3>1, <3>2, <3>3, DeleteGuard DEF OwnershipRules, SingleCreator
    <3>5. local'[j] = local[j] \ Lookup(j, id) /\ heap' = heap
      BY <1>0, <2>2, <3>2, <3>3, <3>4 DEF DeleteItem, TypeOK
    <3>6. Gone(id)'
      BY <3>4, <3>5 DEF Gone, HasKey, Lookup
    <3> QED
      BY <3>3, <3>5, <3>6
  <2> QED
    BY <1>0, <1>2, <2>1, <2>2, DeletedStep
<1>3. ASSUME NEW a \in App, thread'[a].pc = "pushingDeleted", NEW x \in thread'[a].todo
      PROVE  Gone(heap[x].id)'
  <2>1. CASE thread[a].pc = "pushingDeleted" /\ x \in thread[a].todo
    <3>1. x \in Item /\ IsShared(x)
      BY <1>0, <2>1, MarkedKeepIdentity
    <3> QED
      BY <1>1, <2>1, <3>1 DEF GoneInv
  <2>2. CASE x \in deleted[CacheOf(a)]
    <3>1. x \in Item /\ IsShared(x) /\ CacheOf(a) \in CacheRef
      BY <1>0, <2>2, MarkedKeepIdentity, ThreadTyping
    <3> QED
      BY <1>1, <2>2, <3>1 DEF GoneInv
  <2> QED
    BY <1>0, <1>3, <2>1, <2>2, TodoStep DEF Continues, Begins
<1>4. ASSUME NEW ch \in Channel, NEW f \in FramesIn(ch)', f.type = "DELETE"
      PROVE  Gone(f.id)'
  <2>1. CASE f \in FramesIn(ch)
    <3>1. Origin(f.id) # {} /\ Gone(f.id)
      BY <1>0, <1>4, <2>1 DEF ProvenanceInv, Provenance, GoneInv
    <3> QED
      BY <1>0, <2>1, <3>1, GoneStays, FrameIdentity
  <2>2. ASSUME NEW a \in App, NEW x \in Item, Sends(a, x, f)
        PROVE  Gone(f.id)'
    <3>1. /\ thread[a].pc = "pushingDeleted"
          /\ x \in thread[a].todo
          /\ f.id = heap[x].id
      BY <1>4, <2>2 DEF Sends, UpdateOf, DeletionOf, PushDeleteItem
    <3>2. IsShared(x)
      BY <1>0, <3>1, MarkedKeepIdentity
    <3>3. Gone(f.id) /\ Origin(f.id) # {} /\ f.id[1] \in Participant
      BY <1>0, <3>1, <3>2, HeldHaveOrigin DEF GoneInv
    <3> QED
      BY <3>3, GoneStays
  <2> QED
    BY <1>0, <1>4, <2>1, <2>2, FramesStep
<1>5. ASSUME NEW k \in CacheRef, NEW id \in toDelete'[k]
      PROVE  Gone(id)'
  <2>1. Gone(id) /\ Origin(id) # {} /\ id[1] \in Participant
    <3>1. CASE id \in toDelete[k]
      BY <1>0, <3>1, FrameIdentity DEF GoneInv, ProvenanceInv, Provenance
    <3>2. ASSUME NEW ch \in Channel, NEW f \in FramesIn(ch), f.type = "DELETE", id = f.id
          PROVE  Gone(id) /\ Origin(id) # {} /\ id[1] \in Participant
      BY <1>0, <3>2, FrameIdentity DEF GoneInv, ProvenanceInv, Provenance
    <3> QED
      BY <1>0, <1>5, <3>1, <3>2, FiledStep
  <2> QED
    BY <2>1, GoneStays
<1> QED
  BY <1>2, <1>3, <1>4, <1>5 DEF GoneInv

LEMMA InitGone == Init => GoneInv
BY DEF Init, Idle, GoneInv, FramesIn

-----------------------------------------------------------------------------
(* A thread moves by its own steps only. *)
LEMMA ThreadStep ==
  ASSUME TypeOK, [Next]_vars, NEW b \in App
  PROVE  \/ thread'[b] = thread[b]
         \/ Proceed(b) \/ PublishFails(b)
         \/ \E c \in CacheIndex : Call(b, c)
<1>1. ASSUME NEW a \in App, Proceed(a) \/ PublishFails(a), a # b
      PROVE  thread'[b] = thread[b]
  BY <1>1 DEF Proceed, PublishFails, CreatePut, MarkUpdated, PushCreateOrUpdateItem,
              PublishUpdated, PublishDeletedBegin, PushDeleteItem, PublishDeleted,
              RefreshUpdate, RefreshUpdated, RefreshDelete, TypeOK
<1>2. ASSUME NEW a \in App, NEW c \in CacheIndex, Call(a, c), a # b
      PROVE  thread'[b] = thread[b]
  BY <1>2 DEF Call, CreateRead, UpdateCheck, DeleteItem, PublishBegin, RefreshBegin, TypeOK
<1>3. \A ch \in Channel : Receive(ch) \/ NetworkFault(ch) => thread' = thread
  BY DEF Receive, DataUpdate, DataDelete, NetworkFault
<1> QED
  BY <1>1, <1>2, <1>3 DEF Next, vars

LEMMA MarkingStep ==
  ASSUME TypeOK, [Next]_vars, NEW b \in App, thread[b].pc = "marking"
  PROVE  thread'[b] = thread[b] \/ MarkUpdated(b)
BY ThreadStep
   DEF Proceed, PublishFails, CreatePut, PushCreateOrUpdateItem, PublishUpdated,
       PublishDeletedBegin, PushDeleteItem, PublishDeleted, RefreshUpdate, RefreshUpdated,
       RefreshDelete, Call, CreateRead, UpdateCheck, DeleteItem, PublishBegin, RefreshBegin

(* A thread that publishes has begun to, has sent an item, or has not moved. *)
LEMMA PushingStep ==
  ASSUME TypeOK, [Next]_vars, NEW a \in App, thread'[a].pc = "pushingUpdated"
  PROVE  \/ thread'[a] = thread[a]
         \/ \E c \in CacheIndex : /\ PublishBegin(a, c)
                                  /\ thread'[a].cache = c
                                  /\ thread'[a].todo = updated[<<a[1], c>>]
         \/ /\ PushCreateOrUpdateItem(a)
            /\ thread'[a].cache = thread[a].cache
            /\ thread'[a].pc = thread[a].pc
<1>1. CASE thread' = [thread EXCEPT ![a] = Idle]
  BY <1>1 DEF Idle, TypeOK
<1>2. CASE CreatePut(a)
  BY <1>2, CreatePutStep
<1>3. CASE PushCreateOrUpdateItem(a) \/ PushDeleteItem(a)
  <2>1. PICK y : thread' = [thread EXCEPT ![a].todo = @ \ {y}]
    BY <1>3 DEF PushCreateOrUpdateItem, PushDeleteItem
  <2>2. thread'[a].pc = thread[a].pc /\ thread'[a].cache = thread[a].cache
    BY <2>1, ThreadTyping DEF TypeOK, ThreadState
  <2> QED
    BY <1>3, <2>2 DEF PushDeleteItem
<1>4. CASE PublishUpdated(a) \/ RefreshUpdated(a) \/ PublishDeletedBegin(a)
  <2>1. thread'[a].pc \in {"published", "removing", "pushingDeleted"}
    BY <1>4, ThreadTyping
       DEF PublishUpdated, RefreshUpdated, PublishDeletedBegin, TypeOK, ThreadState
  <2> QED
    BY <2>1
<1>5. ASSUME NEW c \in CacheIndex, Call(a, c)
      PROVE  \/ thread'[a] = thread[a]
             \/ /\ PublishBegin(a, c)
                /\ thread'[a].cache = c
                /\ thread'[a].todo = updated[<<a[1], c>>]
  BY <1>5 DEF Call, CreateRead, UpdateCheck, DeleteItem, PublishBegin, RefreshBegin, TypeOK
<1>6. Proceed(a) \/ PublishFails(a) =>
        \/ thread' = thread
        \/ thread' = [thread EXCEPT ![a] = Idle]
        \/ CreatePut(a) \/ PushCreateOrUpdateItem(a) \/ PushDeleteItem(a)
        \/ PublishUpdated(a) \/ RefreshUpdated(a) \/ PublishDeletedBegin(a)
  BY DEF Proceed, PublishFails, MarkUpdated, PublishDeleted, RefreshUpdate, RefreshDelete
<1> QED
  BY <1>1, <1>2, <1>3, <1>4, <1>5, <1>6, ThreadStep

(* What leaves a cache. *)
LEMMA LocalLoses ==
  ASSUME TypeOK, [Next]_vars, NEW k \in CacheRef, NEW x \in local[k], x \notin local'[k]
  PROVE  \/ \E a \in App : CreatePut(a) /\ k = CacheOf(a) /\ heap[x].id[1] = a[1]
         \/ \E a \in App : RefreshDelete(a) /\ k = CacheOf(a) /\ heap[x].id \in toDelete[k]
         \/ \E a \in App, c \in CacheIndex, y \in Item :
              DeleteItem(a, c, y) /\ k = <<a[1], c>> /\ heap[x].id = heap[y].id
<1>1. ASSUME NEW a \in App, CreatePut(a)
      PROVE  k = CacheOf(a) /\ heap[x].id[1] = a[1]
  <2>1. PICK y \in Item :
          local' = [local EXCEPT ![CacheOf(a)] =
                      (local[CacheOf(a)] \ Lookup(CacheOf(a), <<a[1], thread[a].n>>)) \cup {y}]
    BY <1>1, CreatePutStep
  <2>2. CacheOf(a) \in CacheRef
    BY ThreadTyping
  <2>3. k = CacheOf(a) /\ x \in Lookup(CacheOf(a), <<a[1], thread[a].n>>)
    BY <2>1, <2>2 DEF TypeOK
  <2> QED
    BY <2>3 DEF Lookup
<1>2. ASSUME NEW a \in App, RefreshUpdate(a)
      PROVE  FALSE
  <2>1. CASE local' = local
    BY <2>1
  <2>2. CASE local' # local
    <3>1. PICK y \in Item : local' = [local EXCEPT ![CacheOf(a)] = local[CacheOf(a)] \cup {y}]
      BY <1>2, <2>2, RefreshUpdateStep
    <3> QED
      BY <3>1 DEF TypeOK
  <2> QED
    BY <2>1, <2>2
<1>3. ASSUME NEW a \in App, RefreshDelete(a)
      PROVE  k = CacheOf(a) /\ heap[x].id \in toDelete[k]
  BY <1>3 DEF RefreshDelete, TypeOK
<1>4. ASSUME NEW a \in App, NEW c \in CacheIndex, NEW y \in Item, DeleteItem(a, c, y)
      PROVE  k = <<a[1], c>> /\ heap[x].id = heap[y].id
  BY <1>4 DEF DeleteItem, Lookup, TypeOK
<1>5. \A a \in App : Proceed(a) \/ PublishFails(a) =>
        local' = local \/ CreatePut(a) \/ RefreshUpdate(a) \/ RefreshDelete(a)
  BY DEF Proceed, PublishFails, MarkUpdated, PushCreateOrUpdateItem,
         PublishUpdated, PublishDeletedBegin, PushDeleteItem, PublishDeleted,
         RefreshUpdated
<1>6. \A a \in App, c \in CacheIndex : Call(a, c) =>
        local' = local \/ \E y \in Item : DeleteItem(a, c, y)
  BY DEF Call, CreateRead, UpdateCheck, PublishBegin, RefreshBegin
<1>7. \A ch \in Channel : Receive(ch) \/ NetworkFault(ch) => local' = local
  BY DEF Receive, DataUpdate, DataDelete, NetworkFault
<1> QED
  BY <1>1, <1>2, <1>3, <1>4, <1>5, <1>6, <1>7 DEF Next, vars

(* Where nothing is lost, an update in flight stays there until it is filed. *)
LEMMA FramesKept ==
  ASSUME "lose" \notin Faults, TypeOK, [Next]_vars, NEW ch \in Channel,
         NEW f \in FramesIn(ch), f.type = "CREATE_OR_UPDATE"
  PROVE  \/ f \in FramesIn(ch)'
         \/ \A k \in CacheRef : k[1] = ch[2] => f \in toUpdate'[k]
<1>0. net[ch] \in Seq(Frame)
  BY DEF TypeOK
<1>1. ASSUME net'[ch] = net[ch]
      PROVE  f \in FramesIn(ch)'
  BY <1>1 DEF FramesIn
<1>2. ASSUME NEW a \in App, PushCreateOrUpdateItem(a) \/ PushDeleteItem(a)
      PROVE  f \in FramesIn(ch)'
  <2>1. PICK x \in Item, g \in Frame : Sends(a, x, g)
    BY <1>2, SendsStep
  <2>2. a[1] \in Participant /\ Send(a[1], g)
    BY <2>1, ThreadTyping DEF Sends
  <2> QED
    BY <2>2, SentFrames
<1>3. ASSUME net[ch] # <<>>, net'[ch] = Tail(net[ch])
      PROVE  f \in FramesIn(ch)' \/ f = Head(net[ch])
  <2>1. PICK s \in Seq(Frame) : s = net[ch]
    BY <1>0
  <2>2. s # <<>> /\ net'[ch] = Tail(s)
    BY <1>3, <2>1
  <2>3. {s[i] : i \in 1 .. Len(s)}
          = {Tail(s)[i] : i \in 1 .. Len(Tail(s))} \cup {Head(s)}
    BY <2>2, TailElements
  <2>4. FramesIn(ch) = FramesIn(ch)' \cup {Head(s)}
    BY <2>1, <2>2, <2>3 DEF FramesIn
  <2> QED
    BY <2>1, <2>4
<1>4. ASSUME NEW c \in Channel, Receive(c)
      PROVE  \/ f \in FramesIn(ch)'
             \/ \A k \in CacheRef : k[1] = ch[2] => f \in toUpdate'[k]
  <2>1. CASE c # ch
    <3>1. net'[ch] = net[ch]
      BY <1>4, <2>1 DEF Receive, DataUpdate, DataDelete, Arrived, TypeOK
    <3> QED
      BY <1>1, <3>1
  <2>2. CASE c = ch
    <3>1. net[ch] # <<>> /\ net'[ch] = Tail(net[ch])
      BY <1>4, <2>2 DEF Receive, DataUpdate, DataDelete, Arrived, TypeOK
    <3>2. CASE f = Head(net[ch])
      <4>1. DataUpdate(ch)
        BY <1>4, <2>2, <3>2 DEF Receive, DataDelete
      <4> QED
        BY <3>2, <4>1 DEF DataUpdate
    <3> QED
      BY <1>3, <3>1, <3>2
  <2> QED
    BY <2>1, <2>2
<1>5. ASSUME NEW c \in Channel, NetworkFault(c)
      PROVE  f \in FramesIn(ch)'
  <2>1. CASE c # ch
    <3>1. net'[ch] = net[ch]
      BY <1>5, <2>1 DEF NetworkFault, TypeOK
    <3> QED
      BY <1>1, <3>1
  <2>2. CASE c = ch
    <3>1. /\ net[ch] # <<>>
          /\ \/ net'[ch] = Append(net[ch], Head(net[ch]))
             \/ net'[ch] = Append(Tail(net[ch]), Head(net[ch]))
      BY <1>5, <2>2 DEF NetworkFault, TypeOK
    <3>2. /\ Head(net[ch]) \in Frame /\ Tail(net[ch]) \in Seq(Frame)
          /\ FramesIn(ch) = {Tail(net[ch])[i] : i \in 1 .. Len(Tail(net[ch]))}
                              \cup {Head(net[ch])}
      BY <1>0, <3>1, FrameTyping, TailElements DEF FramesIn
    <3>3. CASE net'[ch] = Append(net[ch], Head(net[ch]))
      BY <1>0, <3>2, <3>3, AppendElements DEF FramesIn
    <3>4. CASE net'[ch] = Append(Tail(net[ch]), Head(net[ch]))
      <4>1. PICK t \in Seq(Frame), g \in Frame : t = Tail(net[ch]) /\ g = Head(net[ch])
        BY <3>2
      <4>2. f \in {t[i] : i \in 1 .. Len(t)} \cup {g}
        BY <3>2, <4>1
      <4>3. net'[ch] = Append(t, g)
        BY <3>4, <4>1
      <4>4. f \in {Append(t, g)[i] : i \in 1 .. Len(Append(t, g))}
        BY <4>2, AppendElements
      <4> QED
        BY <4>3, <4>4 DEF FramesIn
    <3> QED
      BY <3>1, <3>3, <3>4
  <2> QED
    BY <2>1, <2>2
<1>6. \A a \in App : Proceed(a) \/ PublishFails(a) =>
        net' = net \/ PushCreateOrUpdateItem(a) \/ PushDeleteItem(a)
  BY DEF Proceed, PublishFails, CreatePut, MarkUpdated, PublishUpdated,
         PublishDeletedBegin, PublishDeleted, RefreshUpdate, RefreshUpdated, RefreshDelete
<1>7. \A a \in App, c \in CacheIndex : Call(a, c) => net' = net
  BY DEF Call, CreateRead, UpdateCheck, DeleteItem, PublishBegin, RefreshBegin
<1>8. net' = net => net'[ch] = net[ch]
  OBVIOUS
<1> QED
  BY <1>1, <1>2, <1>4, <1>5, <1>6, <1>7, <1>8 DEF Next, vars

(* What leaves the updates that a cache has to apply. *)
LEMMA FiledLoses ==
  ASSUME TypeOK, [Next]_vars, NEW k \in CacheRef, NEW f \in toUpdate[k], f \notin toUpdate'[k]
  PROVE  \E a \in App :
           /\ RefreshUpdate(a)
           /\ k = CacheOf(a)
           /\ toUpdate' = [toUpdate EXCEPT ![CacheOf(a)] = toUpdate[CacheOf(a)] \ {f}]
<1>1. ASSUME NEW a \in App, RefreshUpdate(a)
      PROVE  /\ k = CacheOf(a)
             /\ toUpdate' = [toUpdate EXCEPT ![CacheOf(a)] = toUpdate[CacheOf(a)] \ {f}]
  <2>1. PICK g \in toUpdate[CacheOf(a)] :
          toUpdate' = [toUpdate EXCEPT ![CacheOf(a)] = toUpdate[CacheOf(a)] \ {g}]
    BY <1>1, RefreshUpdateStep
  <2>2. k = CacheOf(a) /\ f = g
    BY <2>1 DEF TypeOK
  <2> QED
    BY <2>1, <2>2
<1>2. \A a \in App : Proceed(a) \/ PublishFails(a) => toUpdate' = toUpdate \/ RefreshUpdate(a)
  BY DEF Proceed, PublishFails, CreatePut, MarkUpdated, PushCreateOrUpdateItem,
         PublishUpdated, PublishDeletedBegin, PushDeleteItem, PublishDeleted,
         RefreshUpdated, RefreshDelete
<1>3. \A a \in App, c \in CacheIndex : Call(a, c) => toUpdate' = toUpdate
  BY DEF Call, CreateRead, UpdateCheck, DeleteItem, PublishBegin, RefreshBegin
<1>4. \A ch \in Channel : Receive(ch) \/ NetworkFault(ch) => f \in toUpdate'[k]
  BY DEF Receive, DataUpdate, DataDelete, NetworkFault
<1> QED
  BY <1>1, <1>2, <1>3, <1>4 DEF Next, vars

(* A replica stays until its owner deletes the item. *)
LEMMA KeyStays ==
  ASSUME OwnershipRules, BaseInv, GoneInv, [Next]_vars, NEW id, ~ Gone(id),
         NEW j \in CacheRef, j[1] # id[1], HasKey(j, id)
  PROVE  HasKey(j, id)'
<1>0. /\ TypeOK /\ ProvenanceInv /\ OwnershipCheck /\ IdentityKept
  BY StepKeepsIdentity DEF BaseInv, OwnershipRules
<1>1. PICK y \in local[j] : heap[y].id = id
  BY DEF HasKey, Lookup
<1>2. y \in Item /\ heap'[y].id = id
  BY <1>0, <1>1, MarkedKeepIdentity
<1>3. \A a \in App : CacheOf(a)[1] = a[1]
  BY <1>0, ThreadTyping
<1>4. \A a \in App, c \in CacheIndex, z \in Item :
        DeleteItem(a, c, z) => heap[z].id[1] = a[1]
  BY <1>0, DeleteGuard
<1>5. ~ \E a \in App : RefreshDelete(a) /\ j = CacheOf(a) /\ id \in toDelete[j]
  BY DEF GoneInv
<1>6. y \in local'[j]
  BY <1>0, <1>1, <1>3, <1>4, <1>5, LocalLoses
<1> QED
  BY <1>2, <1>6 DEF HasKey, Lookup

(* An update about to be applied brings the identity into the cache. *)
LEMMA AppliedIsHeld ==
  ASSUME TypeOK, ProvenanceInv, IdentityKept, [Next]_vars, NEW j \in CacheRef,
         j[1] \in Subscriber, NEW f \in toUpdate[j], f \notin toUpdate'[j]
  PROVE  HasKey(j, f.id)'
<1>1. PICK a \in App :
        /\ RefreshUpdate(a)
        /\ j = CacheOf(a)
        /\ toUpdate' = [toUpdate EXCEPT ![CacheOf(a)] = toUpdate[CacheOf(a)] \ {f}]
  BY FiledLoses
<1>2. PICK g \in toUpdate[CacheOf(a)] :
        /\ toUpdate' = [toUpdate EXCEPT ![CacheOf(a)] = toUpdate[CacheOf(a)] \ {g}]
        /\ \/ /\ HasKey(CacheOf(a), g.id)
              /\ local' = local
           \/ a[1] \notin Subscriber
           \/ \E x \in Item :
                /\ Replicates(a, x, g)
                /\ local' = [local EXCEPT ![CacheOf(a)] = local[CacheOf(a)] \cup {x}]
  BY <1>1, RefreshUpdateStep
<1>3. f = g
  BY <1>1, <1>2 DEF TypeOK
<1>4. CASE HasKey(j, f.id) /\ local' = local
  <2>1. PICK y \in local[j] : heap[y].id = f.id
    BY <1>4 DEF HasKey, Lookup
  <2>2. heap'[y].id = f.id /\ y \in local'[j]
    BY <1>4, <2>1, MarkedKeepIdentity
  <2> QED
    BY <2>2 DEF HasKey, Lookup
<1>5. ASSUME NEW x \in Item, Replicates(a, x, f),
             local' = [local EXCEPT ![j] = local[j] \cup {x}]
      PROVE  HasKey(j, f.id)'
  <2>1. x \in local'[j]
    BY <1>5 DEF TypeOK
  <2>2. heap'[x].id = f.id
    BY <1>5 DEF Replicates
  <2> QED
    BY <2>1, <2>2 DEF HasKey, Lookup
<1>6. a[1] = j[1]
  BY <1>1 DEF CacheOf
<1> QED
  BY <1>1, <1>2, <1>3, <1>4, <1>5, <1>6

(***************************************************************************)
(* Where nothing is lost, what is on its way to a cache that knows the     *)
(* class stays on its way, or arrives, as long as its owner holds it.      *)
(***************************************************************************)
LEMMA ReachingStays ==
  ASSUME OwnershipRules, "lose" \notin Faults, BaseInv, GoneInv, [Next]_vars,
         NEW id, ~ Gone(id), ReachingAll(id)
  PROVE  ReachingAll(id)'
<1>0. TypeOK /\ ProvenanceInv /\ IdentityKept
  BY StepKeepsIdentity DEF BaseInv
<1> SUFFICES ASSUME NEW j \in CacheRef, j[1] # id[1], j[1] \in Subscriber
             PROVE  HasKey(j, id)' \/ \E f \in UpdatesTo(j)' : f.id = id
  BY DEF ReachingAll, Reaching
<1>1. HasKey(j, id) \/ \E f \in UpdatesTo(j) : f.id = id
  BY DEF ReachingAll, Reaching
<1>2. CASE HasKey(j, id)
  BY <1>2, KeyStays
<1>3. ASSUME NEW f \in toUpdate[j], f.id = id
      PROVE  HasKey(j, id)' \/ f \in UpdatesTo(j)'
  <2>1. CASE f \in toUpdate'[j]
    BY <2>1 DEF UpdatesTo
  <2>2. CASE f \notin toUpdate'[j]
    BY <1>0, <1>3, <2>2, AppliedIsHeld
  <2> QED
    BY <2>1, <2>2
<1>4. ASSUME NEW ch \in Channel, ch[2] = j[1], NEW f \in FramesIn(ch),
             f.type = "CREATE_OR_UPDATE"
      PROVE  f \in UpdatesTo(j)'
  <2>1. f \in FramesIn(ch)' \/ f \in toUpdate'[j]
    BY <1>0, <1>4, FramesKept
  <2> QED
    BY <1>4, <2>1 DEF UpdatesTo
<1> QED
  BY <1>1, <1>2, <1>3, <1>4 DEF UpdatesTo

(* What a cache holds and its application has created. *)
LEMMA HeldAtHome ==
  ASSUME OwnershipRules, BaseInv, NEW k \in CacheRef, NEW x \in local[k], heap[x].created
  PROVE  /\ x \in Item
         /\ heap[x].id[1] = k[1]
         /\ k = <<k[1], 0>>
         /\ ~ Gone(heap[x].id)
<1>1. x \in Item /\ x[1] = k[1]
  BY DEF BaseInv, TypeOK, OwnInv, ObjectsAtHome
<1>2. heap[x].id[1] = k[1]
  BY <1>1 DEF BaseInv, NumberingInv
<1>3. k = <<k[1], 0>>
  BY DEF OwnershipRules, SingleCreator, CacheRef
<1> QED
  BY <1>1, <1>2, <1>3 DEF Gone, HasKey, Lookup

(* What was marked before a step and is held by an owner after it. *)
LEMMA MarkedWasHeld ==
  ASSUME OwnershipRules, BaseInv, [Next]_vars, NEW k \in CacheRef, NEW x \in Item,
         IsShared(x), x \in local'[k], heap'[x].created
  PROVE  x \in local[k] /\ heap[x].created /\ heap'[x].id = heap[x].id
<1>1. x \in local[k] \/ Enters(k, x)
  BY LocalStep DEF BaseInv
<1>2. heap[x].created /\ heap'[x].id = heap[x].id
  BY CreatedStep DEF Creates
<1> QED
  BY <1>1, <1>2 DEF Enters, Creates, Replicates

(* publish() has sent the item to everybody else. *)
LEMMA SentIsReaching ==
  ASSUME TypeOK, NEW a \in App, PushCreateOrUpdateItem(a),
         NEW x \in thread[a].todo, x \notin thread'[a].todo,
         NEW id, id = heap[x].id, id[1] = a[1]
  PROVE  ReachingAll(id)'
<1>1. PICK y \in Item, f \in Frame : Sends(a, y, f)
  BY SendsStep
<1>2. ~ PushDeleteItem(a)
  BY DEF PushCreateOrUpdateItem, PushDeleteItem
<1>3. y = x /\ f = UpdateOf(x) /\ Send(a[1], f) /\ a[1] \in Participant
  BY <1>1, <1>2, ThreadTyping DEF Sends
<1>4. f.id = id /\ f.type = "CREATE_OR_UPDATE"
  BY <1>3 DEF UpdateOf
<1>5. ASSUME NEW j \in CacheRef, j[1] # a[1]
      PROVE  f \in UpdatesTo(j)'
  <2>1. PICK ch \in Channel : ch = <<a[1], j[1]>>
    BY <1>3 DEF Channel, CacheRef
  <2>2. f \in FramesIn(ch)'
    BY <1>3, <1>5, <2>1, SentFrames
  <2>3. ch[2] = j[1]
    BY <2>1
  <2> QED
    BY <1>4, <2>2, <2>3 DEF UpdatesTo
<1> QED
  BY <1>4, <1>5 DEF ReachingAll, Reaching

LEMMA PushedStep ==
  ASSUME OwnershipRules, "lose" \notin Faults, BaseInv, CreationInv, [Next]_vars
  PROVE  PushedAreReaching'
<1>0. /\ TypeOK /\ TypeOK' /\ ProvenanceInv /\ OwnInv /\ IdentityKept /\ GoneInv
  BY StepKeepsIdentity, TypeStep DEF BaseInv, CreationInv
<1> SUFFICES ASSUME NEW a \in App, thread'[a].pc = "pushingUpdated",
                    NEW k \in CacheRef, k = CacheOf(a)',
                    NEW x \in updated'[k], x \notin thread'[a].todo,
                    x \in local'[k], heap'[x].created
             PROVE  ReachingAll(heap[x].id)'
  <2>1. \A a \in App : CacheOf(a)' \in CacheRef
    BY <1>0, ThreadTyping DEF TypeOK, CacheOf, CacheRef, ThreadState
  <2> QED
    BY <2>1 DEF PushedAreReaching
<1>1. k = <<a[1], thread'[a].cache>>
  BY DEF CacheOf
<1>2. ~ \E c \in CacheIndex : /\ PublishBegin(a, c)
                              /\ thread'[a].cache = c
                              /\ thread'[a].todo = updated[<<a[1], c>>]
  BY <1>1 DEF PublishBegin
<1>3. \/ thread'[a] = thread[a]
      \/ /\ PushCreateOrUpdateItem(a)
         /\ thread'[a].cache = thread[a].cache
         /\ thread'[a].pc = thread[a].pc
  BY <1>0, <1>2, PushingStep
<1>4. k = CacheOf(a) /\ thread[a].pc = "pushingUpdated"
  BY <1>1, <1>3 DEF CacheOf
<1>5. x \in updated[k]
  BY <1>0, <1>4, UpdatedStep DEF MarkUpdated, UpdatedLocked, Holds
<1>6. x \in Item /\ IsShared(x)
  BY <1>0, <1>5, MarkedKeepIdentity
<1>7. x \in local[k] /\ heap[x].created /\ heap'[x].id = heap[x].id
  BY <1>6, MarkedWasHeld
<1>8. PICK id : id = heap[x].id
  OBVIOUS
<1>9. ~ Gone(id) /\ id[1] = a[1]
  BY <1>1, <1>7, <1>8, HeldAtHome
<1>10. CASE x \notin thread[a].todo
  <2>1. ReachingAll(id)
    BY <1>4, <1>5, <1>7, <1>8, <1>10 DEF CreationInv, PushedAreReaching
  <2>2. ReachingAll(id)'
    BY <1>0, <1>9, <2>1, ReachingStays
  <2> QED
    BY <1>7, <1>8, <2>2
<1>11. CASE x \in thread[a].todo
  <2>1. PushCreateOrUpdateItem(a)
    BY <1>3, <1>11
  <2>2. ReachingAll(id)'
    BY <1>0, <1>8, <1>9, <1>11, <2>1, SentIsReaching
  <2> QED
    BY <1>7, <1>8, <2>2
<1> QED
  BY <1>10, <1>11

(* The item that create() has put in the cache is about to be marked. *)
LEMMA CreatedIsMarking ==
  ASSUME OwnershipRules, BaseInv, [Next]_vars, NEW k \in CacheRef, NEW x \in local'[k],
         NEW a \in App, Creates(a, x), heap'[x].created, ~ heap[x].created
  PROVE  thread'[a].pc = "marking" /\ CacheOf(a)' = k /\ x \in thread'[a].todo
<1>0. TypeOK /\ OwnInv' /\ TypeOK'
  BY OwnStep, TypeStep DEF BaseInv
<1>1. x \in Item /\ x[1] = k[1]
  BY <1>0 DEF TypeOK, OwnInv, ObjectsAtHome
<1>2. PICK y \in Item :
        /\ \A z \in Item \ {y} : heap'[z] = heap[z]
        /\ thread'[a].pc = "marking" /\ thread'[a].todo = {y}
  BY <1>0, CreatePutStep DEF Creates
<1>3. x = y
  BY <1>1, <1>2
<1>4. thread'[a].cache = 0 /\ a[1] = k[1] /\ k = <<k[1], 0>>
  BY <1>0, <1>1, ThreadTyping
     DEF Creates, TypeOK, ThreadState, OwnershipRules, SingleCreator, CacheRef
<1> QED
  BY <1>2, <1>3, <1>4 DEF CacheOf

LEMMA CreationStep ==
  ASSUME OwnershipRules, "lose" \notin Faults, BaseInv, CreationInv, [Next]_vars
  PROVE  CreationNeverForgotten'
<1>0. /\ TypeOK /\ TypeOK' /\ ProvenanceInv /\ OwnInv /\ IdentityKept /\ GoneInv
  BY StepKeepsIdentity, TypeStep DEF BaseInv, CreationInv
<1> SUFFICES ASSUME NEW k \in CacheRef, NEW x \in local'[k], heap'[x].created,
                    x \notin updated'[k],
                    ~ \E a \in App : /\ thread'[a].pc = "marking"
                                     /\ CacheOf(a)' = k
                                     /\ x \in thread'[a].todo,
                    NEW j \in CacheRef, j[1] # k[1], j[1] \in Subscriber
             PROVE  Reaching(heap[x].id, j)'
  BY DEF CreationNeverForgotten
<1>1. x \in Item
  BY <1>0 DEF TypeOK
<1>2. heap[x].created /\ heap'[x].id = heap[x].id /\ IsShared(x)
  BY <1>1, CreatedStep, CreatedIsMarking
<1>3. x \in local[k]
  BY <1>1, <1>2, MarkedWasHeld
<1>4. PICK id : id = heap[x].id
  OBVIOUS
<1>5. ~ Gone(id) /\ id[1] = k[1]
  BY <1>2, <1>3, <1>4, HeldAtHome
<1>6. ReachingAll(id)
  <2>1. CASE x \in updated[k]
    <3>1. PICK a \in App : PublishUpdated(a) /\ k = CacheOf(a)
      BY <1>0, <2>1, UpdatedLoses
    <3>2. thread[a].pc = "pushingUpdated" /\ thread[a].todo = {}
      BY <3>1 DEF PublishUpdated
    <3> QED
      BY <1>2, <1>3, <1>4, <2>1, <3>1, <3>2 DEF CreationInv, PushedAreReaching
  <2>2. ASSUME NEW a \in App, thread[a].pc = "marking", CacheOf(a) = k, x \in thread[a].todo
        PROVE  FALSE
    <3>1. thread'[a] = thread[a] \/ MarkUpdated(a)
      BY <1>0, <2>2, MarkingStep
    <3>2. ASSUME thread'[a] = thread[a]
          PROVE  FALSE
      BY <2>2, <3>2 DEF CacheOf
    <3>3. ASSUME MarkUpdated(a)
          PROVE  FALSE
      BY <1>0, <2>2, <3>3 DEF MarkUpdated, TypeOK
    <3> QED
      BY <3>1, <3>2, <3>3
  <2> QED
    BY <1>2, <1>3, <1>4, <1>5, <2>1, <2>2 DEF CreationInv, CreationNeverForgotten, ReachingAll
<1>7. ReachingAll(id)'
  BY <1>0, <1>5, <1>6, ReachingStays
<1>8. Reaching(id, j)'
  BY <1>5, <1>7 DEF ReachingAll
<1> QED
  BY <1>2, <1>4, <1>8

LEMMA InitCreation == Init => CreationInv
<1> SUFFICES ASSUME Init PROVE CreationInv
  OBVIOUS
<1>1. PushedAreReaching
  BY DEF Init, Idle, PushedAreReaching
<1>2. CreationNeverForgotten
  BY DEF Init, CreationNeverForgotten
<1> QED
  BY <1>1, <1>2, InitGone DEF CreationInv

(***************************************************************************)
(* On a network that may duplicate and reorder datagrams, and with sockets *)
(* that may refuse them, but where nothing is lost: an item that its owner *)
(* holds is published, being published, on its way to or held by every     *)
(* other participant that knows its class.                                 *)
(***************************************************************************)
THEOREM CreationsAreRemembered ==
  ASSUME OwnershipRules, "lose" \notin Faults
  PROVE  Spec => []CreationNeverForgotten
<1>1. BaseInv /\ CreationInv /\ [Next]_vars => CreationInv'
  BY GoneStep, PushedStep, CreationStep DEF CreationInv
<1>2. CreationInv => CreationNeverForgotten
  BY DEF CreationInv
<1> QED
  BY <1>1, <1>2, InitBase, BaseStep, InitCreation, PTL DEF Spec

-----------------------------------------------------------------------------
(* No update of an item follows its deletion in the sequence s. *)
DeletionsAreLast(s) ==
  \A i, j \in 1 .. Len(s) :
    i < j /\ s[i].type = "DELETE" /\ s[j].type = "CREATE_OR_UPDATE" => s[i].id # s[j].id

LEMMA LastInTail ==
  ASSUME NEW s \in Seq(Frame), s # <<>>, DeletionsAreLast(s)
  PROVE  DeletionsAreLast(Tail(s))
<1> DEFINE t == Tail(s)
<1>1. /\ Len(s) \in Nat \ {0}
      /\ Len(t) = Len(s) - 1
      /\ \A i \in 1 .. Len(t) : t[i] = s[i + 1]
  BY TailIndex
<1> HIDE DEF t
<1> SUFFICES DeletionsAreLast(t)
  BY DEF t
<1> SUFFICES ASSUME NEW i \in 1 .. Len(t), NEW j \in 1 .. Len(t), i < j,
                    t[i].type = "DELETE", t[j].type = "CREATE_OR_UPDATE"
             PROVE  t[i].id # t[j].id
  BY DEF DeletionsAreLast
<1>2. i + 1 \in 1 .. Len(s) /\ j + 1 \in 1 .. Len(s) /\ i + 1 < j + 1
  BY <1>1
<1> QED
  BY <1>1, <1>2 DEF DeletionsAreLast

LEMMA LastInAppend ==
  ASSUME NEW s \in Seq(Frame), NEW f \in Frame, DeletionsAreLast(s),
         \A i \in 1 .. Len(s) :
           s[i].type = "DELETE" /\ f.type = "CREATE_OR_UPDATE" => s[i].id # f.id
  PROVE  DeletionsAreLast(Append(s, f))
<1> DEFINE t == Append(s, f)
<1>1. /\ Len(s) \in Nat
      /\ Len(t) = Len(s) + 1
      /\ \A i \in 1 .. Len(s) : t[i] = s[i]
      /\ t[Len(s) + 1] = f
  BY AppendIndex
<1> HIDE DEF t
<1> SUFFICES DeletionsAreLast(t)
  BY DEF t
<1> SUFFICES ASSUME NEW i \in 1 .. Len(t), NEW j \in 1 .. Len(t), i < j,
                    t[i].type = "DELETE", t[j].type = "CREATE_OR_UPDATE"
             PROVE  t[i].id # t[j].id
  BY DEF DeletionsAreLast
<1>2. i \in 1 .. Len(s) /\ t[i] = s[i]
  BY <1>1
<1>3. CASE j \in 1 .. Len(s)
  BY <1>1, <1>2, <1>3 DEF DeletionsAreLast
<1>4. CASE j = Len(s) + 1
  BY <1>1, <1>2, <1>4
<1> QED
  BY <1>1, <1>3, <1>4

(* What happens to a channel where nothing is duplicated or reordered. *)
LEMMA ChannelStep ==
  ASSUME Faults \subseteq {"lose", "ioexception"}, TypeOK, [Next]_vars, NEW ch \in Channel
  PROVE  \/ net'[ch] = net[ch]
         \/ net[ch] # <<>> /\ net'[ch] = Tail(net[ch])
         \/ \E a \in App, x \in Item, f \in Frame :
              Sends(a, x, f) /\ net'[ch] = Append(net[ch], f)
<1>1. ASSUME NEW a \in App, PushCreateOrUpdateItem(a) \/ PushDeleteItem(a)
      PROVE  \/ net'[ch] = net[ch]
             \/ \E x \in Item, f \in Frame :
                  Sends(a, x, f) /\ net'[ch] = Append(net[ch], f)
  <2>1. PICK x \in Item, f \in Frame : Sends(a, x, f)
    BY <1>1, SendsStep
  <2>2. net'[ch] = net[ch] \/ net'[ch] = Append(net[ch], f)
    BY <2>1 DEF Sends, Send
  <2> QED
    BY <2>1, <2>2
<1>2. ASSUME NEW c \in Channel, Receive(c) \/ NetworkFault(c)
      PROVE  net'[ch] = net[ch] \/ (net[ch] # <<>> /\ net'[ch] = Tail(net[ch]))
  <2>1. net[c] # <<>> /\ net' = [net EXCEPT ![c] = Tail(net[c])]
    BY <1>2 DEF Receive, DataUpdate, DataDelete, Arrived, NetworkFault
  <2> QED
    BY <2>1 DEF TypeOK
<1>3. \A a \in App : Proceed(a) \/ PublishFails(a) =>
        net' = net \/ PushCreateOrUpdateItem(a) \/ PushDeleteItem(a)
  BY DEF Proceed, PublishFails, CreatePut, MarkUpdated, PublishUpdated,
         PublishDeletedBegin, PublishDeleted, RefreshUpdate, RefreshUpdated, RefreshDelete
<1>4. \A a \in App, c \in CacheIndex : Call(a, c) => net' = net
  BY DEF Call, CreateRead, UpdateCheck, DeleteItem, PublishBegin, RefreshBegin
<1>5. CASE net' = net
  BY <1>5
<1> QED
  BY <1>1, <1>2, <1>3, <1>4, <1>5 DEF Next, vars

(* publish() announces a deletion. *)
LEMMA AnnouncedStep ==
  ASSUME TypeOK, [Next]_vars, NEW id, Announced(id)'
  PROVE  \/ Announced(id)
         \/ \E a \in App : PushDeleteItem(a) /\ \E x \in thread[a].todo : heap[x].id = id
<1>1. PICK ch \in Channel : \E f \in FramesIn(ch)' : f.type = "DELETE" /\ f.id = id
  BY DEF Announced
<1>2. PICK f \in FramesIn(ch)' : f.type = "DELETE" /\ f.id = id
  BY <1>1
<1>3. CASE f \in FramesIn(ch)
  BY <1>2, <1>3 DEF Announced
<1>4. ASSUME NEW a \in App, NEW x \in Item, Sends(a, x, f)
      PROVE  PushDeleteItem(a) /\ \E y \in thread[a].todo : heap[y].id = id
  BY <1>2, <1>4 DEF Sends, UpdateOf, DeletionOf
<1> QED
  BY <1>3, <1>4, FramesStep

(* Where a thread that has cleared the updates comes from. *)
LEMMA ClearedStep ==
  ASSUME TypeOK, [Next]_vars, NEW a \in App,
         thread'[a].pc \in {"published", "pushingDeleted"}
  PROVE  \/ PublishUpdated(a) /\ thread'[a].cache = thread[a].cache
         \/ /\ thread[a].pc \in {"published", "pushingDeleted"}
            /\ thread'[a].cache = thread[a].cache
            /\ ~ MarkUpdated(a)
<1>1. CASE thread' = [thread EXCEPT ![a] = Idle]
  BY <1>1 DEF Idle, TypeOK
<1>2. CASE CreatePut(a)
  BY <1>2, CreatePutStep
<1>3. CASE PushCreateOrUpdateItem(a) \/ PushDeleteItem(a)
  <2>1. PICK y : thread' = [thread EXCEPT ![a].todo = @ \ {y}]
    BY <1>3 DEF PushCreateOrUpdateItem, PushDeleteItem
  <2>2. thread'[a].pc = thread[a].pc /\ thread'[a].cache = thread[a].cache
    BY <2>1, ThreadTyping DEF TypeOK, ThreadState
  <2> QED
    BY <2>2 DEF MarkUpdated
<1>4. CASE PublishUpdated(a) \/ RefreshUpdated(a)
  <2>1. PICK v \in {"published", "removing"} : thread' = [thread EXCEPT ![a].pc = v]
    BY <1>4 DEF PublishUpdated, RefreshUpdated
  <2>2. thread'[a].pc = v /\ thread'[a].cache = thread[a].cache
    BY <2>1, ThreadTyping DEF TypeOK, ThreadState
  <2>3. RefreshUpdated(a) => thread'[a].pc = "removing"
    BY ThreadTyping DEF RefreshUpdated, TypeOK, ThreadState
  <2> QED
    BY <1>4, <2>2, <2>3
<1>5. CASE PublishDeletedBegin(a)
  <2>1. thread'[a].cache = thread[a].cache
    BY <1>5, ThreadTyping DEF PublishDeletedBegin, TypeOK, ThreadState
  <2> QED
    BY <1>5, <2>1 DEF PublishDeletedBegin, MarkUpdated
<1>6. CASE thread'[a] = thread[a]
  BY <1>6 DEF MarkUpdated
<1>7. ASSUME NEW c \in CacheIndex, Call(a, c)
      PROVE  thread'[a] = thread[a]
  BY <1>7 DEF Call, CreateRead, UpdateCheck, DeleteItem, PublishBegin, RefreshBegin, TypeOK
<1>8. Proceed(a) \/ PublishFails(a) =>
        \/ thread' = thread
        \/ thread' = [thread EXCEPT ![a] = Idle]
        \/ CreatePut(a) \/ PushCreateOrUpdateItem(a) \/ PushDeleteItem(a)
        \/ PublishUpdated(a) \/ RefreshUpdated(a) \/ PublishDeletedBegin(a)
  BY DEF Proceed, PublishFails, MarkUpdated, PublishDeleted, RefreshUpdate, RefreshDelete
<1> QED
  BY <1>1, <1>2, <1>3, <1>4, <1>5, <1>6, <1>7, <1>8, ThreadStep

(***************************************************************************)
(* The threads that are inside a method are those the application uses.    *)
(***************************************************************************)
LEMMA BusyStep ==
  ASSUME TypeOK, [Next]_vars, NEW a \in App, thread'[a].pc # "idle"
  PROVE  thread[a].pc # "idle" \/ a \in Creator \cup Editor \cup Networker
BY ThreadStep
   DEF Proceed, PublishFails, CreatePut, MarkUpdated, PushCreateOrUpdateItem,
       PublishUpdated, PublishDeletedBegin, PushDeleteItem, PublishDeleted,
       RefreshUpdate, RefreshUpdated, RefreshDelete, Call

(* With one thread per participant, two busy threads of one are the same. *)
LEMMA OneIsBusy ==
  ASSUME OneThread, DeletionInv, NEW a \in App, NEW b \in App, a[1] = b[1],
         thread[a].pc # "idle", thread[b].pc # "idle"
  PROVE  a = b
BY DEF DeletionInv, OneThread

(* An announced deletion is of an item whose updates have been cleared. *)
LEMMA StillUnannounced ==
  ASSUME OwnershipRules, OneThread, BaseInv, DeletionInv, [Next]_vars,
         NEW id, ~ Announced(id), NEW p, id[1] = p,
         \/ \E k \in CacheRef : k[1] = p /\ updated[k] # {}
         \/ \E b \in App : /\ b[1] = p
                           /\ thread[b].pc \in {"marking", "pushingUpdated"}
  PROVE  ~ Announced(id)'
<1>0. TypeOK /\ OwnInv
  BY DEF BaseInv
<1> SUFFICES ASSUME NEW a \in App, PushDeleteItem(a),
                    NEW x \in thread[a].todo, heap[x].id = id
             PROVE  FALSE
  BY <1>0, AnnouncedStep
<1>1. a[1] = p /\ thread[a].pc = "pushingDeleted" /\ CacheOf(a) \in CacheRef
  BY <1>0, ThreadTyping DEF OwnInv, OwnItemsMarked, PushDeleteItem
<1>2. updated[CacheOf(a)] = {}
  BY <1>1 DEF DeletionInv
<1>3. \A k \in CacheRef : k[1] = p => k = CacheOf(a)
  BY <1>0, <1>1, ThreadTyping DEF CacheRef, CacheOf, OwnershipRules, SingleCreator
<1>4. PICK b \in App : b[1] = p /\ thread[b].pc \in {"marking", "pushingUpdated"}
  BY <1>2, <1>3
<1>5. a = b
  BY <1>1, <1>4, OneIsBusy
<1> QED
  BY <1>1, <1>4, <1>5

(* Creating and updating are of items that nobody has announced. *)
LEMMA BegunIsUnannounced ==
  ASSUME OwnershipRules, BaseInv, GoneInv, [Next]_vars, NEW a \in App, NEW x \in Item,
         Creates(a, x) \/ \E c \in CacheIndex : UpdateCheck(a, c, x)
  PROVE  ~ Announced(heap[x].id)'
<1>0. TypeOK /\ ProvenanceInv /\ OwnershipCheck
  BY DEF BaseInv, OwnershipRules
<1>1. net' = net
  BY DEF Creates, CreatePut, UpdateCheck
<1>2. PICK id : id = heap'[x].id
  OBVIOUS
<1>3. CASE Creates(a, x)
  <2>1. Origin(id) = {}
    BY <1>2, <1>3, FreshIdentity DEF Creates
  <2>2. ~ \E ch \in Channel : \E f \in FramesIn(ch) : f.id = id
    BY <1>0, <2>1 DEF ProvenanceInv, Provenance
  <2> QED
    BY <1>1, <1>2, <2>2 DEF Announced, FramesIn
<1>4. ASSUME NEW c \in CacheIndex, UpdateCheck(a, c, x)
      PROVE  ~ Announced(heap[x].id)'
  <2>1. id = heap[x].id /\ id[1] = a[1] /\ HasKey(<<a[1], c>>, id) /\ c = 0
    BY <1>0, <1>2, <1>4, UpdateGuard DEF OwnershipRules, SingleCreator
  <2>2. ~ Gone(id)
    BY <2>1 DEF Gone
  <2>3. ~ \E ch \in Channel : \E f \in FramesIn(ch) : f.type = "DELETE" /\ f.id = id
    BY <2>2 DEF GoneInv
  <2> QED
    BY <1>1, <1>2, <2>3 DEF Announced, FramesIn
<1> QED
  BY <1>3, <1>4

LEMMA DeletionStep ==
  ASSUME OwnershipRules, OneThread, Faults \subseteq {"lose", "ioexception"},
         BaseInv, GoneInv, DeletionInv, [Next]_vars
  PROVE  DeletionInv'
<1>0. /\ TypeOK /\ ProvenanceInv /\ OwnInv /\ IdentityKept /\ TypeOK'
  BY StepKeepsIdentity, TypeStep DEF BaseInv
<1>1. ASSUME NEW a \in App, thread'[a].pc # "idle"
      PROVE  a \in Creator \cup Editor \cup Networker
  BY <1>0, <1>1, BusyStep DEF DeletionInv
<1>2. ASSUME NEW a \in App, thread'[a].pc \in {"published", "pushingDeleted"}
      PROVE  (updated[CacheOf(a)])' = {}
  <2>1. CASE PublishUpdated(a) /\ thread'[a].cache = thread[a].cache
    <3>1. updated'[CacheOf(a)] = {}
      BY <1>0, <2>1, ThreadTyping DEF PublishUpdated, TypeOK
    <3> QED
      BY <2>1, <3>1 DEF CacheOf
  <2>2. CASE /\ thread[a].pc \in {"published", "pushingDeleted"}
             /\ thread'[a].cache = thread[a].cache
             /\ ~ MarkUpdated(a)
    <3>1. PICK k \in CacheRef : k = CacheOf(a) /\ k[1] = a[1]
      BY <1>0, ThreadTyping
    <3>2. updated[k] = {}
      BY <2>2, <3>1 DEF DeletionInv
    <3>3. ASSUME NEW b \in App, MarkUpdated(b), k = CacheOf(b)
          PROVE  FALSE
      <4>1. thread[b].pc = "marking" /\ b[1] = a[1]
        BY <3>1, <3>3 DEF MarkUpdated, CacheOf
      <4>2. a = b
        BY <2>2, <4>1, OneIsBusy
      <4> QED
        BY <2>2, <4>1, <4>2
    <3>4. updated'[k] \subseteq {}
      BY <1>0, <3>2, <3>3, UpdatedStep
    <3>5. CacheOf(a)' = k
      BY <2>2, <3>1 DEF CacheOf
    <3> QED
      BY <3>4, <3>5
  <2> QED
    BY <1>0, <1>2, <2>1, <2>2, ClearedStep
<1>3. ASSUME NEW x \in Item, IsShared(x), NEW id, id = heap[x].id, ~ Announced(id)'
      PROVE  ~ Announced(heap[x].id)'
  BY <1>0, <1>3 DEF IdentityKept
<1>4. ASSUME NEW k \in CacheRef, NEW x \in updated'[k]
      PROVE  ~ Announced(heap[x].id)'
  <2>1. PICK id : id = heap[x].id
    OBVIOUS
  <2>2. CASE x \in updated[k]
    <3>1. x \in Item /\ IsShared(x) /\ id[1] = k[1] /\ ~ Announced(id)
      BY <1>0, <2>1, <2>2, MarkedKeepIdentity DEF OwnInv, OwnItemsMarked, DeletionInv
    <3>2. ~ Announced(id)'
      BY <2>2, <3>1, StillUnannounced
    <3> QED
      BY <1>3, <2>1, <3>1, <3>2
  <2>3. ASSUME NEW a \in App, MarkUpdated(a), x \in thread[a].todo
        PROVE  ~ Announced(heap[x].id)'
    <3>1. /\ x \in Item /\ IsShared(x) /\ id[1] = a[1] /\ ~ Announced(id)
          /\ thread[a].pc = "marking"
      BY <1>0, <2>1, <2>3, MarkedKeepIdentity DEF OwnInv, OwnItemsMarked, DeletionInv, MarkUpdated
    <3>2. ~ Announced(id)'
      BY <3>1, StillUnannounced
    <3> QED
      BY <1>3, <2>1, <3>1, <3>2
  <2> QED
    BY <1>0, <1>4, <2>2, <2>3, UpdatedStep
<1>5. ASSUME NEW a \in App, thread'[a].pc \in {"marking", "pushingUpdated"},
             NEW x \in thread'[a].todo
      PROVE  ~ Announced(heap[x].id)'
  <2>0. x \in Item
    BY <1>0, <1>5, ThreadTyping DEF TypeOK, ThreadState
  <2>1. PICK id : id = heap[x].id
    OBVIOUS
  <2>2. CASE Continues(a, x)
    <3>1. x \in thread[a].todo /\ thread[a].pc \in {"marking", "pushingUpdated"}
      BY <1>5, <2>2 DEF Continues
    <3>2. IsShared(x) /\ id[1] = a[1] /\ ~ Announced(id)
      BY <1>0, <2>1, <3>1, MarkedKeepIdentity DEF OwnInv, OwnItemsMarked, DeletionInv
    <3>3. ~ Announced(id)'
      BY <3>1, <3>2, StillUnannounced
    <3> QED
      BY <1>3, <2>0, <2>1, <3>2, <3>3
  <2>3. CASE Creates(a, x) \/ \E c \in CacheIndex : UpdateCheck(a, c, x)
    BY <2>0, <2>3, BegunIsUnannounced
  <2>4. ASSUME NEW c \in CacheIndex, x \in updated[<<a[1], c>>]
        PROVE  ~ Announced(heap[x].id)'
    <3>0. <<a[1], c>> \in CacheRef
      BY <1>0, ThreadTyping DEF CacheRef
    <3>1. PICK k \in CacheRef : k = <<a[1], c>> /\ k[1] = a[1]
      BY <3>0
    <3>2. IsShared(x) /\ id[1] = k[1] /\ ~ Announced(id)
      BY <1>0, <2>1, <2>4, <3>1, MarkedKeepIdentity DEF OwnInv, OwnItemsMarked, DeletionInv
    <3>3. ~ Announced(id)'
      BY <2>4, <3>1, <3>2, StillUnannounced
    <3> QED
      BY <1>3, <2>0, <2>1, <3>2, <3>3
  <2> QED
    BY <1>0, <1>5, <2>2, <2>3, <2>4, TodoStep DEF Begins
<1>6. ASSUME NEW ch \in Channel
      PROVE  DeletionsAreLast(net'[ch])
  <2>1. DeletionsAreLast(net[ch]) /\ net[ch] \in Seq(Frame)
    BY <1>0 DEF DeletionInv, UpdateNeverFollowsDelete, DeletionsAreLast, TypeOK
  <2>2. CASE net[ch] # <<>> /\ net'[ch] = Tail(net[ch])
    BY <2>1, <2>2, LastInTail
  <2>3. ASSUME NEW a \in App, NEW x \in Item, NEW f \in Frame,
               Sends(a, x, f), net'[ch] = Append(net[ch], f)
        PROVE  DeletionsAreLast(net'[ch])
    <3>1. ASSUME f.type = "CREATE_OR_UPDATE"
          PROVE  ~ Announced(f.id)
      <4>1. /\ f.id = heap[x].id
            /\ x \in thread[a].todo
            /\ thread[a].pc = "pushingUpdated"
        BY <2>3, <3>1 DEF Sends, UpdateOf, DeletionOf, PushCreateOrUpdateItem
      <4> QED
        BY <4>1 DEF DeletionInv
    <3>2. \A i \in 1 .. Len(net[ch]) :
            net[ch][i].type = "DELETE" /\ f.type = "CREATE_OR_UPDATE" => net[ch][i].id # f.id
      BY <3>1 DEF Announced, FramesIn
    <3> QED
      BY <2>1, <2>3, <3>2, LastInAppend
  <2> QED
    BY <1>0, <2>1, <2>2, <2>3, ChannelStep
<1>7. UpdateNeverFollowsDelete'
  BY <1>6 DEF UpdateNeverFollowsDelete, DeletionsAreLast
<1> QED
  BY <1>1, <1>2, <1>4, <1>5, <1>7 DEF DeletionInv

LEMMA InitDeletion == Init => DeletionInv
<1> SUFFICES ASSUME Init PROVE DeletionInv
  OBVIOUS
<1>1. \A a \in App : thread[a].pc = "idle"
  BY DEF Init, Idle
<1>2. \A k \in CacheRef : updated[k] = {}
  BY DEF Init
<1>3. UpdateNeverFollowsDelete
  BY DEF Init, UpdateNeverFollowsDelete
<1> QED
  BY <1>1, <1>2, <1>3 DEF DeletionInv

(***************************************************************************)
(* On a FIFO network that may lose datagrams, with sockets that may refuse *)
(* them, and where each participant calls its cache from one thread: no    *)
(* update follows the deletion of its item.                                *)
(***************************************************************************)
THEOREM DeletionsComeLast ==
  ASSUME OwnershipRules, OneThread, Faults \subseteq {"lose", "ioexception"}
  PROVE  Spec => []UpdateNeverFollowsDelete
<1>1. DeletionInv => UpdateNeverFollowsDelete
  BY DEF DeletionInv
<1> QED
  BY <1>1, InitBase, BaseStep, InitGone, GoneStep, InitDeletion, DeletionStep, PTL DEF Spec
=============================================================================
