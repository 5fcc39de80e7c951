------------------------------- MODULE CNode -------------------------------
(***************************************************************************)
(* The life of a C participant and of its caches: ParticipantImpl.c (new,  *)
(* listen, leave, delete, caches, publishing), NetworkReceiver.c (data),   *)
(* Cache.c, Shareable.c and GUID.c.                                        *)
(*                                                                         *)
(* What differs from Java: the caches are bounded sets whose failures are  *)
(* not looked at, an item is freed when its deletion has been published,   *)
(* the receiver threads are joined when a participant is deleted, and      *)
(* refresh() does nothing.  The content of an item plays no role here.     *)
(*                                                                         *)
(* An Item <<p, i>> is the i-th Shareable of participant p, and <<p, n>>   *)
(* is the GUID of the one that p has given number n.                       *)
(***************************************************************************)
EXTENDS Integers, Sequences, FiniteSets
LOCAL INSTANCE SequencesExt

CONSTANTS
  Participant,  \* the processes that joined the multicast group
  Thread,       \* application threads of each participant
  Editor,       \* application threads that create, update and delete items
  Networker,    \* application threads that publish and refresh
  Manager,      \* application threads that listen, leave and delete
  ItemCount,    \* Shareables of each participant
  CachesCount,  \* CACHES_COUNT
  SetLimit,     \* collSet_ITEM_MAX_COUNT, collMap_ITEM_MAX_COUNT
  Faults,       \* what may fail: "allocation", "send"
  MaxInFlight   \* the datagrams a socket keeps; further ones are lost

Item       == Participant \X (1 .. ItemCount)
GUID       == Participant \X (1 .. ItemCount)
CacheIndex == 1 .. CachesCount
Cell       == Participant \X CacheIndex
App        == Participant \X Thread
Receiver   == {w \in Participant \X Participant : w[1] # w[2]}

ASSUME CNodeAssumption ==
  /\ Participant \cap Thread = {}
  /\ Editor \cup Networker \cup Manager \subseteq App
  /\ ItemCount \in Nat
  /\ CachesCount \in Nat \ {0}
  /\ SetLimit \in Nat \ {0}
  /\ Faults \subseteq {"allocation", "send"}
  /\ MaxInFlight \in Nat

VARIABLES
  life,          \* a participant is up, being deleted, deleted, or half deleted
  alive,         \* dcrudIParticipantImpl.isAlive
  receiver,      \* the threads of dcrudIParticipantImpl.receivers
  caches,        \* dcrudIParticipantImpl.caches, up to cacheCount
  number,        \* dcrudGUIDImpl.instance of each item, 0 until it is shared
  home,          \* the cache an item was created in
  freed,         \* the items given to dcrudShareable_delete
  nextInstance,  \* dcrudICacheImpl.nextInstance
  local,         \* dcrudICacheImpl.local
  updated,       \* dcrudICacheImpl.updated
  deleted,       \* dcrudICacheImpl.deleted
  toUpdate,      \* dcrudICacheImpl.toUpdate: received buffers, by GUID
  toDelete,      \* dcrudICacheImpl.toDelete
  worker,        \* what each application thread is doing
  net,           \* datagrams in the socket of each receiver
  announced,     \* history: frames that were sent
  lost,          \* history: items that a full set or a failed send dropped
  refreshed      \* history: the updates a refresh() has seen

vars == <<life, alive, receiver, caches, number, home, freed, nextInstance, local,
          updated, deleted, toUpdate, toDelete, worker, net, announced, lost,
          refreshed>>

items    == <<number, home, freed, nextInstance, local, updated, deleted>>
received == <<toUpdate, toDelete, refreshed>>
history  == <<announced, lost>>
process  == <<life, alive, receiver, caches>>

NoItem == <<>>

Frame == [kind : {"update", "delete"}, guid : GUID]

WorkerState ==
  [pc : {"idle", "listening", "created", "checked", "removed", "published"},
   item : Item \cup {NoItem}, cache : {0} \cup CacheIndex]

Idle == [pc |-> "idle", item |-> NoItem, cache |-> 0]

(***************************************************************************)
(* Types of all the variables.                                             *)
(***************************************************************************)
CNodeTypeOK ==
  /\ life \in [Participant -> {"up", "deleting", "deleted", "half deleted"}]
  /\ alive \in [Participant -> BOOLEAN]
  /\ receiver \in [Receiver -> {"none", "running", "ended", "joined"}]
  /\ caches \in [Participant -> Seq({"cache", "hole"})]
  /\ \A p \in Participant : Len(caches[p]) \in CacheIndex
  /\ number \in [Item -> 0 .. ItemCount]
  /\ home \in [Item -> {0} \cup CacheIndex]
  /\ freed \subseteq Item
  /\ nextInstance \in [Cell -> 1 .. ItemCount + 1]
  /\ local \in [Cell -> SUBSET Item]
  /\ updated \in [Cell -> SUBSET Item]
  /\ deleted \in [Cell -> SUBSET Item]
  /\ toUpdate \in [Cell -> Seq(GUID)]
  /\ toDelete \in [Cell -> SUBSET GUID]
  /\ \A c \in Cell :
       /\ \A s \in {local[c], updated[c], deleted[c], toDelete[c]} :
            Cardinality(s) <= SetLimit
       /\ Len(toUpdate[c]) <= SetLimit
  /\ worker \in [App -> WorkerState]
  /\ net \in [Receiver -> Seq(Frame)]
  /\ announced \subseteq Frame
  /\ lost \subseteq Item
  /\ refreshed \in [Participant -> SUBSET GUID]

(* dcrudIParticipant_new creates the default cache; nextInstance is 1. *)
Init ==
  /\ life = [p \in Participant |-> "up"]
  /\ alive = [p \in Participant |-> FALSE]
  /\ receiver = [w \in Receiver |-> "none"]
  /\ caches = [p \in Participant |-> <<"cache">>]
  /\ number = [x \in Item |-> 0]
  /\ home = [x \in Item |-> 0]
  /\ freed = {}
  /\ nextInstance = [c \in Cell |-> 1]
  /\ local = [c \in Cell |-> {}]
  /\ updated = [c \in Cell |-> {}]
  /\ deleted = [c \in Cell |-> {}]
  /\ toUpdate = [c \in Cell |-> <<>>]
  /\ toDelete = [c \in Cell |-> {}]
  /\ worker = [a \in App |-> Idle]
  /\ net = [w \in Receiver |-> <<>>]
  /\ announced = {}
  /\ lost = {}
  /\ refreshed = [p \in Participant |-> {}]

-----------------------------------------------------------------------------
At(a, pc) == worker[a].pc = pc /\ life[a[1]] = "up"

IsCache(p, k) == k \in DOMAIN caches[p] /\ caches[p][k] = "cache"

(* dcrudGUID_isShared *)
IsShared(x) == number[x] > 0

Id(x) == <<x[1], number[x]>>

(* collSet_add and collMap_put of a bounded collection, status ignored, and *)
(* a defective bound.                                                       *)
HasRoomBeyond(s, x) == x \in s \/ Cardinality(s) <= SetLimit
HasRoom(s, x) == x \in s \/ Cardinality(s) < SetLimit
Added(s, x)   == IF HasRoom(s, x) THEN s \cup {x} ELSE s

Goto(a, pc, x, k) == worker' = [worker EXCEPT ![a] =
                                  [pc |-> pc, item |-> x, cache |-> k]]

(***************************************************************************)
(* dcrudICache_create: the item gets its number and enters the local map,  *)
(* then, under another mutex, the set of updated items.                    *)
(***************************************************************************)
Create(a, x, k) ==
  LET c == <<a[1], k>> IN
  /\ At(a, "idle")
  /\ IsCache(a[1], k)
  /\ x[1] = a[1]
  /\ ~ IsShared(x)
  /\ number' = [number EXCEPT ![x] = nextInstance[c]]
  /\ nextInstance' = [nextInstance EXCEPT ![c] = @ + 1]
  /\ home' = [home EXCEPT ![x] = k]
  /\ local' = [local EXCEPT ![c] = Added(@, x)]
  /\ Goto(a, "created", x, k)
  /\ UNCHANGED <<freed, updated, deleted, process, received, history, net>>

(* dcrudICache_update goes on only when the local map has the identity. *)
UpdateCheck(a, x) ==
  /\ At(a, "idle")
  /\ x[1] = a[1]
  /\ IsShared(x)
  /\ x \in local[<<x[1], home[x]>>]
  /\ Goto(a, "checked", x, home[x])
  /\ UNCHANGED <<items, process, received, history, net>>

(* What create does with the status of collSet_add, and a defective form. *)
MarkedNot(c, x) == updated
Marked(c, x)    == [updated EXCEPT ![c] = Added(@, x)]

MarkUpdated(a) ==
  LET x == worker[a].item
      c == <<a[1], worker[a].cache>>
  IN
  /\ At(a, "created") \/ At(a, "checked")
  /\ updated' = Marked(c, x)
  /\ lost' = IF HasRoom(updated[c], x) THEN lost ELSE lost \cup {x}
  /\ Goto(a, "idle", NoItem, 0)
  /\ UNCHANGED <<number, home, freed, nextInstance, local, deleted, process,
                 received, announced, net>>

(* dcrudICache_delete: out of the local map, then into the deleted items. *)
DeleteItem(a, x) ==
  LET c == <<x[1], home[x]>> IN
  /\ At(a, "idle")
  /\ x[1] = a[1]
  /\ IsShared(x)
  /\ x \in local[c]
  /\ local' = [local EXCEPT ![c] = @ \ {x}]
  /\ Goto(a, "removed", x, home[x])
  /\ UNCHANGED <<number, home, freed, nextInstance, updated, deleted, process,
                 received, history, net>>

MarkDeleted(a) ==
  LET x == worker[a].item
      c == <<a[1], worker[a].cache>>
  IN
  /\ At(a, "removed")
  /\ deleted' = [deleted EXCEPT ![c] = Added(@, x)]
  /\ lost' = IF HasRoom(deleted[c], x) THEN lost ELSE lost \cup {x}
  /\ Goto(a, "idle", NoItem, 0)
  /\ UNCHANGED <<number, home, freed, nextInstance, local, updated, process,
                 received, announced, net>>

-----------------------------------------------------------------------------
(* A datagram goes to the sockets that are open; a full one loses it. *)
Multicast(p, frames) ==
  [w \in Receiver |->
     IF w[2] = p /\ receiver[w] = "running"
     THEN LET all == net[w] \o frames
          IN  SubSeq(all, 1, IF Len(all) < MaxInFlight THEN Len(all) ELSE MaxInFlight)
     ELSE net[w]]

(* pushCreateOrUpdateItem, pushDeleteItem *)
Frames(kind, xs) == [i \in DOMAIN xs |-> [kind |-> kind, guid |-> Id(xs[i])]]

(* The items xs are sent one after the other. *)
Push(p, kind, xs) ==
  /\ net' = Multicast(p, Frames(kind, xs))
  /\ announced' = announced \cup {Frames(kind, xs)[i] : i \in DOMAIN xs}

(* dcrudICache_publish, under the mutex of the updated items. *)
PublishUpdated(a, k) ==
  LET c == <<a[1], k>> IN
  /\ At(a, "idle")
  /\ IsCache(a[1], k)
  /\ \E xs \in SetToSeqs(updated[c]) : Push(a[1], "update", xs)
  /\ updated' = [updated EXCEPT ![c] = {}]
  /\ Goto(a, "published", NoItem, k)
  /\ UNCHANGED <<number, home, freed, nextInstance, local, deleted, process,
                 received, lost>>

(* A send fails: the set is cleared all the same, the deletions wait. *)
PublishUpdatedFails(a, k) ==
  LET c == <<a[1], k>> IN
  /\ "send" \in Faults
  /\ At(a, "idle")
  /\ IsCache(a[1], k)
  /\ \E sent \in SUBSET updated[c] :
       /\ sent # updated[c]
       /\ \E xs \in SetToSeqs(sent) : Push(a[1], "update", xs)
       /\ lost' = lost \cup (updated[c] \ sent)
  /\ updated' = [updated EXCEPT ![c] = {}]
  /\ UNCHANGED <<number, home, freed, nextInstance, local, deleted, process,
                 received, worker>>

(* collSet_clear of the deleted items, and a defective form. *)
DeletedKept(c)    == deleted
DeletedCleared(c) == [deleted EXCEPT ![c] = {}]

(* The second half: the deletions are sent, and the items freed. *)
PublishDeleted(a) ==
  LET c == <<a[1], worker[a].cache>> IN
  /\ At(a, "published")
  /\ \E xs \in SetToSeqs(deleted[c]) : Push(a[1], "delete", xs)
  /\ freed' = freed \cup deleted[c]
  /\ deleted' = DeletedCleared(c)
  /\ Goto(a, "idle", NoItem, 0)
  /\ UNCHANGED <<number, home, nextInstance, local, updated, process, received,
                 lost>>

(* What becomes of the deleted items when a send fails. *)
FreedAnyway(c)  == freed \cup deleted[c]
FreedLater(c)   == freed

PublishDeletedFails(a) ==
  LET c == <<a[1], worker[a].cache>> IN
  /\ "send" \in Faults
  /\ At(a, "published")
  /\ \E sent \in SUBSET deleted[c] :
       /\ sent # deleted[c]
       /\ \E xs \in SetToSeqs(sent) : Push(a[1], "delete", xs)
  /\ freed' = FreedLater(c)
  /\ Goto(a, "idle", NoItem, 0)
  /\ UNCHANGED <<number, home, nextInstance, local, updated, deleted, process,
                 received, lost>>

(* dcrudICache_refresh returns as soon as its cache is a valid one. *)
Refresh(a, k) ==
  LET c == <<a[1], k>> IN
  /\ At(a, "idle")
  /\ IsCache(a[1], k)
  /\ refreshed' = [refreshed EXCEPT ![a[1]] =
                     @ \cup {toUpdate[c][i] : i \in DOMAIN toUpdate[c]}]
  /\ UNCHANGED <<items, process, toUpdate, toDelete, history, worker, net>>

-----------------------------------------------------------------------------
(* The caches that a walk through the array meets before its first hole. *)
BeforeHole(p) ==
  {k \in DOMAIN caches[p] : \A j \in 1 .. k : caches[p][j] = "cache"}

(* dcrudNetworkReceiver_run: after each frame, isAlive is looked at; and a   *)
(* loop that does not.                                                       *)
AfterFrameOn(w) == receiver
AfterFrame(w) == [receiver EXCEPT ![w] = IF alive[w[1]] THEN "running" ELSE "ended"]

(* The caches an update is copied to, and a defective form. *)
FiledFromLast(p, k) == {j \in BeforeHole(p) : j >= k}
FiledUpTo(p, k)     == {j \in BeforeHole(p) : j <= k}

(***************************************************************************)
(* dcrudNetworkReceiver_dataUpdate: a copy for each cache up to the first  *)
(* hole, or up to the copy that cannot be allocated; the status of the set *)
(* is ignored.                                                             *)
(***************************************************************************)
ReceiveUpdate(w) ==
  LET p == w[1] IN
  /\ receiver[w] = "running"
  /\ net[w] # <<>>
  /\ Head(net[w]).kind = "update"
  /\ \E k \in {Cardinality(BeforeHole(p))} \cup
               (IF "allocation" \in Faults THEN 0 .. Cardinality(BeforeHole(p)) ELSE {}) :
       toUpdate' = [c \in Cell |->
         IF /\ c[1] = p
            /\ c[2] \in FiledUpTo(p, k)
            /\ Len(toUpdate[c]) < SetLimit
         THEN Append(toUpdate[c], Head(net[w]).guid)
         ELSE toUpdate[c]]
  /\ net' = [net EXCEPT ![w] = Tail(@)]
  /\ receiver' = AfterFrame(w)
  /\ UNCHANGED <<items, life, alive, caches, toDelete, refreshed, history, worker>>

(* dcrudNetworkReceiver_dataDelete walks through the whole array. *)
ReceiveDelete(w) ==
  LET p == w[1] IN
  /\ receiver[w] = "running"
  /\ net[w] # <<>>
  /\ Head(net[w]).kind = "delete"
  /\ toDelete' = [c \in Cell |->
       IF c[1] = p /\ IsCache(p, c[2]) THEN Added(toDelete[c], Head(net[w]).guid)
       ELSE toDelete[c]]
  /\ net' = [net EXCEPT ![w] = Tail(@)]
  /\ receiver' = AfterFrame(w)
  /\ UNCHANGED <<items, life, alive, caches, toUpdate, refreshed, history, worker>>

-----------------------------------------------------------------------------
(* dcrudIParticipant_createCache counts a cache it could not allocate. *)
CreateCache(a) ==
  LET p == a[1] IN
  /\ At(a, "idle")
  /\ Len(caches[p]) < CachesCount
  /\ caches' \in {[caches EXCEPT ![p] = Append(@, cell)] :
                   cell \in {"cache"} \cup
                            (IF "allocation" \in Faults THEN {"hole"} ELSE {})}
  /\ UNCHANGED <<items, life, alive, receiver, received, history, worker, net>>

(* createReceiver: the thread runs before the participant is said alive. *)
Listen(a, x) ==
  LET w == <<a[1], x>> IN
  /\ At(a, "idle")
  /\ w \in Receiver
  /\ receiver[w] = "none"
  /\ receiver' = [receiver EXCEPT ![w] = "running"]
  /\ Goto(a, "listening", NoItem, 0)
  /\ UNCHANGED <<items, life, alive, caches, received, history, net>>

SetAlive(a) ==
  /\ At(a, "listening")
  /\ alive' = [alive EXCEPT ![a[1]] = TRUE]
  /\ Goto(a, "idle", NoItem, 0)
  /\ UNCHANGED <<items, life, receiver, caches, received, history, net>>

Leave(a) ==
  /\ At(a, "idle")
  /\ alive[a[1]]
  /\ alive' = [alive EXCEPT ![a[1]] = FALSE]
  /\ UNCHANGED <<items, life, receiver, caches, received, history, worker, net>>

(***************************************************************************)
(* dcrudIParticipant_delete refuses a participant that is alive; then it   *)
(* joins the receivers, for which dcrudNetworkReceiver_delete does not     *)
(* shut the socket down (the macro _linux is never defined), and deletes   *)
(* the caches, where a hole makes it return half way.                      *)
(***************************************************************************)
DeleteBegin(a) ==
  /\ At(a, "idle")
  /\ ~ alive[a[1]]
  /\ \A b \in App : b[1] = a[1] => worker[b] = Idle
  /\ life' = [life EXCEPT ![a[1]] = "deleting"]
  /\ UNCHANGED <<items, alive, receiver, caches, received, history, worker, net>>

JoinReceiver(w) ==
  /\ life[w[1]] = "deleting"
  /\ receiver[w] = "ended"
  /\ receiver' = [receiver EXCEPT ![w] = "joined"]
  /\ net' = [net EXCEPT ![w] = <<>>]
  /\ UNCHANGED <<items, life, alive, caches, received, history, worker>>

(* What the deletion waits for, and a defective form. *)
NobodyJoined(p) == TRUE
AllJoined(p) == \A w \in Receiver : w[1] = p => receiver[w] \in {"none", "joined"}

DeleteEnd(p) ==
  /\ life[p] = "deleting"
  /\ AllJoined(p)
  /\ life' = [life EXCEPT ![p] =
       IF \E k \in DOMAIN caches[p] : caches[p][k] = "hole" THEN "half deleted"
       ELSE "deleted"]
  /\ freed' = freed \cup UNION {local[<<p, k>>] : k \in BeforeHole(p)}
  /\ local' = [c \in Cell |-> IF c[1] = p /\ c[2] \in BeforeHole(p) THEN {}
                              ELSE local[c]]
  /\ updated' = [c \in Cell |-> IF c[1] = p /\ c[2] \in BeforeHole(p) THEN {}
                                ELSE updated[c]]
  /\ UNCHANGED <<number, home, nextInstance, deleted, alive, receiver, caches,
                 received, history, worker, net>>

-----------------------------------------------------------------------------
Receive(w) == ReceiveUpdate(w) \/ ReceiveDelete(w)

Next ==
  \/ \E a \in Editor, x \in Item, k \in CacheIndex : Create(a, x, k)
  \/ \E a \in Editor, x \in Item : UpdateCheck(a, x)
  \/ \E a \in Editor, x \in Item : DeleteItem(a, x)
  \/ \E a \in Editor : MarkUpdated(a)
  \/ \E a \in Editor : MarkDeleted(a)
  \/ \E a \in Networker, k \in CacheIndex : PublishUpdated(a, k)
  \/ \E a \in Networker, k \in CacheIndex : PublishUpdatedFails(a, k)
  \/ \E a \in Networker : PublishDeleted(a)
  \/ \E a \in Networker : PublishDeletedFails(a)
  \/ \E a \in Manager, k \in CacheIndex : Refresh(a, k)
  \/ \E a \in Manager : CreateCache(a)
  \/ \E a \in Manager, x \in Participant : Listen(a, x)
  \/ \E a \in Manager : SetAlive(a)
  \/ \E a \in Manager : Leave(a)
  \/ \E a \in Manager : DeleteBegin(a)
  \/ \E w \in Receiver : Receive(w)
  \/ \E w \in Receiver : JoinReceiver(w)
  \/ \E p \in Participant : DeleteEnd(p)

Spec == Init /\ [][Next]_vars

(***************************************************************************)
(* A receiver blocks only while nothing arrives, and the thread that       *)
(* deletes a participant only while it joins a receiver that runs.         *)
(***************************************************************************)
FairSpec ==
  /\ Spec
  /\ \A w \in Receiver : WF_vars(Receive(w)) /\ WF_vars(JoinReceiver(w))
  /\ \A p \in Participant : WF_vars(DeleteEnd(p))

-----------------------------------------------------------------------------
(***************************************************************************)
(* No set refers to an item that has been freed: publish() frees what it   *)
(* announces as deleted, although create and update may have put the item  *)
(* among the updated ones, and although a send that fails keeps it for the *)
(* next publish().  For programs whose caches have one thread.             *)
(***************************************************************************)
NoFreedItem ==
  \A c \in Cell : (local[c] \cup updated[c] \cup deleted[c]) \cap freed = {}

(***************************************************************************)
(* An item that has been created is being announced, is waiting for a      *)
(* publish(), has been announced, or was dropped by a full set or by a     *)
(* publish() whose send failed: nothing else forgets it.                   *)
(***************************************************************************)
CreationAccountedFor ==
  \A x \in Item : IsShared(x) =>
    \/ \E a \in App : worker[a].item = x
    \/ x \in UNION {updated[c] : c \in Cell}
    \/ [kind |-> "update", guid |-> Id(x)] \in announced
    \/ x \in lost
    \/ life[x[1]] # "up"

(***************************************************************************)
(* A participant frees an item, as long as it is up, only when all the     *)
(* others have been told of its deletion, however often sends failed.      *)
(***************************************************************************)
FreedIsAnnounced ==
  \A x \in freed : life[x[1]] = "up" =>
    [kind |-> "delete", guid |-> Id(x)] \in announced

(***************************************************************************)
(* A cache that was created earlier has received whatever a later one has, *)
(* unless it is full; and nothing is filed beyond a hole.                  *)
(***************************************************************************)
Contents(s) == {s[i] : i \in DOMAIN s}

EarlierCachesKnowMore ==
  \A p \in Participant : \A j, k \in DOMAIN caches[p] : j < k =>
    \/ Len(toUpdate[<<p, j>>]) = SetLimit
    \/ Contents(toUpdate[<<p, k>>]) \subseteq Contents(toUpdate[<<p, j>>])

(***************************************************************************)
(* No receiver thread of a participant is left when its caches, its        *)
(* buffers and its mutexes are released.                                   *)
(***************************************************************************)
JoinedBeforeDeleted ==
  \A w \in Receiver : life[w[1]] \in {"deleted", "half deleted"} =>
    receiver[w] \in {"none", "joined"}

(***************************************************************************)
(* When a participant has left, a receiver that is sent one more datagram  *)
(* ends, so that delete can join it.                                       *)
(***************************************************************************)
ReceiverEnds ==
  \A w \in Receiver :
    (receiver[w] = "running" /\ net[w] # <<>> /\ ~ alive[w[1]]) ~>
      (receiver[w] # "running" \/ alive[w[1]])

(***************************************************************************)
(* What a refresh() has seen is in a cache of its participant.             *)
(***************************************************************************)
RefreshApplies ==
  \A p \in Participant :
    refreshed[p] \subseteq
      {Id(x) : x \in UNION {local[<<p, k>>] : k \in DOMAIN caches[p]}}
=============================================================================
