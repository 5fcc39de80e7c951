---------------------------- MODULE CNodeProofs ----------------------------
(***************************************************************************)
(* Proofs about the C participant and its caches, for any participants,    *)
(* threads, caches, set sizes and faults.                                  *)
(***************************************************************************)
EXTENDS CNode, FiniteSetTheorems, SequenceLemmas, TLAPS
LOCAL INSTANCE SequencesExt

-----------------------------------------------------------------------------
(***************************************************************************)
(* Types.  A number given to an item is one of the participant's because a *)
(* cache has given as many numbers as it has items; an item is in the sets *)
(* of the cache that created it only; and a set that grows has had room.   *)
(***************************************************************************)
Created(c) == {x \in Item : x[1] = c[1] /\ home[x] = c[2]}

NumbersInv ==
  /\ number \in [Item -> 0 .. ItemCount]
  /\ home \in [Item -> {0} \cup CacheIndex]
  /\ nextInstance \in [Cell -> Nat \ {0}]
  /\ \A x \in Item : IsShared(x) <=> home[x] # 0
  /\ \A c \in Cell : /\ IsFiniteSet(Created(c))
                     /\ nextInstance[c] = Cardinality(Created(c)) + 1

Fits(s) == IsFiniteSet(s) /\ Cardinality(s) <= SetLimit

AtHome(x, c) == x[1] = c[1] /\ home[x] = c[2]

SetsInv ==
  /\ local \in [Cell -> SUBSET Item]
  /\ updated \in [Cell -> SUBSET Item]
  /\ deleted \in [Cell -> SUBSET Item]
  /\ \A c \in Cell :
       /\ Fits(local[c]) /\ Fits(updated[c]) /\ Fits(deleted[c])
       /\ \A x \in local[c] \cup updated[c] \cup deleted[c] : AtHome(x, c)

HasItem(a) == worker[a].pc \in {"created", "checked", "removed"}

WorkersInv ==
  /\ worker \in [App -> WorkerState]
  /\ \A a \in App :
       /\ HasItem(a) => /\ worker[a].item \in Item
                        /\ worker[a].cache \in CacheIndex
                        /\ AtHome(worker[a].item, <<a[1], worker[a].cache>>)
       /\ worker[a].pc = "published" => worker[a].cache \in CacheIndex

BuffersInv ==
  /\ toUpdate \in [Cell -> Seq(GUID)]
  /\ toDelete \in [Cell -> SUBSET GUID]
  /\ \A c \in Cell : Len(toUpdate[c]) <= SetLimit /\ Fits(toDelete[c])
  /\ net \in [Receiver -> Seq(Frame)]
  /\ announced \subseteq Frame
  /\ refreshed \in [Participant -> SUBSET GUID]

ProcessInv ==
  /\ life \in [Participant -> {"up", "deleting", "deleted", "half deleted"}]
  /\ alive \in [Participant -> BOOLEAN]
  /\ receiver \in [Receiver -> {"none", "running", "ended", "joined"}]
  /\ caches \in [Participant -> Seq({"cache", "hole"})]
  /\ \A p \in Participant : Len(caches[p]) \in CacheIndex

DroppedInv == freed \subseteq Item /\ lost \subseteq Item

TypeInv == /\ NumbersInv /\ SetsInv /\ WorkersInv
           /\ BuffersInv /\ ProcessInv /\ DroppedInv

(* As long as it is up, what a participant frees has been announced. *)
FreedInv ==
  /\ \A x \in freed : IsShared(x)
  /\ FreedIsAnnounced

(***************************************************************************)
(* Of the threads that hold an item, only the one that created it can be   *)
(* the reason for a creation that is not announced yet.                    *)
(***************************************************************************)
CreationKept ==
  \A x \in Item : IsShared(x) =>
    \/ \E a \in App : worker[a].pc = "created" /\ worker[a].item = x
    \/ \E c \in Cell : x \in updated[c]
    \/ [kind |-> "update", guid |-> Id(x)] \in announced
    \/ x \in lost
    \/ life[x[1]] # "up"

(* Nothing is filed in what comes after the caches that a walk reaches. *)
NothingBeyondHole ==
  \A p \in Participant : \A k \in CacheIndex \ BeforeHole(p) : toUpdate[<<p, k>>] = <<>>

FilingInv == NothingBeyondHole /\ EarlierCachesKnowMore

(***************************************************************************)
(* A cache is used by one thread, and it is always the same.               *)
(***************************************************************************)
OneThread == \A a, b \in Editor \cup Networker : a[1] = b[1] => a = b

(***************************************************************************)
(* Who does what; what an item in the hands of a thread is not; and what   *)
(* publish() is sure of between the two sets it sends.                     *)
(***************************************************************************)
Roles ==
  \A a \in App :
    /\ HasItem(a) => a \in Editor
    /\ worker[a].pc = "published" => a \in Networker
    /\ life[a[1]] # "up" => worker[a] = Idle

HeldItems ==
  \A a \in App : HasItem(a) =>
    /\ worker[a].item \notin freed
    /\ worker[a].pc = "removed" => worker[a].item \notin local[<<a[1], worker[a].cache>>]

Halves ==
  /\ \A c \in Cell : local[c] \cap deleted[c] = {}
  /\ \A a \in App : worker[a].pc = "published" => updated[<<a[1], worker[a].cache>>] = {}

SafetyInv ==
  /\ \A x \in freed : IsShared(x)
  /\ Roles
  /\ HeldItems
  /\ Halves
  /\ NoFreedItem

-----------------------------------------------------------------------------
(* What the types say of one item, one cell and one thread. *)
LEMMA CellIsPair ==
  ASSUME NEW p \in Participant, NEW k \in CacheIndex
  PROVE  <<p, k>> \in Cell
BY DEF Cell

LEMMA AppIsPair ==
  ASSUME NEW a \in App
  PROVE  a[1] \in Participant /\ a = <<a[1], a[2]>>
BY DEF App

(* A set without elements, and one with an element more or less. *)
LEMMA EmptyFits == Fits({})
BY FS_EmptySet, CNodeAssumption DEF Fits

LEMMA AddedFits ==
  ASSUME NEW s, NEW x, Fits(s)
  PROVE  /\ Fits(Added(s, x))
         /\ Added(s, x) \in {s, s \cup {x}}
         /\ HasRoom(s, x) => x \in Added(s, x)
<1>1. /\ IsFiniteSet(s \cup {x})
      /\ Cardinality(s \cup {x}) = IF x \in s THEN Cardinality(s) ELSE Cardinality(s) + 1
      /\ Cardinality(s) \in Nat
  BY FS_AddElement, FS_CardinalityType DEF Fits
<1>2. CASE HasRoom(s, x)
  <2>1. Cardinality(s \cup {x}) <= SetLimit
    BY <1>1, <1>2, CNodeAssumption DEF HasRoom, Fits
  <2> QED
    BY <1>1, <1>2, <2>1 DEF Added, Fits
<1>3. CASE ~ HasRoom(s, x)
  BY <1>3 DEF Added
<1> QED
  BY <1>2, <1>3

LEMMA RemovedFits ==
  ASSUME NEW s, NEW x, Fits(s)
  PROVE  Fits(s \ {x})
<1>1. /\ IsFiniteSet(s \ {x})
      /\ Cardinality(s \ {x}) = IF x \in s THEN Cardinality(s) - 1 ELSE Cardinality(s)
      /\ Cardinality(s) \in Nat
  BY FS_RemoveElement, FS_CardinalityType DEF Fits
<1> QED
  BY <1>1, CNodeAssumption DEF Fits

(* The items of a participant are as many as ItemCount. *)
LEMMA ItemsOfOne ==
  ASSUME NEW p \in Participant, NEW S, S \subseteq {x \in Item : x[1] = p}
  PROVE  IsFiniteSet(S) /\ Cardinality(S) <= ItemCount
<1>1. S \subseteq {p} \X (1 .. ItemCount)
  BY DEF Item
<1> QED
  BY <1>1, NumberedPairs, CNodeAssumption

(* A cache still has a number for an item that has none. *)
LEMMA NumberIsLeft ==
  ASSUME NumbersInv, NEW c \in Cell, NEW x \in Item, x[1] = c[1], ~ IsShared(x)
  PROVE  nextInstance[c] \in 1 .. ItemCount
<1> DEFINE S == Created(c) \cup {x}
<1>1. x \notin Created(c)
  BY CNodeAssumption DEF NumbersInv, Created, Cell, CacheIndex
<1>2. IsFiniteSet(Created(c)) /\ nextInstance[c] = Cardinality(Created(c)) + 1
  BY DEF NumbersInv
<1>3. Cardinality(S) = nextInstance[c]
  BY <1>1, <1>2, FS_AddElement
<1>4. S \subseteq {y \in Item : y[1] = c[1]} /\ c[1] \in Participant
  BY DEF Created, Cell
<1>5. Cardinality(S) <= ItemCount
  BY <1>4, ItemsOfOne
<1>6. Cardinality(Created(c)) \in Nat
  BY <1>2, FS_CardinalityType
<1> QED
  BY <1>2, <1>3, <1>5, <1>6, CNodeAssumption

LEMMA NumbersCreate ==
  ASSUME NumbersInv, NEW a \in App, NEW x \in Item, NEW k \in CacheIndex, Create(a, x, k)
  PROVE  NumbersInv'
<1> DEFINE c == <<a[1], k>>
<1>1. c \in Cell /\ c[1] = a[1] /\ c[2] = k
  BY AppIsPair, CellIsPair
<1>2. /\ x[1] = a[1] /\ ~ IsShared(x)
      /\ number' = [number EXCEPT ![x] = nextInstance[c]]
      /\ nextInstance' = [nextInstance EXCEPT ![c] = nextInstance[c] + 1]
      /\ home' = [home EXCEPT ![x] = k]
  BY DEF Create
<1>3. /\ number \in [Item -> 0 .. ItemCount]
      /\ home \in [Item -> {0} \cup CacheIndex]
      /\ nextInstance \in [Cell -> Nat \ {0}]
  BY DEF NumbersInv
<1> HIDE DEF c
<1>4. nextInstance[c] \in 1 .. ItemCount
  BY <1>1, <1>2, NumberIsLeft
<1>5. /\ number' \in [Item -> 0 .. ItemCount]
      /\ home' \in [Item -> {0} \cup CacheIndex]
      /\ nextInstance' \in [Cell -> Nat \ {0}]
  BY <1>1, <1>2, <1>3, <1>4
<1>6. ASSUME NEW y \in Item
      PROVE  (IsShared(y) <=> home[y] # 0)'
  <2>1. k # 0
    BY CNodeAssumption DEF CacheIndex
  <2>2. CASE y = x
    BY <1>2, <1>3, <1>4, <2>1, <2>2 DEF IsShared
  <2>3. CASE y # x
    BY <1>2, <1>3, <2>3 DEF IsShared, NumbersInv
  <2> QED
    BY <2>2, <2>3
<1>7. home[x] = 0
  BY <1>2 DEF NumbersInv
<1>8. ASSUME NEW d \in Cell
      PROVE  (/\ IsFiniteSet(Created(d))
              /\ nextInstance[d] = Cardinality(Created(d)) + 1)'
  <2>1. IsFiniteSet(Created(d)) /\ nextInstance[d] = Cardinality(Created(d)) + 1
    BY DEF NumbersInv
  <2>2. CASE d = c
    <3>1. Created(d)' = Created(d) \cup {x}
      BY <1>1, <1>2, <1>3, <2>2 DEF Created
    <3>2. x \notin Created(d)
      BY <1>7, CNodeAssumption DEF Created, Cell, CacheIndex
    <3>3. /\ IsFiniteSet(Created(d) \cup {x})
          /\ Cardinality(Created(d) \cup {x}) = Cardinality(Created(d)) + 1
      BY <2>1, <3>2, FS_AddElement
    <3>4. nextInstance'[d] = nextInstance[d] + 1
      BY <1>1, <1>2, <1>3, <2>2
    <3> QED
      BY <2>1, <3>1, <3>3, <3>4
  <2>3. CASE d # c
    <3>1. ~ (d[1] = x[1] /\ d[2] = k)
      BY <1>1, <1>2, <2>3 DEF Cell
    <3>2. ~ (home[x] = d[2])
      BY <1>7, CNodeAssumption DEF Cell, CacheIndex
    <3>3. Created(d)' = Created(d)
      BY <1>2, <1>3, <3>1, <3>2 DEF Created
    <3>4. nextInstance'[d] = nextInstance[d]
      BY <1>2, <1>3, <2>3
    <3> QED
      BY <2>1, <3>3, <3>4
  <2> QED
    BY <2>2, <2>3
<1> QED
  BY <1>5, <1>6, <1>8 DEF NumbersInv

(* No other step gives numbers or homes. *)
LEMMA OnlyCreateNumbers ==
  ASSUME [Next]_vars
  PROVE  \/ \E a \in Editor, x \in Item, k \in CacheIndex : Create(a, x, k)
         \/ UNCHANGED <<number, home, nextInstance>>
BY DEF Next, vars, UpdateCheck, DeleteItem, MarkUpdated, MarkDeleted, PublishUpdated,
       PublishUpdatedFails, PublishDeleted, PublishDeletedFails, Refresh, CreateCache,
       Listen, SetAlive, Leave, DeleteBegin, Receive, ReceiveUpdate, ReceiveDelete,
       JoinReceiver, DeleteEnd, items

LEMMA RolesAreApps == Editor \subseteq App /\ Networker \subseteq App /\ Manager \subseteq App
BY CNodeAssumption

LEMMA NumbersStep ==
  ASSUME NumbersInv, [Next]_vars
  PROVE  NumbersInv'
<1>1. CASE UNCHANGED <<number, home, nextInstance>>
  BY <1>1 DEF NumbersInv, IsShared, Created
<1>2. CASE \E a \in Editor, x \in Item, k \in CacheIndex : Create(a, x, k)
  BY <1>2, NumbersCreate, RolesAreApps
<1> QED
  BY <1>1, <1>2, OnlyCreateNumbers

-----------------------------------------------------------------------------
(* One of the sets of items by cell, when an item enters or leaves a cell. *)
LEMMA CellGrows ==
  ASSUME NEW f \in [Cell -> SUBSET Item], \A d \in Cell : Fits(f[d]),
         NEW c \in Cell, NEW x \in Item,
         NEW g, g = [f EXCEPT ![c] = Added(f[c], x)]
  PROVE  /\ g \in [Cell -> SUBSET Item]
         /\ \A d \in Cell : Fits(g[d])
         /\ \A d \in Cell : \A y \in g[d] : y \in f[d] \/ (d = c /\ y = x)
         /\ \A d \in Cell : f[d] \subseteq g[d]
         /\ HasRoom(f[c], x) => x \in g[c]
<1>1. /\ Fits(Added(f[c], x))
      /\ Added(f[c], x) \in {f[c], f[c] \cup {x}}
      /\ HasRoom(f[c], x) => x \in Added(f[c], x)
  BY AddedFits
<1>2. g[c] = Added(f[c], x) /\ \A d \in Cell \ {c} : g[d] = f[d]
  OBVIOUS
<1>3. g \in [Cell -> SUBSET Item]
  BY <1>1
<1> QED
  BY <1>1, <1>2, <1>3

LEMMA CellLoses ==
  ASSUME NEW f \in [Cell -> SUBSET Item], \A d \in Cell : Fits(f[d]),
         NEW c \in Cell, NEW x \in Item,
         NEW g, g = [f EXCEPT ![c] = f[c] \ {x}]
  PROVE  /\ g \in [Cell -> SUBSET Item]
         /\ \A d \in Cell : Fits(g[d])
         /\ \A d \in Cell : g[d] \subseteq f[d]
<1>1. Fits(f[c] \ {x})
  BY RemovedFits
<1>2. g[c] = f[c] \ {x} /\ \A d \in Cell \ {c} : g[d] = f[d]
  OBVIOUS
<1>3. g \in [Cell -> SUBSET Item]
  OBVIOUS
<1> QED
  BY <1>1, <1>2, <1>3

LEMMA CellCleared ==
  ASSUME NEW f \in [Cell -> SUBSET Item], \A d \in Cell : Fits(f[d]),
         NEW c \in Cell, NEW g, g = [f EXCEPT ![c] = {}]
  PROVE  /\ g \in [Cell -> SUBSET Item]
         /\ \A d \in Cell : Fits(g[d])
         /\ \A d \in Cell : g[d] \subseteq f[d]
<1>1. g[c] = {} /\ \A d \in Cell \ {c} : g[d] = f[d]
  OBVIOUS
<1>2. g \in [Cell -> SUBSET Item]
  OBVIOUS
<1> QED
  BY <1>1, <1>2, EmptyFits

LEMMA CellsEmptied ==
  ASSUME NEW f \in [Cell -> SUBSET Item], \A d \in Cell : Fits(f[d]),
         NEW C, NEW g, g = [d \in Cell |-> IF d \in C THEN {} ELSE f[d]]
  PROVE  /\ g \in [Cell -> SUBSET Item]
         /\ \A d \in Cell : Fits(g[d])
         /\ \A d \in Cell : g[d] \subseteq f[d]
BY EmptyFits

(* An item that is shared has a home. *)
LEMMA SharedAtHome ==
  ASSUME NumbersInv, NEW x \in Item, IsShared(x)
  PROVE  /\ <<x[1], home[x]>> \in Cell
         /\ home[x] \in CacheIndex
         /\ x[1] \in Participant
         /\ Id(x) \in GUID
BY DEF NumbersInv, Cell, Item, IsShared, Id, GUID

(* What is in a set of a cache is shared. *)
LEMMA HomeIsShared ==
  ASSUME NumbersInv, NEW c \in Cell, NEW x \in Item, AtHome(x, c)
  PROVE  IsShared(x) /\ c = <<x[1], home[x]>>
BY CNodeAssumption DEF NumbersInv, AtHome, Cell, CacheIndex

(* Nobody moves, whoever else is created. *)
LEMMA HomesKept ==
  ASSUME NumbersInv, [Next]_vars, NEW c \in Cell, NEW x \in Item, AtHome(x, c)
  PROVE  AtHome(x, c)' /\ number'[x] = number[x] /\ home'[x] = home[x]
<1>1. CASE UNCHANGED <<number, home, nextInstance>>
  BY <1>1 DEF AtHome
<1>2. ASSUME NEW a \in Editor, NEW y \in Item, NEW k \in CacheIndex, Create(a, y, k)
      PROVE  AtHome(x, c)' /\ number'[x] = number[x] /\ home'[x] = home[x]
  <2>1. x # y
    BY <1>2, HomeIsShared DEF Create
  <2> QED
    BY <1>2, <2>1 DEF Create, AtHome, NumbersInv
<1> QED
  BY <1>1, <1>2, OnlyCreateNumbers

(* The sets of a step that leaves the items where they are or moves one.   *)
LEMMA SetsFrom ==
  ASSUME NumbersInv, SetsInv, [Next]_vars,
         local' \in [Cell -> SUBSET Item], \A d \in Cell : Fits(local'[d]),
         \A d \in Cell : \A y \in local'[d] : y \in local[d] \/ AtHome(y, d)',
         updated' \in [Cell -> SUBSET Item], \A d \in Cell : Fits(updated'[d]),
         \A d \in Cell : \A y \in updated'[d] : y \in updated[d] \/ AtHome(y, d)',
         deleted' \in [Cell -> SUBSET Item], \A d \in Cell : Fits(deleted'[d]),
         \A d \in Cell : \A y \in deleted'[d] : y \in deleted[d] \/ AtHome(y, d)'
  PROVE  SetsInv'
<1>1. ASSUME NEW d \in Cell, NEW y \in local'[d] \cup updated'[d] \cup deleted'[d]
      PROVE  AtHome(y, d)'
  <2>1. CASE y \in local[d] \cup updated[d] \cup deleted[d]
    <3>1. AtHome(y, d) /\ y \in Item
      BY <2>1 DEF SetsInv
    <3> QED
      BY <3>1, HomesKept
  <2>2. CASE y \notin local[d] \cup updated[d] \cup deleted[d]
    BY <1>1, <2>2
  <2> QED
    BY <2>1, <2>2
<1>2. \A d \in Cell : Fits(local[d])' /\ Fits(updated[d])' /\ Fits(deleted[d])'
  BY DEF Fits
<1> QED
  BY <1>1, <1>2 DEF SetsInv

LEMMA SetsCreate ==
  ASSUME NumbersInv, SetsInv, [Next]_vars,
         NEW a \in Editor, NEW x \in Item, NEW k \in CacheIndex, Create(a, x, k)
  PROVE  SetsInv'
<1>1. PICK c \in Cell : c = <<a[1], k>>
  BY RolesAreApps, AppIsPair, CellIsPair
<1>2. local' = [local EXCEPT ![c] = Added(local[c], x)]
  BY <1>1 DEF Create
<1>3. AtHome(x, c)'
  BY <1>1 DEF Create, AtHome, NumbersInv
<1>4. UNCHANGED <<updated, deleted>>
  BY DEF Create
<1>5. /\ local' \in [Cell -> SUBSET Item]
      /\ \A d \in Cell : Fits(local'[d])
      /\ \A d \in Cell : \A y \in local'[d] : y \in local[d] \/ (d = c /\ y = x)
  BY <1>2, CellGrows DEF SetsInv
<1> QED
  BY <1>3, <1>4, <1>5, SetsFrom DEF SetsInv

LEMMA SetsMarkUpdated ==
  ASSUME NumbersInv, SetsInv, WorkersInv, [Next]_vars, NEW a \in Editor, MarkUpdated(a)
  PROVE  SetsInv'
<1>1. a \in App /\ HasItem(a)
  BY RolesAreApps DEF MarkUpdated, At, HasItem
<1>2. PICK x \in Item, c \in Cell : x = worker[a].item /\ c = <<a[1], worker[a].cache>>
  BY <1>1, AppIsPair, CellIsPair DEF WorkersInv
<1>3. /\ updated' = [updated EXCEPT ![c] = Added(updated[c], x)]
      /\ UNCHANGED <<local, deleted, number, home, nextInstance>>
  BY <1>2 DEF MarkUpdated, Marked
<1>4. AtHome(x, c)'
  BY <1>1, <1>2, <1>3 DEF WorkersInv, AtHome
<1>5. /\ updated' \in [Cell -> SUBSET Item]
      /\ \A d \in Cell : Fits(updated'[d])
      /\ \A d \in Cell : \A y \in updated'[d] : y \in updated[d] \/ (d = c /\ y = x)
  BY <1>3, CellGrows DEF SetsInv
<1> QED
  BY <1>3, <1>4, <1>5, SetsFrom DEF SetsInv

LEMMA SetsMarkDeleted ==
  ASSUME NumbersInv, SetsInv, WorkersInv, [Next]_vars, NEW a \in Editor, MarkDeleted(a)
  PROVE  SetsInv'
<1>1. a \in App /\ HasItem(a)
  BY RolesAreApps DEF MarkDeleted, At, HasItem
<1>2. PICK x \in Item, c \in Cell : x = worker[a].item /\ c = <<a[1], worker[a].cache>>
  BY <1>1, AppIsPair, CellIsPair DEF WorkersInv
<1>3. /\ deleted' = [deleted EXCEPT ![c] = Added(deleted[c], x)]
      /\ UNCHANGED <<local, updated, number, home, nextInstance>>
  BY <1>2 DEF MarkDeleted
<1>4. AtHome(x, c)'
  BY <1>1, <1>2, <1>3 DEF WorkersInv, AtHome
<1>5. /\ deleted' \in [Cell -> SUBSET Item]
      /\ \A d \in Cell : Fits(deleted'[d])
      /\ \A d \in Cell : \A y \in deleted'[d] : y \in deleted[d] \/ (d = c /\ y = x)
  BY <1>3, CellGrows DEF SetsInv
<1> QED
  BY <1>3, <1>4, <1>5, SetsFrom DEF SetsInv

(* Every set of every cell is what it was, or a part of it.                *)
LEMMA SetsDeleteItem ==
  ASSUME NumbersInv, SetsInv, [Next]_vars, NEW a \in Editor, NEW x \in Item, DeleteItem(a, x)
  PROVE  SetsInv'
<1>1. PICK c \in Cell : c = <<x[1], home[x]>>
  BY SharedAtHome DEF DeleteItem
<1>2. /\ local' = [local EXCEPT ![c] = local[c] \ {x}]
      /\ UNCHANGED <<updated, deleted>>
  BY <1>1 DEF DeleteItem
<1>3. /\ local' \in [Cell -> SUBSET Item]
      /\ \A d \in Cell : Fits(local'[d])
      /\ \A d \in Cell : local'[d] \subseteq local[d]
  <2>1. local \in [Cell -> SUBSET Item] /\ \A d \in Cell : Fits(local[d])
    BY DEF SetsInv
  <2>2. PICK g : g = [local EXCEPT ![c] = local[c] \ {x}]
    OBVIOUS
  <2>3. /\ g \in [Cell -> SUBSET Item]
        /\ \A d \in Cell : Fits(g[d])
        /\ \A d \in Cell : g[d] \subseteq local[d]
    BY <2>1, <2>2, CellLoses
  <2> QED
    BY <1>2, <2>2, <2>3
<1> QED
  BY <1>2, <1>3, SetsFrom DEF SetsInv

LEMMA SetsPublishUpdated ==
  ASSUME NumbersInv, SetsInv, [Next]_vars, NEW a \in Networker, NEW k \in CacheIndex,
         PublishUpdated(a, k) \/ PublishUpdatedFails(a, k)
  PROVE  SetsInv'
<1>1. PICK c \in Cell : c = <<a[1], k>>
  BY RolesAreApps, AppIsPair, CellIsPair
<1>2. /\ updated' = [updated EXCEPT ![c] = {}]
      /\ UNCHANGED <<local, deleted>>
  BY <1>1 DEF PublishUpdated, PublishUpdatedFails
<1>3. /\ updated' \in [Cell -> SUBSET Item]
      /\ \A d \in Cell : Fits(updated'[d])
      /\ \A d \in Cell : updated'[d] \subseteq updated[d]
  BY <1>2, CellCleared DEF SetsInv
<1> QED
  BY <1>2, <1>3, SetsFrom DEF SetsInv

LEMMA SetsPublishDeleted ==
  ASSUME NumbersInv, SetsInv, WorkersInv, [Next]_vars, NEW a \in Networker, PublishDeleted(a)
  PROVE  SetsInv'
<1>1. PICK c \in Cell : c = <<a[1], worker[a].cache>>
  BY RolesAreApps, AppIsPair, CellIsPair DEF PublishDeleted, At, WorkersInv
<1>2. /\ deleted' = [deleted EXCEPT ![c] = {}]
      /\ UNCHANGED <<local, updated>>
  BY <1>1 DEF PublishDeleted, DeletedCleared
<1>3. /\ deleted' \in [Cell -> SUBSET Item]
      /\ \A d \in Cell : Fits(deleted'[d])
      /\ \A d \in Cell : deleted'[d] \subseteq deleted[d]
  BY <1>2, CellCleared DEF SetsInv
<1> QED
  BY <1>2, <1>3, SetsFrom DEF SetsInv

LEMMA SetsDeleteEnd ==
  ASSUME NumbersInv, SetsInv, [Next]_vars, NEW p \in Participant, DeleteEnd(p)
  PROVE  SetsInv'
<1> DEFINE C == {c \in Cell : c[1] = p /\ c[2] \in BeforeHole(p)}
<1>1. /\ local' = [c \in Cell |-> IF c \in C THEN {} ELSE local[c]]
      /\ updated' = [c \in Cell |-> IF c \in C THEN {} ELSE updated[c]]
      /\ deleted' = deleted
  BY DEF DeleteEnd
<1>4. /\ local \in [Cell -> SUBSET Item] /\ \A d \in Cell : Fits(local[d])
      /\ updated \in [Cell -> SUBSET Item] /\ \A d \in Cell : Fits(updated[d])
  BY DEF SetsInv
<1> HIDE DEF C
<1>2. /\ local' \in [Cell -> SUBSET Item]
      /\ \A d \in Cell : Fits(local'[d])
      /\ \A d \in Cell : local'[d] \subseteq local[d]
  BY <1>1, <1>4, CellsEmptied
<1>3. /\ updated' \in [Cell -> SUBSET Item]
      /\ \A d \in Cell : Fits(updated'[d])
      /\ \A d \in Cell : updated'[d] \subseteq updated[d]
  BY <1>1, <1>4, CellsEmptied
<1> QED
  BY <1>1, <1>2, <1>3, SetsFrom DEF SetsInv

LEMMA SetsStep ==
  ASSUME NumbersInv, SetsInv, WorkersInv, [Next]_vars
  PROVE  SetsInv'
<1>1. CASE UNCHANGED <<local, updated, deleted>>
  BY <1>1, SetsFrom DEF SetsInv
<1>2. CASE \E a \in Editor, x \in Item, k \in CacheIndex : Create(a, x, k)
  BY <1>2, SetsCreate
<1>3. CASE \E a \in Editor, x \in Item : DeleteItem(a, x)
  BY <1>3, SetsDeleteItem
<1>4. CASE \E a \in Editor : MarkUpdated(a)
  BY <1>4, SetsMarkUpdated
<1>5. CASE \E a \in Editor : MarkDeleted(a)
  BY <1>5, SetsMarkDeleted
<1>6. CASE \E a \in Networker, k \in CacheIndex :
             PublishUpdated(a, k) \/ PublishUpdatedFails(a, k)
  BY <1>6, SetsPublishUpdated
<1>7. CASE \E a \in Networker : PublishDeleted(a)
  BY <1>7, SetsPublishDeleted
<1>8. CASE \E p \in Participant : DeleteEnd(p)
  BY <1>8, SetsDeleteEnd
<1> QED
  BY <1>1, <1>2, <1>3, <1>4, <1>5, <1>6, <1>7, <1>8
  DEF Next, vars, UpdateCheck, PublishDeletedFails, Refresh, CreateCache, Listen, SetAlive,
      Leave, DeleteBegin, Receive, ReceiveUpdate, ReceiveDelete, JoinReceiver, items

-----------------------------------------------------------------------------
(* What threads are doing, after one of them has gone on. *)
LEMMA WorkersFrom ==
  ASSUME NumbersInv, WorkersInv, [Next]_vars, NEW a \in App,
         NEW s \in WorkerState, worker' = [worker EXCEPT ![a] = s],
         s.pc \in {"created", "checked", "removed"} =>
           /\ s.item \in Item
           /\ s.cache \in CacheIndex
           /\ AtHome(s.item, <<a[1], s.cache>>)',
         s.pc = "published" => s.cache \in CacheIndex
  PROVE  WorkersInv'
<1>1. worker' \in [App -> WorkerState] /\ worker'[a] = s
  BY DEF WorkersInv
<1>2. ASSUME NEW b \in App
      PROVE  (/\ HasItem(b) => /\ worker[b].item \in Item
                               /\ worker[b].cache \in CacheIndex
                               /\ AtHome(worker[b].item, <<b[1], worker[b].cache>>)
              /\ worker[b].pc = "published" => worker[b].cache \in CacheIndex)'
  <2>1. CASE b = a
    BY <1>1, <2>1 DEF HasItem, AtHome
  <2>2. CASE b # a
    <3>1. worker'[b] = worker[b]
      BY <2>2 DEF WorkersInv
    <3>2. CASE HasItem(b)
      <4>1. PICK x \in Item, c \in Cell :
              x = worker[b].item /\ c = <<b[1], worker[b].cache>> /\ AtHome(x, c)
        BY <3>2, AppIsPair, CellIsPair DEF WorkersInv
      <4>2. AtHome(x, c)'
        BY <4>1, HomesKept
      <4> QED
        BY <3>1, <3>2, <4>1, <4>2 DEF WorkersInv, HasItem, AtHome
    <3>3. CASE ~ HasItem(b)
      BY <3>1, <3>3 DEF WorkersInv, HasItem
    <3> QED
      BY <3>2, <3>3
  <2> QED
    BY <2>1, <2>2
<1> QED
  BY <1>1, <1>2 DEF WorkersInv

(* The threads of a step that none of them makes. *)
LEMMA WorkersKept ==
  ASSUME NumbersInv, WorkersInv, [Next]_vars, worker' = worker
  PROVE  WorkersInv'
<1>1. ASSUME NEW b \in App, HasItem(b)
      PROVE  AtHome(worker[b].item, <<b[1], worker[b].cache>>)'
  <2>1. PICK x \in Item, c \in Cell :
          x = worker[b].item /\ c = <<b[1], worker[b].cache>> /\ AtHome(x, c)
    BY <1>1, AppIsPair, CellIsPair DEF WorkersInv
  <2>2. AtHome(x, c)'
    BY <2>1, HomesKept
  <2> QED
    BY <2>1, <2>2 DEF AtHome
<1> QED
  BY <1>1 DEF WorkersInv, HasItem

LEMMA IdleIsState ==
  /\ Idle \in WorkerState
  /\ \A x \in Item, k \in CacheIndex : \A pc \in {"created", "checked", "removed"} :
       [pc |-> pc, item |-> x, cache |-> k] \in WorkerState
  /\ \A k \in CacheIndex : [pc |-> "published", item |-> NoItem, cache |-> k] \in WorkerState
  /\ [pc |-> "listening", item |-> NoItem, cache |-> 0] \in WorkerState
BY DEF Idle, WorkerState, NoItem

LEMMA WorkersStep ==
  ASSUME NumbersInv, SetsInv, WorkersInv, [Next]_vars
  PROVE  WorkersInv'
<1>1. CASE worker' = worker
  BY <1>1, WorkersKept
<1>2. ASSUME NEW a \in Editor, NEW x \in Item, NEW k \in CacheIndex, Create(a, x, k)
      PROVE  WorkersInv'
  <2>1. PICK s \in WorkerState : s = [pc |-> "created", item |-> x, cache |-> k]
    BY IdleIsState
  <2>2. worker' = [worker EXCEPT ![a] = s]
    BY <1>2, <2>1 DEF Create, Goto
  <2>3. AtHome(x, <<a[1], k>>)'
    BY <1>2 DEF Create, AtHome, NumbersInv
  <2> QED
    BY <2>1, <2>2, <2>3, WorkersFrom, RolesAreApps
<1>3. ASSUME NEW a \in Editor, NEW x \in Item, UpdateCheck(a, x) \/ DeleteItem(a, x)
      PROVE  WorkersInv'
  <2>1. /\ x[1] = a[1] /\ IsShared(x)
        /\ home' = home
        /\ Goto(a, "checked", x, home[x]) \/ Goto(a, "removed", x, home[x])
    BY <1>3 DEF UpdateCheck, DeleteItem, items
  <2>2. PICK pc \in {"checked", "removed"} : Goto(a, pc, x, home[x])
    BY <2>1
  <2>3. home[x] \in CacheIndex
    BY <2>1, SharedAtHome
  <2>4. PICK s \in WorkerState : s = [pc |-> pc, item |-> x, cache |-> home[x]]
    BY <2>3, IdleIsState
  <2>5. worker' = [worker EXCEPT ![a] = s]
    BY <2>2, <2>4 DEF Goto
  <2>6. AtHome(x, <<a[1], home[x]>>)'
    BY <2>1 DEF AtHome
  <2>7. AtHome(s.item, <<a[1], s.cache>>)'
    BY <2>1, <2>4 DEF AtHome
  <2> QED
    BY <2>3, <2>4, <2>5, <2>7, WorkersFrom, RolesAreApps
<1>4. ASSUME NEW a \in App, Goto(a, "idle", NoItem, 0) \/ Goto(a, "listening", NoItem, 0)
      PROVE  WorkersInv'
  <2>1. PICK s \in WorkerState : /\ worker' = [worker EXCEPT ![a] = s]
                                 /\ s.pc \in {"idle", "listening"}
    BY <1>4, IdleIsState DEF Goto, Idle
  <2> QED
    BY <2>1, WorkersFrom
<1>5. ASSUME NEW a \in App, NEW k \in CacheIndex, Goto(a, "published", NoItem, k)
      PROVE  WorkersInv'
  <2>1. PICK s \in WorkerState : /\ worker' = [worker EXCEPT ![a] = s]
                                 /\ s = [pc |-> "published", item |-> NoItem, cache |-> k]
    BY <1>5, IdleIsState DEF Goto
  <2> QED
    BY <2>1, WorkersFrom
<1>6. CASE \E a \in Editor : MarkUpdated(a) \/ MarkDeleted(a)
  BY <1>4, <1>6, RolesAreApps DEF MarkUpdated, MarkDeleted
<1>7. CASE \E a \in Networker : PublishDeleted(a) \/ PublishDeletedFails(a)
  BY <1>4, <1>7, RolesAreApps DEF PublishDeleted, PublishDeletedFails
<1>8. CASE \E a \in Networker, k \in CacheIndex : PublishUpdated(a, k)
  BY <1>5, <1>8, RolesAreApps DEF PublishUpdated
<1>9. CASE \E a \in Manager : SetAlive(a) \/ \E x \in Participant : Listen(a, x)
  BY <1>4, <1>9, RolesAreApps DEF SetAlive, Listen
<1> QED
  BY <1>1, <1>2, <1>3, <1>6, <1>7, <1>8, <1>9
  DEF Next, vars, PublishUpdatedFails, Refresh, CreateCache, Leave, DeleteBegin, Receive,
      ReceiveUpdate, ReceiveDelete, JoinReceiver, DeleteEnd

-----------------------------------------------------------------------------
(* An order of a finite set has all of its elements and no others. *)
LEMMA OrdersAreComplete ==
  ASSUME NEW S, IsFiniteSet(S), NEW xs \in SetToSeqs(S)
  PROVE  /\ xs \in Seq(S)
         /\ \A x \in S : \E i \in DOMAIN xs : xs[i] = x
<1>1. /\ xs \in [1 .. Cardinality(S) -> S]
      /\ \A i, j \in 1 .. Cardinality(S) : i # j => xs[i] # xs[j]
  BY DEF SetToSeqs
<1>2. Cardinality(S) \in Nat
  BY FS_CardinalityType
<1>3. xs \in Seq(S)
  BY <1>1, <1>2
<1> QED
  BY <1>1, <1>3, EnumerationsAreComplete

(* A set that is sent, in whatever order, is announced.                    *)
LEMMA PushAnnounces ==
  ASSUME NumbersInv, BuffersInv, NEW p, NEW kind \in {"update", "delete"},
         NEW S, S \subseteq Item, IsFiniteSet(S), \A x \in S : IsShared(x),
         NEW xs \in SetToSeqs(S), Push(p, kind, xs)
  PROVE  /\ net' \in [Receiver -> Seq(Frame)]
         /\ announced' \subseteq Frame
         /\ announced \subseteq announced'
         /\ \A x \in S : [kind |-> kind, guid |-> Id(x)] \in announced'
<1> DEFINE frames == Frames(kind, xs)
<1>1. /\ xs \in Seq(S)
      /\ \A x \in S : \E i \in DOMAIN xs : xs[i] = x
  BY OrdersAreComplete
<1>2. ASSUME NEW x \in S
      PROVE  [kind |-> kind, guid |-> Id(x)] \in Frame
  BY SharedAtHome DEF Frame
<1>3. /\ DOMAIN frames = DOMAIN xs
      /\ \A i \in DOMAIN xs : frames[i] = [kind |-> kind, guid |-> Id(xs[i])]
  BY DEF Frames
<1>4. DOMAIN xs = 1 .. Len(xs) /\ Len(xs) \in Nat /\ \A i \in DOMAIN xs : xs[i] \in S
  BY <1>1
<1>5. \A i \in DOMAIN xs : frames[i] \in Frame
  BY <1>2, <1>3, <1>4
<1>6. frames = [i \in DOMAIN xs |-> frames[i]]
  BY <1>3 DEF Frames
<1> HIDE DEF frames
<1>7. frames \in Seq(Frame)
  <2>1. frames \in [1 .. Len(xs) -> Frame]
    BY <1>4, <1>5, <1>6
  <2> QED
    BY <1>4, <2>1
<1>8. /\ net' = Multicast(p, frames)
      /\ announced' = announced \cup {frames[i] : i \in DOMAIN xs}
  BY DEF Push, frames
<1>9. ASSUME NEW w \in Receiver
      PROVE  Multicast(p, frames)[w] \in Seq(Frame)
  <2> DEFINE all == net[w] \o frames
             n == IF Len(all) < MaxInFlight THEN Len(all) ELSE MaxInFlight
  <2>1. net[w] \in Seq(Frame)
    BY DEF BuffersInv
  <2>2. all \in Seq(Frame)
    BY <1>7, <2>1
  <2>3. n \in Nat /\ n <= Len(all)
    BY <2>2, CNodeAssumption
  <2>4. Multicast(p, frames)[w] \in {SubSeq(all, 1, n), net[w]}
    BY DEF Multicast
  <2> HIDE DEF all, n
  <2>5. SubSeq(all, 1, n) \in Seq(Frame)
    BY <2>2, <2>3
  <2> QED
    BY <2>1, <2>4, <2>5
<1>10. net' \in [Receiver -> Seq(Frame)]
  BY <1>8, <1>9 DEF Multicast
<1>11. announced' \subseteq Frame
  BY <1>5, <1>8 DEF BuffersInv
<1>12. ASSUME NEW x \in S
       PROVE  [kind |-> kind, guid |-> Id(x)] \in announced'
  <2>1. PICK i \in DOMAIN xs : xs[i] = x
    BY <1>1
  <2> QED
    BY <1>3, <1>8, <2>1
<1> QED
  BY <1>8, <1>10, <1>11, <1>12

(* What is in a set of a cache can be sent.                                *)
LEMMA SetsAreShared ==
  ASSUME NumbersInv, SetsInv, NEW c \in Cell
  PROVE  /\ IsFiniteSet(updated[c]) /\ updated[c] \subseteq Item
         /\ IsFiniteSet(deleted[c]) /\ deleted[c] \subseteq Item
         /\ \A x \in local[c] \cup updated[c] \cup deleted[c] :
              /\ x \in Item
              /\ IsShared(x)
              /\ c = <<x[1], home[x]>>
BY HomeIsShared DEF SetsInv, Fits

(* The two sets of a publish(), and a part of them when it fails.          *)
LEMMA UpdatesAnnounced ==
  ASSUME NumbersInv, SetsInv, BuffersInv, NEW p, NEW c \in Cell, NEW sent \in SUBSET updated[c],
         \E xs \in SetToSeqs(sent) : Push(p, "update", xs)
  PROVE  /\ net' \in [Receiver -> Seq(Frame)]
         /\ announced' \subseteq Frame
         /\ announced \subseteq announced'
         /\ \A x \in sent : [kind |-> "update", guid |-> Id(x)] \in announced'
<1>1. sent \subseteq Item /\ IsFiniteSet(sent) /\ \A x \in sent : IsShared(x)
  BY SetsAreShared, FS_Subset
<1> QED
  BY <1>1, PushAnnounces

LEMMA DeletesAnnounced ==
  ASSUME NumbersInv, SetsInv, BuffersInv, NEW p, NEW c \in Cell, NEW sent \in SUBSET deleted[c],
         \E xs \in SetToSeqs(sent) : Push(p, "delete", xs)
  PROVE  /\ net' \in [Receiver -> Seq(Frame)]
         /\ announced' \subseteq Frame
         /\ announced \subseteq announced'
         /\ \A x \in sent : [kind |-> "delete", guid |-> Id(x)] \in announced'
<1>1. sent \subseteq Item /\ IsFiniteSet(sent) /\ \A x \in sent : IsShared(x)
  BY SetsAreShared, FS_Subset
<1> QED
  BY <1>1, PushAnnounces

LEMMA PublishUpdatedSends ==
  ASSUME NumbersInv, SetsInv, BuffersInv, NEW a \in Networker, NEW k \in CacheIndex,
         PublishUpdated(a, k), NEW c, c = <<a[1], k>>
  PROVE  /\ c \in Cell
         /\ net' \in [Receiver -> Seq(Frame)]
         /\ announced' \subseteq Frame
         /\ announced \subseteq announced'
         /\ \A x \in updated[c] : [kind |-> "update", guid |-> Id(x)] \in announced'
<1>1. c \in Cell
  BY RolesAreApps, AppIsPair, CellIsPair
<1>2. \E xs \in SetToSeqs(updated[c]) : Push(a[1], "update", xs)
  BY DEF PublishUpdated
<1> QED
  BY <1>1, <1>2, UpdatesAnnounced

(* What a publish() that fails did not send is noted as lost. *)
LEMMA PublishUpdatedFailsSends ==
  ASSUME NumbersInv, SetsInv, BuffersInv, NEW a \in Networker, NEW k \in CacheIndex,
         PublishUpdatedFails(a, k), NEW c, c = <<a[1], k>>
  PROVE  /\ c \in Cell
         /\ net' \in [Receiver -> Seq(Frame)]
         /\ announced' \subseteq Frame
         /\ announced \subseteq announced'
         /\ lost \subseteq lost'
         /\ lost' \subseteq lost \cup updated[c]
         /\ \A x \in updated[c] : \/ [kind |-> "update", guid |-> Id(x)] \in announced'
                                  \/ x \in lost'
<1>1. c \in Cell
  BY RolesAreApps, AppIsPair, CellIsPair
<1>2. PICK sent \in SUBSET updated[c] :
        /\ \E xs \in SetToSeqs(sent) : Push(a[1], "update", xs)
        /\ lost' = lost \cup (updated[c] \ sent)
  BY DEF PublishUpdatedFails
<1> QED
  BY <1>1, <1>2, UpdatesAnnounced

LEMMA PublishDeletedSends ==
  ASSUME NumbersInv, SetsInv, WorkersInv, BuffersInv, NEW a \in Networker,
         PublishDeleted(a), NEW c, c = <<a[1], worker[a].cache>>
  PROVE  /\ c \in Cell
         /\ net' \in [Receiver -> Seq(Frame)]
         /\ announced' \subseteq Frame
         /\ announced \subseteq announced'
         /\ \A x \in deleted[c] : [kind |-> "delete", guid |-> Id(x)] \in announced'
<1>1. c \in Cell
  BY RolesAreApps, AppIsPair, CellIsPair DEF PublishDeleted, At, WorkersInv
<1>2. \E xs \in SetToSeqs(deleted[c]) : Push(a[1], "delete", xs)
  BY DEF PublishDeleted
<1> QED
  BY <1>1, <1>2, DeletesAnnounced

LEMMA PublishDeletedFailsSends ==
  ASSUME NumbersInv, SetsInv, WorkersInv, BuffersInv, NEW a \in Networker,
         PublishDeletedFails(a)
  PROVE  /\ net' \in [Receiver -> Seq(Frame)]
         /\ announced' \subseteq Frame
         /\ announced \subseteq announced'
<1>1. PICK c \in Cell : c = <<a[1], worker[a].cache>>
  BY RolesAreApps, AppIsPair, CellIsPair DEF PublishDeletedFails, At, WorkersInv
<1>2. PICK sent \in SUBSET deleted[c] : \E xs \in SetToSeqs(sent) : Push(a[1], "delete", xs)
  BY <1>1 DEF PublishDeletedFails
<1> QED
  BY <1>1, <1>2, DeletesAnnounced

-----------------------------------------------------------------------------
(* A frame is taken from a socket. *)
LEMMA FrameTaken ==
  ASSUME BuffersInv, NEW w \in Receiver, net[w] # <<>>, net' = [net EXCEPT ![w] = Tail(@)]
  PROVE  Head(net[w]).guid \in GUID /\ net' \in [Receiver -> Seq(Frame)]
<1>1. net[w] \in Seq(Frame)
  BY DEF BuffersInv
<1>2. Head(net[w]) \in Frame /\ Tail(net[w]) \in Seq(Frame)
  BY <1>1, TailIndex
<1> QED
  BY <1>2 DEF BuffersInv, Frame

LEMMA BuffersReceiveUpdate ==
  ASSUME BuffersInv, NEW w \in Receiver, ReceiveUpdate(w)
  PROVE  BuffersInv'
<1>1. PICK g \in GUID : g = Head(net[w]).guid
  BY FrameTaken DEF ReceiveUpdate
<1>2. net' \in [Receiver -> Seq(Frame)]
  BY FrameTaken DEF ReceiveUpdate
<1>3. PICK k : toUpdate' = [c \in Cell |->
                 IF /\ c[1] = w[1]
                    /\ c[2] \in FiledUpTo(w[1], k)
                    /\ Len(toUpdate[c]) < SetLimit
                 THEN Append(toUpdate[c], g)
                 ELSE toUpdate[c]]
  BY <1>1 DEF ReceiveUpdate
<1>4. ASSUME NEW c \in Cell
      PROVE  toUpdate'[c] \in Seq(GUID) /\ Len(toUpdate'[c]) <= SetLimit
  <2>1. toUpdate[c] \in Seq(GUID) /\ Len(toUpdate[c]) <= SetLimit
    BY DEF BuffersInv
  <2>2. /\ Append(toUpdate[c], g) \in Seq(GUID)
        /\ Len(Append(toUpdate[c], g)) = Len(toUpdate[c]) + 1
        /\ Len(toUpdate[c]) \in Nat
    BY <2>1
  <2>3. \/ toUpdate'[c] = toUpdate[c]
        \/ Len(toUpdate[c]) < SetLimit /\ toUpdate'[c] = Append(toUpdate[c], g)
    BY <1>3
  <2> QED
    BY <2>1, <2>2, <2>3, CNodeAssumption, SMTT(30)
<1>5. toUpdate' \in [Cell -> Seq(GUID)]
  BY <1>3, <1>4
<1>6. UNCHANGED <<toDelete, announced, refreshed>>
  BY DEF ReceiveUpdate, history
<1> QED
  BY <1>2, <1>4, <1>5, <1>6 DEF BuffersInv, Fits

LEMMA BuffersReceiveDelete ==
  ASSUME BuffersInv, NEW w \in Receiver, ReceiveDelete(w)
  PROVE  BuffersInv'
<1>1. PICK g \in GUID : g = Head(net[w]).guid
  BY FrameTaken DEF ReceiveDelete
<1>2. net' \in [Receiver -> Seq(Frame)]
  BY FrameTaken DEF ReceiveDelete
<1>3. toDelete' = [c \in Cell |->
        IF c[1] = w[1] /\ IsCache(w[1], c[2]) THEN Added(toDelete[c], g) ELSE toDelete[c]]
  BY <1>1 DEF ReceiveDelete
<1>4. ASSUME NEW c \in Cell
      PROVE  toDelete'[c] \subseteq GUID /\ Fits(toDelete'[c])
  <2>1. toDelete[c] \subseteq GUID /\ Fits(toDelete[c])
    BY DEF BuffersInv
  <2>2. Fits(Added(toDelete[c], g)) /\ Added(toDelete[c], g) \subseteq GUID
    BY <2>1, AddedFits
  <2> QED
    BY <1>3, <2>1, <2>2
<1>5. toDelete' \in [Cell -> SUBSET GUID]
  BY <1>3, <1>4
<1>6. UNCHANGED <<toUpdate, announced, refreshed>>
  BY DEF ReceiveDelete, history
<1> QED
  BY <1>2, <1>4, <1>5, <1>6 DEF BuffersInv, Fits

LEMMA BuffersRefresh ==
  ASSUME BuffersInv, NEW a \in Manager, NEW k \in CacheIndex, Refresh(a, k)
  PROVE  BuffersInv'
<1>1. PICK c \in Cell : c = <<a[1], k>>
  BY RolesAreApps, AppIsPair, CellIsPair
<1>2. a[1] \in Participant
  BY RolesAreApps, AppIsPair
<1>3. refreshed' = [refreshed EXCEPT ![a[1]] =
                      @ \cup {toUpdate[c][i] : i \in DOMAIN toUpdate[c]}]
  BY <1>1 DEF Refresh
<1>4. {toUpdate[c][i] : i \in DOMAIN toUpdate[c]} \subseteq GUID
  BY DEF BuffersInv
<1>5. refreshed' \in [Participant -> SUBSET GUID]
  BY <1>2, <1>3, <1>4 DEF BuffersInv
<1>6. UNCHANGED <<toUpdate, toDelete, net, announced>>
  BY DEF Refresh, history
<1> QED
  BY <1>5, <1>6 DEF BuffersInv, Fits

(* A step that only sends. *)
LEMMA BuffersSend ==
  ASSUME BuffersInv, net' \in [Receiver -> Seq(Frame)], announced' \subseteq Frame,
         UNCHANGED <<toUpdate, toDelete, refreshed>>
  PROVE  BuffersInv'
BY DEF BuffersInv, Fits

LEMMA BuffersStep ==
  ASSUME NumbersInv, SetsInv, WorkersInv, BuffersInv, [Next]_vars
  PROVE  BuffersInv'
<1>1. CASE UNCHANGED <<toUpdate, toDelete, net, announced, refreshed>>
  BY <1>1 DEF BuffersInv, Fits
<1>2. CASE \E a \in Networker, k \in CacheIndex : PublishUpdated(a, k)
  BY <1>2, PublishUpdatedSends, BuffersSend DEF PublishUpdated, received
<1>3. CASE \E a \in Networker, k \in CacheIndex : PublishUpdatedFails(a, k)
  BY <1>3, PublishUpdatedFailsSends, BuffersSend DEF PublishUpdatedFails, received
<1>4. CASE \E a \in Networker : PublishDeleted(a)
  BY <1>4, PublishDeletedSends, BuffersSend DEF PublishDeleted, received
<1>5. CASE \E a \in Networker : PublishDeletedFails(a)
  BY <1>5, PublishDeletedFailsSends, BuffersSend DEF PublishDeletedFails, received
<1>6. CASE \E w \in Receiver : Receive(w)
  BY <1>6, BuffersReceiveUpdate, BuffersReceiveDelete DEF Receive
<1>7. CASE \E w \in Receiver : JoinReceiver(w)
  BY <1>7, BuffersSend DEF JoinReceiver, BuffersInv, received, history
<1>8. CASE \E a \in Manager, k \in CacheIndex : Refresh(a, k)
  BY <1>8, BuffersRefresh
<1> QED
  BY <1>1, <1>2, <1>3, <1>4, <1>5, <1>6, <1>7, <1>8
  DEF Next, vars, Create, UpdateCheck, DeleteItem, MarkUpdated, MarkDeleted, CreateCache,
      Listen, SetAlive, Leave, DeleteBegin, DeleteEnd, received, history

(* The walk through the array stays within it. *)
LEMMA WalkedCaches ==
  ASSUME ProcessInv, NEW p \in Participant
  PROVE  /\ Len(caches[p]) \in Nat
         /\ DOMAIN caches[p] = 1 .. Len(caches[p])
         /\ DOMAIN caches[p] \subseteq CacheIndex
         /\ BeforeHole(p) \subseteq CacheIndex
         /\ Cardinality(BeforeHole(p)) \in Nat
<1>1. caches[p] \in Seq({"cache", "hole"}) /\ Len(caches[p]) \in CacheIndex
  BY DEF ProcessInv
<1>2. DOMAIN caches[p] = 1 .. Len(caches[p]) /\ Len(caches[p]) \in Nat
  BY <1>1
<1>3. DOMAIN caches[p] \subseteq CacheIndex /\ BeforeHole(p) \subseteq CacheIndex
  BY <1>1, <1>2, CNodeAssumption DEF BeforeHole, CacheIndex
<1>4. IsFiniteSet(CacheIndex)
  BY FS_Interval, CNodeAssumption DEF CacheIndex
<1>5. IsFiniteSet(BeforeHole(p))
  BY <1>3, <1>4, FS_Subset
<1> QED
  BY <1>2, <1>3, <1>5, FS_CardinalityType

(* The array of caches has a default cache, and grows up to its bound. *)
LEMMA CacheAdded ==
  ASSUME ProcessInv, NEW a \in Manager, CreateCache(a)
  PROVE  /\ caches' \in [Participant -> Seq({"cache", "hole"})]
         /\ \A p \in Participant : Len(caches'[p]) \in CacheIndex
         /\ \A p \in Participant :
              \/ caches'[p] = caches[p]
              \/ /\ Len(caches'[p]) = Len(caches[p]) + 1
                 /\ \A i \in 1 .. Len(caches[p]) : caches'[p][i] = caches[p][i]
<1>1. PICK p \in Participant : p = a[1]
  BY RolesAreApps, AppIsPair
<1>2. PICK cell \in {"cache", "hole"} : caches' = [caches EXCEPT ![p] = Append(caches[p], cell)]
  BY <1>1 DEF CreateCache
<1>3. caches[p] \in Seq({"cache", "hole"}) /\ Len(caches[p]) \in CacheIndex
  BY DEF ProcessInv
<1>4. /\ Append(caches[p], cell) \in Seq({"cache", "hole"})
      /\ Len(Append(caches[p], cell)) = Len(caches[p]) + 1
      /\ \A i \in 1 .. Len(caches[p]) : Append(caches[p], cell)[i] = caches[p][i]
  BY <1>3, AppendIndex
<1>5. Len(caches[p]) + 1 \in CacheIndex
  BY <1>1, <1>3, CNodeAssumption DEF CreateCache, CacheIndex
<1>6. caches \in [Participant -> Seq({"cache", "hole"})]
  BY DEF ProcessInv
<1>7. /\ caches' \in [Participant -> Seq({"cache", "hole"})]
      /\ caches'[p] = Append(caches[p], cell)
      /\ \A q \in Participant \ {p} : caches'[q] = caches[q]
  BY <1>2, <1>4, <1>6
<1>8. \A q \in Participant : Len(caches[q]) \in CacheIndex
  BY DEF ProcessInv
<1> QED
  BY <1>4, <1>5, <1>7, <1>8

LEMMA ProcessStep ==
  ASSUME ProcessInv, [Next]_vars
  PROVE  ProcessInv'
<1>1. CASE UNCHANGED <<life, alive, receiver, caches>>
  BY <1>1 DEF ProcessInv
<1>2. CASE \E a \in Manager : CreateCache(a)
  BY <1>2, CacheAdded DEF CreateCache, ProcessInv
<1>3. CASE \E a \in Manager, x \in Participant : Listen(a, x)
  BY <1>3 DEF Listen, ProcessInv
<1>4. CASE \E a \in Manager : SetAlive(a)
  BY <1>4 DEF SetAlive, ProcessInv
<1>5. CASE \E a \in Manager : Leave(a)
  BY <1>5 DEF Leave, ProcessInv
<1>6. CASE \E a \in Manager : DeleteBegin(a)
  BY <1>6 DEF DeleteBegin, ProcessInv
<1>7. CASE \E w \in Receiver : Receive(w)
  BY <1>7 DEF Receive, ReceiveUpdate, ReceiveDelete, AfterFrame, ProcessInv
<1>8. CASE \E w \in Receiver : JoinReceiver(w)
  BY <1>8 DEF JoinReceiver, ProcessInv
<1>9. CASE \E p \in Participant : DeleteEnd(p)
  BY <1>9 DEF DeleteEnd, ProcessInv
<1> QED
  BY <1>1, <1>2, <1>3, <1>4, <1>5, <1>6, <1>7, <1>8, <1>9
  DEF Next, vars, Create, UpdateCheck, DeleteItem, MarkUpdated, MarkDeleted, PublishUpdated,
      PublishUpdatedFails, PublishDeleted, PublishDeletedFails, Refresh, process

(* What is freed or lost was in a set, or in the hands of a thread. *)
LEMMA DroppedStep ==
  ASSUME NumbersInv, SetsInv, WorkersInv, BuffersInv, ProcessInv, DroppedInv, [Next]_vars
  PROVE  DroppedInv'
<1>1. CASE UNCHANGED <<freed, lost>>
  BY <1>1 DEF DroppedInv
<1>2. ASSUME NEW a \in Editor, MarkUpdated(a) \/ MarkDeleted(a)
      PROVE  DroppedInv'
  <2>1. worker[a].item \in Item
    BY <1>2, RolesAreApps DEF MarkUpdated, MarkDeleted, At, WorkersInv, HasItem
  <2>2. lost' \subseteq lost \cup {worker[a].item} /\ freed' = freed
    BY <1>2 DEF MarkUpdated, MarkDeleted
  <2> QED
    BY <2>1, <2>2 DEF DroppedInv
<1>3. ASSUME NEW a \in Networker, NEW k \in CacheIndex, PublishUpdatedFails(a, k)
      PROVE  DroppedInv'
  <2>1. PICK c : c = <<a[1], k>>
    OBVIOUS
  <2>2. c \in Cell /\ lost' \subseteq lost \cup updated[c]
    BY <1>3, <2>1, PublishUpdatedFailsSends
  <2>3. updated[c] \subseteq Item /\ freed' = freed
    BY <1>3, <2>2 DEF SetsInv, PublishUpdatedFails
  <2> QED
    BY <2>2, <2>3 DEF DroppedInv
<1>4. ASSUME NEW a \in Networker, PublishDeleted(a)
      PROVE  DroppedInv'
  <2>1. PICK c \in Cell : c = <<a[1], worker[a].cache>>
    BY <1>4, PublishDeletedSends
  <2>2. freed' = freed \cup deleted[c] /\ lost' = lost
    BY <1>4, <2>1 DEF PublishDeleted
  <2> QED
    BY <2>1, <2>2 DEF DroppedInv, SetsInv
<1>5. ASSUME NEW a \in Networker, PublishDeletedFails(a)
      PROVE  DroppedInv'
  BY <1>1, <1>5 DEF PublishDeletedFails, FreedLater
<1>6. ASSUME NEW p \in Participant, DeleteEnd(p)
      PROVE  DroppedInv'
  <2>1. \A k \in BeforeHole(p) : local[<<p, k>>] \subseteq Item
    BY WalkedCaches, CellIsPair DEF SetsInv
  <2>2. freed' = freed \cup UNION {local[<<p, k>>] : k \in BeforeHole(p)} /\ lost' = lost
    BY <1>6 DEF DeleteEnd, history
  <2> QED
    BY <2>1, <2>2 DEF DroppedInv
<1> QED
  BY <1>1, <1>2, <1>3, <1>4, <1>5, <1>6
  DEF Next, vars, Create, UpdateCheck, DeleteItem, PublishUpdated, Refresh, CreateCache,
      Listen, SetAlive, Leave, DeleteBegin, Receive, ReceiveUpdate, ReceiveDelete,
      JoinReceiver, items, history

(* The default caches are there, and nothing else. *)
LEMMA TypeInit == Init => TypeInv
<1> SUFFICES ASSUME Init
             PROVE  TypeInv
  OBVIOUS
<1>1. NumbersInv
  <2>1. \A c \in Cell : Created(c) = {}
    BY CNodeAssumption DEF Init, Created, Cell, CacheIndex
  <2>2. \A c \in Cell : IsFiniteSet(Created(c)) /\ nextInstance[c] = Cardinality(Created(c)) + 1
    <3>1. IsFiniteSet({}) /\ Cardinality({}) = 0
      BY FS_EmptySet
    <3>2. \A c \in Cell : nextInstance[c] = 1
      BY DEF Init
    <3> QED
      BY <2>1, <3>1, <3>2
  <2> QED
    BY <2>2, CNodeAssumption DEF Init, NumbersInv, IsShared
<1>2. SetsInv
  BY EmptyFits DEF Init, SetsInv
<1>3. WorkersInv
  BY IdleIsState DEF Init, WorkersInv, HasItem, Idle
<1>4. BuffersInv
  BY EmptyFits, CNodeAssumption DEF Init, BuffersInv
<1>5. ProcessInv
  BY CNodeAssumption DEF Init, ProcessInv, CacheIndex
<1>6. DroppedInv
  BY DEF Init, DroppedInv
<1> QED
  BY <1>1, <1>2, <1>3, <1>4, <1>5, <1>6 DEF TypeInv

LEMMA TypeStep == TypeInv /\ [Next]_vars => TypeInv'
BY NumbersStep, SetsStep, WorkersStep, BuffersStep, ProcessStep, DroppedStep DEF TypeInv

LEMMA TypesKept == Spec => []TypeInv
BY TypeInit, TypeStep, PTL DEF Spec

(* A cache that has numbered all the items of its participant is at the    *)
(* end of its numbers.                                                     *)
LEMMA NumbersEnd ==
  ASSUME NumbersInv, NEW c \in Cell
  PROVE  nextInstance[c] \in 1 .. ItemCount + 1
<1>1. Created(c) \subseteq {x \in Item : x[1] = c[1]} /\ c[1] \in Participant
  BY DEF Created, Cell
<1>2. IsFiniteSet(Created(c)) /\ Cardinality(Created(c)) <= ItemCount
  BY <1>1, ItemsOfOne
<1>3. Cardinality(Created(c)) \in Nat
  BY <1>2, FS_CardinalityType
<1> QED
  BY <1>2, <1>3, CNodeAssumption DEF NumbersInv

(***************************************************************************)
(* Every variable keeps its type.  In particular no number is given that   *)
(* has no item, no set outgrows collSet_ITEM_MAX_COUNT, and nothing is     *)
(* written beyond the array of caches.                                     *)
(***************************************************************************)
THEOREM CNodeTyped == Spec => []CNodeTypeOK
<1>1. TypeInv => CNodeTypeOK
  <2> SUFFICES ASSUME TypeInv
               PROVE  CNodeTypeOK
    OBVIOUS
  <2>1. nextInstance \in [Cell -> 1 .. ItemCount + 1]
    BY NumbersEnd DEF TypeInv, NumbersInv
  <2>2. ASSUME NEW c \in Cell
        PROVE  \A s \in {local[c], updated[c], deleted[c], toDelete[c]} : Cardinality(s) <= SetLimit
    BY DEF TypeInv, SetsInv, BuffersInv, Fits
  <2> QED
    BY <2>1, <2>2
    DEF TypeInv, NumbersInv, SetsInv, WorkersInv, BuffersInv, ProcessInv, DroppedInv, CNodeTypeOK
<1> QED
  BY <1>1, TypesKept, PTL

-----------------------------------------------------------------------------
(***************************************************************************)
(* The receivers of a participant that is not up any more only end, and    *)
(* its deletion goes on when the last of them has been joined.             *)
(***************************************************************************)
THEOREM ReceiversAreJoined == Spec => []JoinedBeforeDeleted
<1>1. Init => JoinedBeforeDeleted
  BY DEF Init, JoinedBeforeDeleted, Receiver
<1>2. TypeInv /\ JoinedBeforeDeleted /\ [Next]_vars => JoinedBeforeDeleted'
  <2> SUFFICES ASSUME TypeInv, JoinedBeforeDeleted, [Next]_vars
               PROVE  JoinedBeforeDeleted'
    OBVIOUS
  <2> USE DEF JoinedBeforeDeleted
  <2>1. /\ life \in [Participant -> {"up", "deleting", "deleted", "half deleted"}]
        /\ receiver \in [Receiver -> {"none", "running", "ended", "joined"}]
    BY DEF TypeInv, ProcessInv
  <2>2. CASE UNCHANGED <<life, receiver>>
    BY <2>2
  <2>3. CASE \E a \in Manager, x \in Participant : Listen(a, x)
    <3>1. PICK a \in Manager, x \in Participant : Listen(a, x)
      BY <2>3
    <3>2. PICK v \in Receiver : v = <<a[1], x>>
      BY <3>1 DEF Listen
    <3>3. /\ life[v[1]] = "up"
          /\ life' = life
          /\ receiver' = [receiver EXCEPT ![v] = "running"]
      BY <3>1, <3>2 DEF Listen, At
    <3> QED
      BY <2>1, <3>3 DEF Receiver
  <2>4. CASE \E a \in Manager : DeleteBegin(a)
    BY <2>1, <2>4 DEF DeleteBegin, At, Receiver
  <2>5. CASE \E w \in Receiver : Receive(w)
    BY <2>1, <2>5 DEF Receive, ReceiveUpdate, ReceiveDelete, AfterFrame, Receiver
  <2>6. CASE \E w \in Receiver : JoinReceiver(w)
    BY <2>1, <2>6 DEF JoinReceiver, Receiver
  <2>7. CASE \E p \in Participant : DeleteEnd(p)
    BY <2>1, <2>7 DEF DeleteEnd, AllJoined, Receiver
  <2> QED
    BY <2>2, <2>3, <2>4, <2>5, <2>6, <2>7
    DEF Next, vars, Create, UpdateCheck, DeleteItem, MarkUpdated, MarkDeleted, PublishUpdated,
        PublishUpdatedFails, PublishDeleted, PublishDeletedFails, Refresh, CreateCache,
        SetAlive, Leave, process
<1> QED
  BY <1>1, <1>2, TypesKept, PTL DEF Spec

-----------------------------------------------------------------------------
(* What a step never takes back: an identity, an announcement, a loss, and *)
(* the end of a participant.                                               *)
LEMMA SharedKept ==
  ASSUME NumbersInv, [Next]_vars, NEW x \in Item, IsShared(x)
  PROVE  IsShared(x)' /\ Id(x)' = Id(x) /\ home'[x] = home[x]
<1>1. PICK c \in Cell : c = <<x[1], home[x]>> /\ AtHome(x, c)
  BY SharedAtHome DEF AtHome
<1>2. number'[x] = number[x] /\ home'[x] = home[x]
  BY <1>1, HomesKept
<1> QED
  BY <1>2 DEF IsShared, Id

LEMMA HistoryGrows ==
  ASSUME TypeInv, [Next]_vars
  PROVE  announced \subseteq announced' /\ lost \subseteq lost'
<1>1. CASE UNCHANGED <<announced, lost>>
  BY <1>1
<1>2. CASE \E a \in Editor : MarkUpdated(a) \/ MarkDeleted(a)
  BY <1>2 DEF MarkUpdated, MarkDeleted
<1>3. CASE \E a \in Networker, k \in CacheIndex : PublishUpdated(a, k)
  BY <1>3, PublishUpdatedSends DEF TypeInv, PublishUpdated
<1>4. CASE \E a \in Networker, k \in CacheIndex : PublishUpdatedFails(a, k)
  BY <1>4, PublishUpdatedFailsSends DEF TypeInv
<1>5. CASE \E a \in Networker : PublishDeleted(a)
  BY <1>5, PublishDeletedSends DEF TypeInv, PublishDeleted
<1>6. CASE \E a \in Networker : PublishDeletedFails(a)
  BY <1>6, PublishDeletedFailsSends DEF TypeInv, PublishDeletedFails
<1> QED
  BY <1>1, <1>2, <1>3, <1>4, <1>5, <1>6
  DEF Next, vars, Create, UpdateCheck, DeleteItem, Refresh, CreateCache, Listen, SetAlive,
      Leave, DeleteBegin, Receive, ReceiveUpdate, ReceiveDelete, JoinReceiver, DeleteEnd,
      history

LEMMA NobodyComesBack ==
  ASSUME TypeInv, [Next]_vars, NEW p \in Participant, life[p] # "up"
  PROVE  life'[p] # "up"
<1>1. life \in [Participant -> {"up", "deleting", "deleted", "half deleted"}]
  BY DEF TypeInv, ProcessInv
<1>2. CASE life' = life
  BY <1>2
<1>3. CASE \E a \in Manager : DeleteBegin(a)
  BY <1>1, <1>3 DEF DeleteBegin
<1>4. CASE \E q \in Participant : DeleteEnd(q)
  BY <1>1, <1>4 DEF DeleteEnd
<1> QED
  BY <1>2, <1>3, <1>4
  DEF Next, vars, Create, UpdateCheck, DeleteItem, MarkUpdated, MarkDeleted, PublishUpdated,
      PublishUpdatedFails, PublishDeleted, PublishDeletedFails, Refresh, CreateCache, Listen,
      SetAlive, Leave, Receive, ReceiveUpdate, ReceiveDelete, JoinReceiver, process

LEMMA OnlyTheseFree ==
  ASSUME [Next]_vars
  PROVE  \/ freed' = freed
         \/ \E a \in Networker : PublishDeleted(a)
         \/ \E p \in Participant : DeleteEnd(p)
BY DEF Next, vars, Create, UpdateCheck, DeleteItem, MarkUpdated, MarkDeleted, PublishUpdated,
       PublishUpdatedFails, PublishDeletedFails, FreedLater, Refresh, CreateCache, Listen,
       SetAlive, Leave, DeleteBegin, Receive, ReceiveUpdate, ReceiveDelete, JoinReceiver, items

(* What a participant that is being deleted frees is its own. *)
LEMMA DeleteEndFrees ==
  ASSUME TypeInv, NEW p \in Participant, DeleteEnd(p), NEW x \in freed' \ freed
  PROVE  /\ x \in Item /\ IsShared(x) /\ x[1] = p
         /\ home[x] \in BeforeHole(p)
         /\ x \in local[<<p, home[x]>>]
<1>1. PICK k \in BeforeHole(p) : x \in local[<<p, k>>]
  BY DEF DeleteEnd
<1>2. PICK c \in Cell : c = <<p, k>>
  BY WalkedCaches, CellIsPair DEF TypeInv
<1>3. x \in Item /\ IsShared(x) /\ c = <<x[1], home[x]>>
  BY <1>1, <1>2, SetsAreShared DEF TypeInv
<1> QED
  BY <1>1, <1>2, <1>3

LEMMA FreedInit == Init => FreedInv
BY DEF Init, FreedInv, FreedIsAnnounced

LEMMA FreedStep == TypeInv /\ FreedInv /\ [Next]_vars => FreedInv'
<1> SUFFICES ASSUME TypeInv, FreedInv, [Next]_vars, NEW x \in freed'
             PROVE  /\ IsShared(x)'
                    /\ life'[x[1]] = "up" =>
                         [kind |-> "delete", guid |-> Id(x)'] \in announced'
  BY DEF FreedInv, FreedIsAnnounced
<1>1. NumbersInv /\ freed \subseteq Item
  BY DEF TypeInv, DroppedInv
<1>2. CASE x \in freed
  <2>1. x \in Item /\ IsShared(x) /\ x[1] \in Participant
    BY <1>1, <1>2 DEF FreedInv, Item
  <2>2. life'[x[1]] = "up" => [kind |-> "delete", guid |-> Id(x)] \in announced
    BY <1>2, <2>1, NobodyComesBack DEF FreedInv, FreedIsAnnounced
  <2> QED
    BY <1>1, <2>1, <2>2, SharedKept, HistoryGrows
<1>3. ASSUME NEW a \in Networker, PublishDeleted(a), x \notin freed
      PROVE  IsShared(x)' /\ [kind |-> "delete", guid |-> Id(x)'] \in announced'
  <2>1. PICK c : c = <<a[1], worker[a].cache>>
    OBVIOUS
  <2>2. x \in deleted[c]
    BY <1>3, <2>1 DEF PublishDeleted
  <2>3. c \in Cell /\ [kind |-> "delete", guid |-> Id(x)] \in announced'
    BY <1>3, <2>1, <2>2, PublishDeletedSends DEF TypeInv
  <2>4. x \in Item /\ IsShared(x)
    BY <2>2, <2>3, SetsAreShared DEF TypeInv
  <2> QED
    BY <1>1, <2>3, <2>4, SharedKept
<1>4. ASSUME NEW p \in Participant, DeleteEnd(p), x \notin freed
      PROVE  IsShared(x)' /\ life'[x[1]] # "up"
  <2>1. x \in Item /\ IsShared(x) /\ x[1] = p
    BY <1>4, DeleteEndFrees
  <2>2. life[p] # "up"
    BY <1>4 DEF DeleteEnd
  <2> QED
    BY <1>1, <2>1, <2>2, SharedKept, NobodyComesBack
<1> QED
  BY <1>2, <1>3, <1>4, OnlyTheseFree

(***************************************************************************)
(* Whichever sends fail and whoever publishes, an item is freed only when  *)
(* its deletion has been sent, or with the participant.                    *)
(***************************************************************************)
THEOREM FreedAfterAnnounced == Spec => []FreedIsAnnounced
<1>1. FreedInv => FreedIsAnnounced
  BY DEF FreedInv
<1> QED
  BY <1>1, TypesKept, FreedInit, FreedStep, PTL DEF Spec

-----------------------------------------------------------------------------
(* The thread that has created an item goes on by marking it. *)
LEMMA CreatorGoesOn ==
  ASSUME TypeInv, [Next]_vars, NEW a \in App, worker[a].pc = "created"
  PROVE  worker'[a] = worker[a] \/ MarkUpdated(a)
<1>1. worker \in [App -> WorkerState]
  BY DEF TypeInv, WorkersInv
<1>2. CASE worker' = worker
  BY <1>2
<1>3. ASSUME NEW b \in App, ~ MarkUpdated(a), b # a \/ worker[b].pc # "created",
             NEW s, worker' = [worker EXCEPT ![b] = s]
      PROVE  worker'[a] = worker[a]
  BY <1>1, <1>3
<1>4. CASE \E b \in Editor, x \in Item, k \in CacheIndex : Create(b, x, k)
  BY <1>3, <1>4, RolesAreApps DEF Create, At, Goto
<1>5. CASE \E b \in Editor, x \in Item : UpdateCheck(b, x) \/ DeleteItem(b, x)
  BY <1>3, <1>5, RolesAreApps DEF UpdateCheck, DeleteItem, At, Goto
<1>6. CASE \E b \in Editor : MarkUpdated(b)
  BY <1>1, <1>6, RolesAreApps DEF MarkUpdated, Goto
<1>7. CASE \E b \in Editor : MarkDeleted(b)
  BY <1>3, <1>7, RolesAreApps DEF MarkDeleted, At, Goto
<1>8. CASE \E b \in Networker, k \in CacheIndex : PublishUpdated(b, k)
  BY <1>3, <1>8, RolesAreApps DEF PublishUpdated, At, Goto
<1>9. CASE \E b \in Networker : PublishDeleted(b) \/ PublishDeletedFails(b)
  BY <1>3, <1>9, RolesAreApps DEF PublishDeleted, PublishDeletedFails, At, Goto
<1>10. CASE \E b \in Manager : SetAlive(b) \/ \E x \in Participant : Listen(b, x)
  BY <1>3, <1>10, RolesAreApps DEF SetAlive, Listen, At, Goto
<1> QED
  BY <1>2, <1>4, <1>5, <1>6, <1>7, <1>8, <1>9, <1>10
  DEF Next, vars, PublishUpdatedFails, Refresh, CreateCache, Leave, DeleteBegin, Receive,
      ReceiveUpdate, ReceiveDelete, JoinReceiver, DeleteEnd

(* What leaves the updated items was sent, lost, or goes with its cache.   *)
LEMMA UpdatedGoesOn ==
  ASSUME TypeInv, [Next]_vars, NEW c \in Cell, NEW x \in updated[c]
  PROVE  \/ x \in updated'[c]
         \/ [kind |-> "update", guid |-> Id(x)] \in announced'
         \/ x \in lost'
         \/ life'[c[1]] # "up"
<1>1. updated \in [Cell -> SUBSET Item] /\ \A d \in Cell : Fits(updated[d])
  BY DEF TypeInv, SetsInv
<1>2. CASE updated' = updated
  BY <1>2
<1>3. ASSUME NEW a \in Editor, MarkUpdated(a)
      PROVE  x \in updated'[c]
  <2>1. updated' = Marked(<<a[1], worker[a].cache>>, worker[a].item)
    BY <1>3 DEF MarkUpdated
  <2> QED
    BY <1>1, <2>1 DEF Marked, Added
<1>4. ASSUME NEW a \in Networker, NEW k \in CacheIndex, PublishUpdated(a, k)
      PROVE  x \in updated'[c] \/ [kind |-> "update", guid |-> Id(x)] \in announced'
  <2>1. PICK d \in Cell : d = <<a[1], k>>
    BY <1>4, PublishUpdatedSends DEF TypeInv
  <2>2. updated' = [updated EXCEPT ![d] = {}]
    BY <1>4, <2>1 DEF PublishUpdated
  <2>3. \A y \in updated[d] : [kind |-> "update", guid |-> Id(y)] \in announced'
    BY <1>4, <2>1, PublishUpdatedSends DEF TypeInv
  <2> QED
    BY <1>1, <2>2, <2>3
<1>5. ASSUME NEW a \in Networker, NEW k \in CacheIndex, PublishUpdatedFails(a, k)
      PROVE  \/ x \in updated'[c]
             \/ [kind |-> "update", guid |-> Id(x)] \in announced'
             \/ x \in lost'
  <2>1. PICK d \in Cell : d = <<a[1], k>>
    BY <1>5, PublishUpdatedFailsSends DEF TypeInv
  <2>2. updated' = [updated EXCEPT ![d] = {}]
    BY <1>5, <2>1 DEF PublishUpdatedFails
  <2>3. \A y \in updated[d] : \/ [kind |-> "update", guid |-> Id(y)] \in announced'
                              \/ y \in lost'
    BY <1>5, <2>1, PublishUpdatedFailsSends DEF TypeInv
  <2> QED
    BY <1>1, <2>2, <2>3
<1>6. ASSUME NEW p \in Participant, DeleteEnd(p)
      PROVE  x \in updated'[c] \/ life'[c[1]] # "up"
  <2>1. CASE c[1] = p
    BY <1>6, <2>1, NobodyComesBack DEF DeleteEnd
  <2>2. CASE c[1] # p
    BY <1>1, <1>6, <2>2 DEF DeleteEnd
  <2> QED
    BY <2>1, <2>2
<1> QED
  BY <1>2, <1>3, <1>4, <1>5, <1>6
  DEF Next, vars, Create, UpdateCheck, DeleteItem, MarkDeleted, PublishDeleted,
      PublishDeletedFails, Refresh, CreateCache, Listen, SetAlive, Leave, DeleteBegin,
      Receive, ReceiveUpdate, ReceiveDelete, JoinReceiver, items

(* What its creator marks is in the updated items, or does not fit in. *)
LEMMA MarkedOrLost ==
  ASSUME TypeInv, NEW a \in App, MarkUpdated(a), NEW x \in Item, worker[a].item = x
  PROVE  x \in lost' \/ \E c \in Cell : x \in updated'[c]
<1>1. PICK c \in Cell : c = <<a[1], worker[a].cache>>
  BY AppIsPair, CellIsPair DEF MarkUpdated, At, TypeInv, WorkersInv, HasItem
<1>2. /\ updated' = [updated EXCEPT ![c] = Added(updated[c], x)]
      /\ lost' = IF HasRoom(updated[c], x) THEN lost ELSE lost \cup {x}
  BY <1>1 DEF MarkUpdated, Marked
<1>3. updated \in [Cell -> SUBSET Item] /\ \A d \in Cell : Fits(updated[d])
  BY DEF TypeInv, SetsInv
<1>4. HasRoom(updated[c], x) => x \in Added(updated[c], x)
  BY <1>3, AddedFits
<1> QED
  BY <1>2, <1>3, <1>4

LEMMA CreationInit == Init => CreationKept
BY DEF Init, CreationKept, IsShared

LEMMA CreationStep == TypeInv /\ CreationKept /\ [Next]_vars => CreationKept'
<1> SUFFICES ASSUME TypeInv, CreationKept, [Next]_vars, NEW x \in Item, IsShared(x)'
             PROVE  \/ \E a \in App : worker'[a].pc = "created" /\ worker'[a].item = x
                    \/ \E c \in Cell : x \in updated'[c]
                    \/ [kind |-> "update", guid |-> Id(x)'] \in announced'
                    \/ x \in lost'
                    \/ life'[x[1]] # "up"
  BY DEF CreationKept
<1>1. NumbersInv /\ worker \in [App -> WorkerState]
  BY DEF TypeInv, WorkersInv
<1>2. CASE ~ IsShared(x)
  <2>1. PICK a \in Editor, y \in Item, k \in CacheIndex : Create(a, y, k)
    BY <1>2, OnlyCreateNumbers DEF IsShared
  <2>2. y = x
    BY <1>1, <1>2, <2>1 DEF Create, IsShared, NumbersInv
  <2>3. worker' = [worker EXCEPT ![a] = [pc |-> "created", item |-> x, cache |-> k]]
    BY <2>1, <2>2 DEF Create, Goto
  <2>4. a \in App /\ worker'[a] = [pc |-> "created", item |-> x, cache |-> k]
    BY <1>1, <2>3, RolesAreApps
  <2> QED
    BY <2>4
<1>3. CASE IsShared(x)
  <2>1. Id(x)' = Id(x)
    BY <1>1, <1>3, SharedKept
  <2>2. CASE \E a \in App : worker[a].pc = "created" /\ worker[a].item = x
    <3>1. PICK a \in App : worker[a].pc = "created" /\ worker[a].item = x
      BY <2>2
    <3> QED
      BY <3>1, CreatorGoesOn, MarkedOrLost
  <2>3. CASE \E c \in Cell : x \in updated[c]
    <3>1. PICK c \in Cell : x \in updated[c]
      BY <2>3
    <3>2. c[1] = x[1]
      BY <3>1 DEF TypeInv, SetsInv, AtHome
    <3> QED
      BY <2>1, <3>1, <3>2, UpdatedGoesOn
  <2>4. CASE [kind |-> "update", guid |-> Id(x)] \in announced \/ x \in lost
    BY <2>1, <2>4, HistoryGrows
  <2>5. CASE life[x[1]] # "up"
    BY <2>5, NobodyComesBack DEF Item
  <2> QED
    BY <1>3, <2>2, <2>3, <2>4, <2>5 DEF CreationKept
<1> QED
  BY <1>2, <1>3

(***************************************************************************)
(* An item that was created is announced, or dropped by a full set or a    *)
(* send that failed: nothing forgets it between its creator and publish(). *)
(***************************************************************************)
THEOREM CreationsAreKept == Spec => []CreationAccountedFor
<1>1. CreationKept => CreationAccountedFor
  <2> SUFFICES ASSUME CreationKept, NEW x \in Item, IsShared(x)
               PROVE  \/ \E a \in App : worker[a].item = x
                      \/ x \in UNION {updated[c] : c \in Cell}
                      \/ [kind |-> "update", guid |-> Id(x)] \in announced
                      \/ x \in lost
                      \/ life[x[1]] # "up"
    BY DEF CreationAccountedFor
  <2> QED
    BY DEF CreationKept
<1> QED
  BY <1>1, TypesKept, CreationInit, CreationStep, PTL DEF Spec

-----------------------------------------------------------------------------
(* The caches that a walk reaches, when a cache is added. *)
LEMMA WalkGrows ==
  ASSUME ProcessInv, NEW a \in Manager, CreateCache(a), NEW p \in Participant
  PROVE  BeforeHole(p) \subseteq BeforeHole(p)'
<1>1. /\ ProcessInv'
      /\ \/ caches'[p] = caches[p]
         \/ /\ Len(caches'[p]) = Len(caches[p]) + 1
            /\ \A i \in 1 .. Len(caches[p]) : caches'[p][i] = caches[p][i]
  BY CacheAdded, ProcessStep DEF Next
<1>2. DOMAIN caches[p] = 1 .. Len(caches[p]) /\ Len(caches[p]) \in Nat
  BY WalkedCaches
<1>3. DOMAIN caches'[p] = 1 .. Len(caches'[p])
  <2>1. caches'[p] \in Seq({"cache", "hole"})
    BY <1>1 DEF ProcessInv
  <2> QED
    BY <2>1
<1>4. ASSUME NEW k \in BeforeHole(p)
      PROVE  k \in BeforeHole(p)'
  <2>1. k \in 1 .. Len(caches[p]) /\ \A j \in 1 .. k : caches[p][j] = "cache"
    BY <1>2 DEF BeforeHole
  <2>2. k \in DOMAIN caches'[p] /\ \A j \in 1 .. k : caches'[p][j] = "cache"
    BY <1>1, <1>2, <1>3, <2>1
  <2> QED
    BY <2>2 DEF BeforeHole
<1> QED
  BY <1>4

(* An earlier cache than one the walk reaches is reached. *)
LEMMA WalkIsPrefix ==
  ASSUME ProcessInv, NEW p \in Participant, NEW k \in BeforeHole(p), NEW j \in CacheIndex, j < k
  PROVE  j \in BeforeHole(p)
<1>1. /\ DOMAIN caches[p] = 1 .. Len(caches[p])
      /\ Len(caches[p]) \in Nat
      /\ k \in 1 .. Len(caches[p])
      /\ \A i \in 1 .. k : caches[p][i] = "cache"
  BY WalkedCaches DEF BeforeHole
<1>2. j \in 1 .. Len(caches[p]) /\ 1 .. j \subseteq 1 .. k
  BY <1>1, CNodeAssumption DEF CacheIndex
<1> QED
  BY <1>1, <1>2 DEF BeforeHole

LEMMA FilingInit == Init => FilingInv
<1> SUFFICES ASSUME Init
             PROVE  FilingInv
  OBVIOUS
<1>1. \A p \in Participant, k \in CacheIndex : toUpdate[<<p, k>>] = <<>>
  BY CellIsPair DEF Init
<1>2. \A p \in Participant : DOMAIN caches[p] = {1}
  BY DEF Init
<1> QED
  BY <1>1, <1>2 DEF FilingInv, NothingBeyondHole, EarlierCachesKnowMore

(* A frame that is copied goes to every earlier cache that has room.       *)
LEMMA FilingReceive ==
  ASSUME TypeInv, FilingInv, NEW w \in Receiver, ReceiveUpdate(w)
  PROVE  FilingInv'
<1>1. PICK g \in GUID : g = Head(net[w]).guid
  BY FrameTaken DEF TypeInv, ReceiveUpdate
<1>2. PICK n \in Nat : toUpdate' = [c \in Cell |->
                         IF /\ c[1] = w[1]
                            /\ c[2] \in FiledUpTo(w[1], n)
                            /\ Len(toUpdate[c]) < SetLimit
                         THEN Append(toUpdate[c], g)
                         ELSE toUpdate[c]]
  <2>1. Cardinality(BeforeHole(w[1])) \in Nat
    BY WalkedCaches DEF TypeInv, Receiver
  <2>2. /\ {Cardinality(BeforeHole(w[1]))} \subseteq Nat
        /\ 0 .. Cardinality(BeforeHole(w[1])) \subseteq Nat
    BY <2>1
  <2> QED
    BY <1>1, <2>2 DEF ReceiveUpdate
<1>3. caches' = caches
  BY DEF ReceiveUpdate
<1>4. ASSUME NEW c \in Cell
      PROVE  /\ toUpdate[c] \in Seq(GUID)
             /\ Len(toUpdate[c]) <= SetLimit
             /\ Contents(Append(toUpdate[c], g)) = Contents(toUpdate[c]) \cup {g}
             /\ Len(Append(toUpdate[c], g)) = Len(toUpdate[c]) + 1
             /\ Len(toUpdate[c]) \in Nat
  <2>1. toUpdate[c] \in Seq(GUID) /\ Len(toUpdate[c]) <= SetLimit
    BY DEF TypeInv, BuffersInv
  <2>2. /\ Append(toUpdate[c], g) \in Seq(GUID)
        /\ Len(Append(toUpdate[c], g)) = Len(toUpdate[c]) + 1
    BY <2>1
  <2>3. /\ Contents(toUpdate[c]) = {toUpdate[c][i] : i \in 1 .. Len(toUpdate[c])}
        /\ Contents(Append(toUpdate[c], g)) =
             {Append(toUpdate[c], g)[i] : i \in 1 .. Len(Append(toUpdate[c], g))}
    BY <2>1, <2>2 DEF Contents
  <2>4. Contents(Append(toUpdate[c], g)) = Contents(toUpdate[c]) \cup {g}
    BY <2>1, <2>3, AppendElements
  <2> QED
    BY <2>1, <2>2, <2>4
<1>5. NothingBeyondHole'
  <2> SUFFICES ASSUME NEW p \in Participant, NEW k \in CacheIndex, k \notin BeforeHole(p)'
               PROVE  toUpdate'[<<p, k>>] = <<>>
    BY DEF NothingBeyondHole
  <2>1. k \notin BeforeHole(p)
    BY <1>3 DEF BeforeHole
  <2>2. PICK c \in Cell : c = <<p, k>>
    BY CellIsPair
  <2>3. toUpdate[c] = <<>>
    BY <2>1, <2>2 DEF FilingInv, NothingBeyondHole
  <2>4. toUpdate'[c] = toUpdate[c]
    BY <1>2, <2>1, <2>2 DEF FiledUpTo
  <2> QED
    BY <2>2, <2>3, <2>4
<1>6. EarlierCachesKnowMore'
  <2> SUFFICES ASSUME NEW p \in Participant,
                      NEW j \in DOMAIN caches[p], NEW k \in DOMAIN caches[p], j < k
               PROVE  \/ Len(toUpdate'[<<p, j>>]) = SetLimit
                      \/ Contents(toUpdate'[<<p, k>>]) \subseteq Contents(toUpdate'[<<p, j>>])
    BY <1>3 DEF EarlierCachesKnowMore, Contents
  <2>1. j \in CacheIndex /\ k \in CacheIndex
    BY WalkedCaches DEF TypeInv
  <2>2. PICK c \in Cell, d \in Cell : c = <<p, j>> /\ d = <<p, k>>
    BY <2>1, CellIsPair
  <2>3. \/ Len(toUpdate[c]) = SetLimit
        \/ Contents(toUpdate[d]) \subseteq Contents(toUpdate[c])
    BY <2>2 DEF FilingInv, EarlierCachesKnowMore
  <2>4. /\ toUpdate'[c] = toUpdate[c] \/ toUpdate'[c] = Append(toUpdate[c], g)
        /\ toUpdate'[d] = toUpdate[d] \/ toUpdate'[d] = Append(toUpdate[d], g)
    BY <1>2
  <2>5. CASE Len(toUpdate[c]) = SetLimit
    BY <1>2, <2>2, <2>5, CNodeAssumption
  <2>6. CASE Len(toUpdate[c]) # SetLimit
    <3>1. Len(toUpdate[c]) < SetLimit
      BY <1>4, <2>6, CNodeAssumption
    <3>2. Contents(toUpdate[c]) \subseteq Contents(toUpdate'[c])
      BY <1>4, <2>4
    <3>3. CASE toUpdate'[d] = toUpdate[d]
      BY <2>2, <2>3, <2>6, <3>2, <3>3
    <3>4. CASE toUpdate'[d] # toUpdate[d]
      <4>1. /\ toUpdate'[d] = Append(toUpdate[d], g)
            /\ p = w[1] /\ k \in FiledUpTo(p, n)
        BY <1>2, <2>2, <2>4, <3>4
      <4>2. k \in BeforeHole(p) /\ k <= n
        BY <4>1 DEF FiledUpTo
      <4>3. j \in BeforeHole(p)
        BY <2>1, <4>2, WalkIsPrefix DEF TypeInv
      <4>4. j \in FiledUpTo(p, n)
        BY <2>1, <4>2, <4>3 DEF FiledUpTo, CacheIndex
      <4>5. toUpdate'[c] = Append(toUpdate[c], g)
        BY <1>2, <2>2, <3>1, <4>1, <4>4
      <4>6. /\ Contents(toUpdate'[c]) = Contents(toUpdate[c]) \cup {g}
            /\ Contents(toUpdate'[d]) = Contents(toUpdate[d]) \cup {g}
        BY <1>4, <4>1, <4>5
      <4> QED
        BY <2>2, <2>3, <2>6, <4>6
    <3> QED
      BY <3>3, <3>4
  <2> QED
    BY <2>5, <2>6
<1> QED
  BY <1>5, <1>6 DEF FilingInv

(* A cache that is added is empty, as the last one, or beyond a hole.      *)
LEMMA FilingCreateCache ==
  ASSUME TypeInv, FilingInv, NEW a \in Manager, CreateCache(a)
  PROVE  FilingInv'
<1>1. ProcessInv /\ toUpdate' = toUpdate
  BY DEF TypeInv, CreateCache, received
<1>2. NothingBeyondHole'
  <2> SUFFICES ASSUME NEW p \in Participant, NEW k \in CacheIndex, k \notin BeforeHole(p)'
               PROVE  toUpdate[<<p, k>>] = <<>>
    BY <1>1 DEF NothingBeyondHole
  <2>1. k \notin BeforeHole(p)
    BY <1>1, WalkGrows
  <2> QED
    BY <2>1 DEF FilingInv, NothingBeyondHole
<1>3. EarlierCachesKnowMore'
  <2> SUFFICES ASSUME NEW p \in Participant,
                      NEW j \in DOMAIN caches'[p], NEW k \in DOMAIN caches'[p], j < k
               PROVE  \/ Len(toUpdate[<<p, j>>]) = SetLimit
                      \/ Contents(toUpdate[<<p, k>>]) \subseteq Contents(toUpdate[<<p, j>>])
    BY <1>1 DEF EarlierCachesKnowMore
  <2>1. caches'[p] \in Seq({"cache", "hole"}) /\ Len(caches'[p]) \in CacheIndex
    BY <1>1, CacheAdded
  <2>2. j \in 1 .. Len(caches'[p]) /\ k \in 1 .. Len(caches'[p]) /\ k \in CacheIndex
    BY <2>1, CNodeAssumption DEF CacheIndex
  <2>3. Len(caches[p]) \in Nat /\ DOMAIN caches[p] = 1 .. Len(caches[p])
    BY <1>1, WalkedCaches
  <2>4. \/ Len(caches'[p]) = Len(caches[p])
        \/ Len(caches'[p]) = Len(caches[p]) + 1
    BY <1>1, CacheAdded
  <2>5. CASE k \in DOMAIN caches[p]
    <3>1. j \in DOMAIN caches[p]
      BY <2>2, <2>3, <2>5
    <3> QED
      BY <2>5, <3>1 DEF FilingInv, EarlierCachesKnowMore
  <2>6. CASE k \notin DOMAIN caches[p]
    <3>1. k \notin BeforeHole(p)
      BY <2>6 DEF BeforeHole
    <3>2. toUpdate[<<p, k>>] = <<>>
      BY <2>2, <3>1 DEF FilingInv, NothingBeyondHole
    <3> QED
      BY <3>2 DEF Contents
  <2> QED
    BY <2>5, <2>6
<1> QED
  BY <1>2, <1>3 DEF FilingInv

LEMMA FilingStep == TypeInv /\ FilingInv /\ [Next]_vars => FilingInv'
<1> SUFFICES ASSUME TypeInv, FilingInv, [Next]_vars
             PROVE  FilingInv'
  OBVIOUS
<1>1. CASE UNCHANGED <<caches, toUpdate>>
  <2>1. NothingBeyondHole'
    BY <1>1 DEF FilingInv, NothingBeyondHole, BeforeHole
  <2>2. EarlierCachesKnowMore'
    BY <1>1 DEF FilingInv, EarlierCachesKnowMore
  <2> QED
    BY <2>1, <2>2 DEF FilingInv
<1>2. CASE \E w \in Receiver : ReceiveUpdate(w)
  BY <1>2, FilingReceive
<1>3. CASE \E a \in Manager : CreateCache(a)
  BY <1>3, FilingCreateCache
<1> QED
  BY <1>1, <1>2, <1>3
  DEF Next, vars, Create, UpdateCheck, DeleteItem, MarkUpdated, MarkDeleted, PublishUpdated,
      PublishUpdatedFails, PublishDeleted, PublishDeletedFails, Refresh, Listen, SetAlive,
      Leave, DeleteBegin, Receive, ReceiveDelete, JoinReceiver, DeleteEnd, process, received

(***************************************************************************)
(* Of two caches, the one created earlier has what the other has, unless   *)
(* it is full: with any number of caches, holes and copies that could not  *)
(* be allocated.                                                           *)
(***************************************************************************)
THEOREM EarlierCachesAreAhead == Spec => []EarlierCachesKnowMore
<1>1. FilingInv => EarlierCachesKnowMore
  BY DEF FilingInv
<1> QED
  BY <1>1, TypesKept, FilingInit, FilingStep, PTL DEF Spec

-----------------------------------------------------------------------------
(***************************************************************************)
(* Nothing refers to what has been freed.  The steps are those of the one  *)
(* thread that uses a cache, and of the deletion of its participant.       *)
(***************************************************************************)
LEMMA SafetyInit == Init => SafetyInv
BY DEF Init, SafetyInv, Roles, HeldItems, Halves, NoFreedItem, HasItem, Idle

(* Who is at a point of a handler. *)
LEMMA RolesStep ==
  ASSUME TypeInv, Roles, [Next]_vars
  PROVE  Roles'
<1> USE DEF Roles, HasItem
<1>1. /\ worker \in [App -> WorkerState]
      /\ life \in [Participant -> {"up", "deleting", "deleted", "half deleted"}]
  BY DEF TypeInv, WorkersInv, ProcessInv
<1>2. CASE UNCHANGED <<worker, life>>
  BY <1>2
<1>3. ASSUME NEW b \in App, life[b[1]] = "up", life' = life,
             NEW pc, NEW x, NEW k, Goto(b, pc, x, k),
             pc \in {"created", "checked", "removed"} => b \in Editor,
             pc = "published" => b \in Networker
      PROVE  Roles'
  BY <1>1, <1>3 DEF Goto
<1>4. CASE \E b \in Editor, x \in Item, k \in CacheIndex : Create(b, x, k)
  BY <1>3, <1>4, RolesAreApps DEF Create, At, process
<1>5. CASE \E b \in Editor, x \in Item : UpdateCheck(b, x) \/ DeleteItem(b, x)
  BY <1>3, <1>5, RolesAreApps DEF UpdateCheck, DeleteItem, At, process
<1>6. CASE \E b \in Editor : MarkUpdated(b) \/ MarkDeleted(b)
  BY <1>3, <1>6, RolesAreApps DEF MarkUpdated, MarkDeleted, At, process
<1>7. CASE \E b \in Networker, k \in CacheIndex : PublishUpdated(b, k)
  BY <1>3, <1>7, RolesAreApps DEF PublishUpdated, At, process
<1>8. CASE \E b \in Networker : PublishDeleted(b) \/ PublishDeletedFails(b)
  BY <1>3, <1>8, RolesAreApps DEF PublishDeleted, PublishDeletedFails, At, process
<1>9. CASE \E b \in Manager : SetAlive(b) \/ \E x \in Participant : Listen(b, x)
  BY <1>3, <1>9, RolesAreApps DEF SetAlive, Listen, At
<1>10. CASE \E b \in Manager : DeleteBegin(b)
  BY <1>1, <1>10, AppIsPair DEF DeleteBegin, Idle
<1>11. CASE \E p \in Participant : DeleteEnd(p)
  BY <1>1, <1>11, AppIsPair DEF DeleteEnd
<1> QED
  BY <1>2, <1>4, <1>5, <1>6, <1>7, <1>8, <1>9, <1>10, <1>11
  DEF Next, vars, PublishUpdatedFails, Refresh, CreateCache, Leave, Receive, ReceiveUpdate,
      ReceiveDelete, JoinReceiver, process

(***************************************************************************)
(* What a step frees is in the hands of no thread, and in no other set:    *)
(* what was deleted has left the local map, and the updated items of the   *)
(* cache have just been sent.                                              *)
(***************************************************************************)
LEMMA FreedIsNotHeld ==
  ASSUME OneThread, TypeInv, SafetyInv, [Next]_vars,
         NEW x \in freed' \ freed
  PROVE  \A a \in App : ~ (HasItem(a) /\ worker[a].item = x)
<1>1. ASSUME NEW b \in Networker, PublishDeleted(b), NEW a \in App, HasItem(a),
             worker[a].item = x
      PROVE  FALSE
  <2>1. PICK c \in Cell : c = <<b[1], worker[b].cache>>
    BY <1>1, PublishDeletedSends DEF TypeInv
  <2>2. x \in deleted[c]
    BY <1>1, <2>1 DEF PublishDeleted
  <2>3. x[1] = b[1]
    BY <2>1, <2>2 DEF TypeInv, SetsInv, AtHome
  <2>4. x[1] = a[1] /\ a \in Editor
    BY <1>1 DEF TypeInv, WorkersInv, AtHome, SafetyInv, Roles
  <2>5. a = b
    BY <2>3, <2>4 DEF OneThread
  <2> QED
    BY <1>1, <2>5 DEF PublishDeleted, At, HasItem
<1>2. ASSUME NEW p \in Participant, DeleteEnd(p), NEW a \in App, HasItem(a),
             worker[a].item = x
      PROVE  FALSE
  <2>1. x[1] = p
    BY <1>2, DeleteEndFrees
  <2>2. x[1] = a[1]
    BY <1>2 DEF TypeInv, WorkersInv, AtHome
  <2>3. life[a[1]] # "up"
    BY <1>2, <2>1, <2>2 DEF DeleteEnd
  <2> QED
    BY <1>2, <2>3 DEF SafetyInv, Roles, HasItem, Idle
<1> QED
  BY <1>1, <1>2, OnlyTheseFree

(* What enters a set: an item that is new, or one in the hands of a thread. *)
LEMMA LocalGrows ==
  ASSUME TypeInv, [Next]_vars, NEW c \in Cell, NEW x \in local'[c] \ local[c]
  PROVE  x \in Item /\ ~ IsShared(x)
<1>1. local \in [Cell -> SUBSET Item] /\ \A d \in Cell : Fits(local[d])
  BY DEF TypeInv, SetsInv
<1>2. ASSUME local' = local
      PROVE  FALSE
  BY <1>2
<1>3. ASSUME NEW a \in Editor, NEW y \in Item, NEW k \in CacheIndex, Create(a, y, k)
      PROVE  x \in Item /\ ~ IsShared(x)
  <2>1. PICK d \in Cell : d = <<a[1], k>>
    BY RolesAreApps, AppIsPair, CellIsPair
  <2>2. local' = [local EXCEPT ![d] = Added(local[d], y)] /\ ~ IsShared(y)
    BY <1>3, <2>1 DEF Create
  <2>3. Added(local[d], y) \in {local[d], local[d] \cup {y}}
    BY <1>1, AddedFits
  <2> QED
    BY <1>1, <2>2, <2>3
<1>4. ASSUME NEW a \in Editor, NEW y \in Item, DeleteItem(a, y)
      PROVE  FALSE
  BY <1>1, <1>4 DEF DeleteItem
<1>5. ASSUME NEW p \in Participant, DeleteEnd(p)
      PROVE  FALSE
  BY <1>1, <1>5 DEF DeleteEnd
<1> QED
  BY <1>2, <1>3, <1>4, <1>5
  DEF Next, vars, UpdateCheck, MarkUpdated, MarkDeleted, PublishUpdated, PublishUpdatedFails,
      PublishDeleted, PublishDeletedFails, Refresh, CreateCache, Listen, SetAlive, Leave,
      DeleteBegin, Receive, ReceiveUpdate, ReceiveDelete, JoinReceiver, items

LEMMA UpdatedGrows ==
  ASSUME TypeInv, [Next]_vars, NEW c \in Cell, NEW x \in updated'[c] \ updated[c]
  PROVE  \E a \in Editor : /\ MarkUpdated(a) /\ HasItem(a)
                           /\ worker[a].item = x
                           /\ c = <<a[1], worker[a].cache>>
<1>1. updated \in [Cell -> SUBSET Item] /\ \A d \in Cell : Fits(updated[d])
  BY DEF TypeInv, SetsInv
<1>2. ASSUME updated' = updated
      PROVE  FALSE
  BY <1>2
<1>3. ASSUME NEW a \in Editor, MarkUpdated(a)
      PROVE  HasItem(a) /\ worker[a].item = x /\ c = <<a[1], worker[a].cache>>
  <2>1. HasItem(a)
    BY <1>3 DEF MarkUpdated, At, HasItem
  <2>2. PICK d \in Cell, y \in Item : d = <<a[1], worker[a].cache>> /\ y = worker[a].item
    BY <2>1, RolesAreApps, AppIsPair, CellIsPair DEF TypeInv, WorkersInv
  <2>3. updated' = [updated EXCEPT ![d] = Added(updated[d], y)]
    BY <1>3, <2>2 DEF MarkUpdated, Marked
  <2>4. Added(updated[d], y) \in {updated[d], updated[d] \cup {y}}
    BY <1>1, AddedFits
  <2>5. c = d /\ x = y
    BY <1>1, <2>3, <2>4
  <2> QED
    BY <2>1, <2>2, <2>5
<1>4. ASSUME NEW a \in Networker, NEW k \in CacheIndex,
             PublishUpdated(a, k) \/ PublishUpdatedFails(a, k)
      PROVE  FALSE
  BY <1>1, <1>4 DEF PublishUpdated, PublishUpdatedFails
<1>5. ASSUME NEW p \in Participant, DeleteEnd(p)
      PROVE  FALSE
  BY <1>1, <1>5 DEF DeleteEnd
<1> QED
  BY <1>2, <1>3, <1>4, <1>5
  DEF Next, vars, Create, UpdateCheck, DeleteItem, MarkDeleted, PublishDeleted,
      PublishDeletedFails, Refresh, CreateCache, Listen, SetAlive, Leave, DeleteBegin,
      Receive, ReceiveUpdate, ReceiveDelete, JoinReceiver, items

LEMMA DeletedGrows ==
  ASSUME TypeInv, [Next]_vars, NEW c \in Cell, NEW x \in deleted'[c] \ deleted[c]
  PROVE  \E a \in Editor : /\ MarkDeleted(a) /\ HasItem(a)
                           /\ worker[a].pc = "removed"
                           /\ worker[a].item = x
                           /\ c = <<a[1], worker[a].cache>>
<1>1. deleted \in [Cell -> SUBSET Item] /\ \A d \in Cell : Fits(deleted[d])
  BY DEF TypeInv, SetsInv
<1>2. ASSUME deleted' = deleted
      PROVE  FALSE
  BY <1>2
<1>3. ASSUME NEW a \in Editor, MarkDeleted(a)
      PROVE  /\ HasItem(a) /\ worker[a].pc = "removed"
             /\ worker[a].item = x /\ c = <<a[1], worker[a].cache>>
  <2>1. HasItem(a) /\ worker[a].pc = "removed"
    BY <1>3 DEF MarkDeleted, At, HasItem
  <2>2. PICK d \in Cell, y \in Item : d = <<a[1], worker[a].cache>> /\ y = worker[a].item
    BY <2>1, RolesAreApps, AppIsPair, CellIsPair DEF TypeInv, WorkersInv
  <2>3. deleted' = [deleted EXCEPT ![d] = Added(deleted[d], y)]
    BY <1>3, <2>2 DEF MarkDeleted
  <2>4. Added(deleted[d], y) \in {deleted[d], deleted[d] \cup {y}}
    BY <1>1, AddedFits
  <2>5. c = d /\ x = y
    BY <1>1, <2>3, <2>4
  <2> QED
    BY <2>1, <2>2, <2>5
<1>4. ASSUME NEW a \in Networker, PublishDeleted(a)
      PROVE  FALSE
  BY <1>1, <1>4 DEF PublishDeleted, DeletedCleared
<1> QED
  BY <1>2, <1>3, <1>4
  DEF Next, vars, Create, UpdateCheck, DeleteItem, MarkUpdated, PublishUpdated,
      PublishUpdatedFails, PublishDeletedFails, Refresh, CreateCache, Listen, SetAlive, Leave,
      DeleteBegin, Receive, ReceiveUpdate, ReceiveDelete, JoinReceiver, DeleteEnd, items

(* How a thread comes to hold an item, or to be between two sets.          *)
LEMMA HoldingBegins ==
  ASSUME TypeInv, [Next]_vars, NEW a \in App, worker'[a] # worker[a]
  PROVE  \/ worker'[a].pc \in {"idle", "listening"}
         \/ \E x \in Item, k \in CacheIndex : Create(a, x, k) /\ Goto(a, "created", x, k)
         \/ \E x \in Item : UpdateCheck(a, x) /\ Goto(a, "checked", x, home[x])
         \/ \E x \in Item : DeleteItem(a, x) /\ Goto(a, "removed", x, home[x])
         \/ \E k \in CacheIndex : PublishUpdated(a, k) /\ Goto(a, "published", NoItem, k)
<1>1. worker \in [App -> WorkerState]
  BY DEF TypeInv, WorkersInv
<1> DEFINE Begins ==
             \/ worker'[a].pc \in {"idle", "listening"}
             \/ \E x \in Item, k \in CacheIndex : Create(a, x, k) /\ Goto(a, "created", x, k)
             \/ \E x \in Item : UpdateCheck(a, x) /\ Goto(a, "checked", x, home[x])
             \/ \E x \in Item : DeleteItem(a, x) /\ Goto(a, "removed", x, home[x])
             \/ \E k \in CacheIndex : PublishUpdated(a, k) /\ Goto(a, "published", NoItem, k)
<1>2. ASSUME NEW b, NEW pc, NEW x, NEW k, Goto(b, pc, x, k)
      PROVE  b = a /\ worker'[a].pc = pc
  BY <1>1, <1>2 DEF Goto
<1>3. ASSUME NEW b \in Editor, NEW x \in Item, NEW k \in CacheIndex, Create(b, x, k)
      PROVE  Begins
  <2>1. Goto(b, "created", x, k)
    BY <1>3 DEF Create
  <2>2. b = a
    BY <1>2, <2>1
  <2> QED
    BY <1>3, <2>1, <2>2
<1>4. ASSUME NEW b \in Editor, NEW x \in Item, UpdateCheck(b, x)
      PROVE  Begins
  <2>1. Goto(b, "checked", x, home[x])
    BY <1>4 DEF UpdateCheck
  <2>2. b = a
    BY <1>2, <2>1
  <2> QED
    BY <1>4, <2>1, <2>2
<1>5. ASSUME NEW b \in Editor, NEW x \in Item, DeleteItem(b, x)
      PROVE  Begins
  <2>1. Goto(b, "removed", x, home[x])
    BY <1>5 DEF DeleteItem
  <2>2. b = a
    BY <1>2, <2>1
  <2> QED
    BY <1>5, <2>1, <2>2
<1>6. ASSUME NEW b \in Networker, NEW k \in CacheIndex, PublishUpdated(b, k)
      PROVE  Begins
  <2>1. Goto(b, "published", NoItem, k)
    BY <1>6 DEF PublishUpdated
  <2>2. b = a
    BY <1>2, <2>1
  <2> QED
    BY <1>6, <2>1, <2>2
<1>7. ASSUME NEW b, Goto(b, "idle", NoItem, 0) \/ Goto(b, "listening", NoItem, 0)
      PROVE  Begins
  BY <1>2, <1>7
<1>8. CASE \E b \in Editor : MarkUpdated(b) \/ MarkDeleted(b)
  BY <1>7, <1>8 DEF MarkUpdated, MarkDeleted
<1>9. CASE \E b \in Networker : PublishDeleted(b) \/ PublishDeletedFails(b)
  BY <1>7, <1>9 DEF PublishDeleted, PublishDeletedFails
<1>10. CASE \E b \in Manager : SetAlive(b) \/ \E x \in Participant : Listen(b, x)
  BY <1>7, <1>10 DEF SetAlive, Listen
<1> QED
  BY <1>3, <1>4, <1>5, <1>6, <1>8, <1>9, <1>10
  DEF Next, vars, PublishUpdatedFails, Refresh, CreateCache, Leave, DeleteBegin, Receive,
      ReceiveUpdate, ReceiveDelete, JoinReceiver, DeleteEnd

LEMMA HeldStep ==
  ASSUME OneThread, TypeInv, SafetyInv, [Next]_vars
  PROVE  HeldItems'
<1> SUFFICES ASSUME NEW a \in App, worker'[a].pc \in {"created", "checked", "removed"}
             PROVE  /\ worker'[a].item \notin freed'
                    /\ worker'[a].pc = "removed" =>
                         worker'[a].item \notin local'[<<a[1], worker'[a].cache>>]
  BY DEF HeldItems, HasItem
<1>1. worker \in [App -> WorkerState] /\ local \in [Cell -> SUBSET Item]
  BY DEF TypeInv, WorkersInv, SetsInv
<1>2. CASE worker'[a] = worker[a]
  <2>1. HasItem(a)
    BY <1>2 DEF HasItem
  <2>2. PICK x \in Item, c \in Cell :
          x = worker[a].item /\ c = <<a[1], worker[a].cache>> /\ AtHome(x, c)
    BY <2>1, AppIsPair, CellIsPair DEF TypeInv, WorkersInv
  <2>3. x \notin freed'
    BY <2>1, <2>2, FreedIsNotHeld DEF SafetyInv, HeldItems
  <2>4. worker[a].pc = "removed" => x \notin local'[c]
    BY <2>1, <2>2, LocalGrows, HomeIsShared DEF SafetyInv, HeldItems, TypeInv
  <2> QED
    BY <1>2, <2>2, <2>3, <2>4
<1>3. ASSUME NEW x \in Item, NEW k \in CacheIndex, Create(a, x, k), Goto(a, "created", x, k)
      PROVE  worker'[a].pc = "created" /\ worker'[a].item \notin freed'
  <2>1. freed' = freed /\ ~ IsShared(x)
    BY <1>3 DEF Create
  <2>2. worker'[a] = [pc |-> "created", item |-> x, cache |-> k]
    BY <1>1, <1>3 DEF Goto
  <2> QED
    BY <2>1, <2>2 DEF SafetyInv
<1>4. ASSUME NEW x \in Item, UpdateCheck(a, x), Goto(a, "checked", x, home[x])
      PROVE  worker'[a].pc = "checked" /\ worker'[a].item \notin freed'
  <2>1. PICK c \in Cell : c = <<x[1], home[x]>>
    BY <1>4, SharedAtHome DEF UpdateCheck, TypeInv
  <2>2. freed' = freed /\ x \in local[c]
    BY <1>4, <2>1 DEF UpdateCheck, items
  <2>3. worker'[a] = [pc |-> "checked", item |-> x, cache |-> home[x]]
    BY <1>1, <1>4 DEF Goto
  <2> QED
    BY <2>2, <2>3 DEF SafetyInv, NoFreedItem
<1>5. ASSUME NEW x \in Item, DeleteItem(a, x), Goto(a, "removed", x, home[x])
      PROVE  /\ worker'[a].item \notin freed'
             /\ worker'[a].item \notin local'[<<a[1], worker'[a].cache>>]
  <2>1. PICK c \in Cell : c = <<x[1], home[x]>>
    BY <1>5, SharedAtHome DEF DeleteItem, TypeInv
  <2>2. /\ freed' = freed /\ x \in local[c] /\ x[1] = a[1]
        /\ local' = [local EXCEPT ![c] = local[c] \ {x}]
    BY <1>5, <2>1 DEF DeleteItem
  <2>3. worker'[a] = [pc |-> "removed", item |-> x, cache |-> home[x]]
    BY <1>1, <1>5 DEF Goto
  <2>4. x \notin freed /\ x \notin local'[c]
    BY <1>1, <2>2 DEF SafetyInv, NoFreedItem
  <2> QED
    BY <2>1, <2>2, <2>3, <2>4
<1>6. ASSUME NEW k \in CacheIndex, Goto(a, "published", NoItem, k)
      PROVE  FALSE
  BY <1>1, <1>6 DEF Goto
<1> QED
  BY <1>2, <1>3, <1>4, <1>5, <1>6, HoldingBegins

LEMMA HalvesStep ==
  ASSUME OneThread, TypeInv, SafetyInv, [Next]_vars
  PROVE  Halves'
<1>1. worker \in [App -> WorkerState] /\ updated \in [Cell -> SUBSET Item]
  BY DEF TypeInv, WorkersInv, SetsInv
<1>2. ASSUME NEW c \in Cell, NEW x, x \in local'[c], x \in deleted'[c]
      PROVE  FALSE
  <2>1. CASE x \notin local[c]
    <3>1. x \in Item /\ ~ IsShared(x)
      BY <1>2, <2>1, LocalGrows
    <3>2. PICK a \in Editor, y \in Item, k \in CacheIndex : Create(a, y, k)
      <4>1. CASE UNCHANGED <<number, home, nextInstance>>
        <5>1. c = <<x[1], home'[x]>> /\ home'[x] \in CacheIndex
          BY <1>2, SetsStep, NumbersStep DEF TypeInv, SetsInv, AtHome, Cell
        <5> QED
          BY <3>1, <4>1, <5>1, CNodeAssumption DEF TypeInv, NumbersInv, CacheIndex
      <4> QED
        BY <4>1, OnlyCreateNumbers
    <3>3. deleted' = deleted
      BY <3>2 DEF Create
    <3> QED
      BY <1>2, <3>1, <3>3, SetsAreShared DEF TypeInv
  <2>2. CASE x \in local[c] /\ x \notin deleted[c]
    <3>1. PICK a \in Editor : /\ MarkDeleted(a) /\ HasItem(a)
                              /\ worker[a].pc = "removed"
                              /\ worker[a].item = x
                              /\ c = <<a[1], worker[a].cache>>
      BY <1>2, <2>2, DeletedGrows
    <3> QED
      BY <2>2, <3>1, RolesAreApps DEF SafetyInv, HeldItems
  <2>3. CASE x \in local[c] /\ x \in deleted[c]
    BY <2>3 DEF SafetyInv, Halves
  <2> QED
    BY <2>1, <2>2, <2>3
<1>3. ASSUME NEW a \in App, worker'[a].pc = "published"
      PROVE  updated'[<<a[1], worker'[a].cache>>] = {}
  <2>1. CASE worker'[a] = worker[a]
    <3>1. PICK c \in Cell : c = <<a[1], worker[a].cache>>
      BY <1>3, <2>1, AppIsPair, CellIsPair DEF TypeInv, WorkersInv
    <3>2. updated[c] = {}
      BY <1>3, <2>1, <3>1 DEF SafetyInv, Halves
    <3>3. ASSUME NEW x \in updated'[c]
          PROVE  FALSE
      <4>1. PICK b \in Editor : HasItem(b) /\ c = <<b[1], worker[b].cache>>
        BY <3>2, <3>3, UpdatedGrows
      <4>2. a \in Networker /\ a[1] = b[1]
        BY <1>3, <2>1, <3>1, <4>1 DEF SafetyInv, Roles
      <4>3. a = b
        BY <4>1, <4>2 DEF OneThread
      <4> QED
        BY <1>3, <2>1, <4>1, <4>3 DEF HasItem
    <3> QED
      BY <2>1, <3>1, <3>3
  <2>2. ASSUME NEW k \in CacheIndex, PublishUpdated(a, k), Goto(a, "published", NoItem, k)
        PROVE  updated'[<<a[1], worker'[a].cache>>] = {}
    <3>1. PICK c \in Cell : c = <<a[1], k>>
      BY AppIsPair, CellIsPair
    <3>2. updated' = [updated EXCEPT ![c] = {}]
      BY <2>2, <3>1 DEF PublishUpdated
    <3>3. worker'[a].cache = k
      BY <1>1, <2>2 DEF Goto
    <3> QED
      BY <1>1, <3>1, <3>2, <3>3
  <2>3. ASSUME NEW x, NEW k, Goto(a, "created", x, k) \/ Goto(a, "checked", x, k)
                             \/ Goto(a, "removed", x, k)
        PROVE  FALSE
    BY <1>1, <1>3, <2>3 DEF Goto
  <2> QED
    BY <1>3, <2>1, <2>2, <2>3, HoldingBegins
<1> QED
  BY <1>2, <1>3 DEF Halves

LEMMA NoFreedStep ==
  ASSUME OneThread, TypeInv, SafetyInv, [Next]_vars
  PROVE  NoFreedItem'
<1> SUFFICES ASSUME NEW c \in Cell, NEW x \in local'[c] \cup updated'[c] \cup deleted'[c],
                    x \in freed'
             PROVE  FALSE
  BY DEF NoFreedItem
<1>1. /\ local \in [Cell -> SUBSET Item]
      /\ updated \in [Cell -> SUBSET Item]
      /\ deleted \in [Cell -> SUBSET Item]
  BY DEF TypeInv, SetsInv
<1>2. CASE x \in freed
  <2>1. x \in Item /\ IsShared(x)
    BY <1>2 DEF TypeInv, DroppedInv, SafetyInv
  <2>2. x \notin local[c] \cup updated[c] \cup deleted[c]
    BY <1>2 DEF SafetyInv, NoFreedItem
  <2>3. x \notin local'[c]
    BY <2>1, <2>2, LocalGrows
  <2>4. PICK a \in Editor : HasItem(a) /\ worker[a].item = x
    BY <2>2, <2>3, UpdatedGrows, DeletedGrows
  <2> QED
    BY <1>2, <2>4, RolesAreApps DEF SafetyInv, HeldItems
<1>3. ASSUME NEW b \in Networker, PublishDeleted(b), x \notin freed
      PROVE  FALSE
  <2>1. PICK d \in Cell : d = <<b[1], worker[b].cache>>
    BY <1>3, PublishDeletedSends DEF TypeInv
  <2>2. /\ x \in deleted[d]
        /\ deleted' = [deleted EXCEPT ![d] = {}]
        /\ UNCHANGED <<local, updated>>
    BY <1>3, <2>1 DEF PublishDeleted, DeletedCleared
  <2>3. x \in local[c] \cup updated[c] \cup deleted[c]
    BY <1>1, <2>2
  <2>4. c = d
    BY <2>2, <2>3, SetsAreShared DEF TypeInv
  <2>5. updated[d] = {}
    BY <1>3, <2>1, RolesAreApps DEF PublishDeleted, At, SafetyInv, Halves
  <2>6. local[d] \cap deleted[d] = {}
    BY DEF SafetyInv, Halves
  <2> QED
    BY <1>1, <2>2, <2>4, <2>5, <2>6
<1>4. ASSUME NEW p \in Participant, DeleteEnd(p), x \notin freed
      PROVE  FALSE
  <2>1. x[1] = p /\ home[x] \in BeforeHole(p) /\ x \in local[<<p, home[x]>>]
    BY <1>4, DeleteEndFrees
  <2>2. x \in local[c] \cup updated[c] \cup deleted[c]
    BY <1>1, <1>4 DEF DeleteEnd
  <2>3. c = <<x[1], home[x]>>
    BY <2>2, SetsAreShared DEF TypeInv
  <2>4. local'[c] = {} /\ updated'[c] = {} /\ deleted'[c] = deleted[c]
    BY <1>4, <2>1, <2>3 DEF DeleteEnd
  <2>5. local[c] \cap deleted[c] = {}
    BY DEF SafetyInv, Halves
  <2> QED
    BY <2>1, <2>3, <2>4, <2>5
<1> QED
  BY <1>2, <1>3, <1>4, OnlyTheseFree

(* What is freed was shared, and stays so. *)
LEMMA FreedSharedStep ==
  ASSUME TypeInv, \A x \in freed : IsShared(x), [Next]_vars
  PROVE  \A x \in freed' : IsShared(x)'
<1>1. ASSUME NEW x \in freed'
      PROVE  x \in Item /\ IsShared(x)
  <2>1. CASE x \in freed
    BY <2>1 DEF TypeInv, DroppedInv
  <2>2. ASSUME NEW b \in Networker, PublishDeleted(b), x \notin freed
        PROVE  x \in Item /\ IsShared(x)
    <3>1. PICK d \in Cell : d = <<b[1], worker[b].cache>>
      BY <2>2, PublishDeletedSends DEF TypeInv
    <3>2. x \in deleted[d]
      BY <1>1, <2>2, <3>1 DEF PublishDeleted
    <3> QED
      BY <3>2, SetsAreShared DEF TypeInv
  <2>3. ASSUME NEW p \in Participant, DeleteEnd(p), x \notin freed
        PROVE  x \in Item /\ IsShared(x)
    BY <1>1, <2>3, DeleteEndFrees
  <2> QED
    BY <1>1, <2>1, <2>2, <2>3, OnlyTheseFree
<1> QED
  BY <1>1, SharedKept DEF TypeInv

LEMMA SafetyStep ==
  ASSUME OneThread
  PROVE  TypeInv /\ SafetyInv /\ [Next]_vars => SafetyInv'
<1> SUFFICES ASSUME TypeInv, SafetyInv, [Next]_vars
             PROVE  SafetyInv'
  OBVIOUS
<1>1. Roles' /\ HeldItems' /\ Halves' /\ NoFreedItem'
  BY RolesStep, HeldStep, HalvesStep, NoFreedStep DEF SafetyInv
<1>2. (\A x \in freed : IsShared(x))'
  BY FreedSharedStep DEF SafetyInv
<1> QED
  BY <1>1, <1>2 DEF SafetyInv

(***************************************************************************)
(* When each cache is used by one thread, what has been freed is in none   *)
(* of its sets, whatever sends fail and whatever sets are full.            *)
(***************************************************************************)
THEOREM NothingFreedIsLeft ==
  ASSUME OneThread
  PROVE  Spec => []NoFreedItem
<1>1. SafetyInv => NoFreedItem
  BY DEF SafetyInv
<1>2. TypeInv /\ SafetyInv /\ [Next]_vars => SafetyInv'
  BY SafetyStep
<1> QED
  BY <1>1, <1>2, TypesKept, SafetyInit, PTL DEF Spec

=============================================================================
