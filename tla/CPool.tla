------------------------------- MODULE CPool -------------------------------
(***************************************************************************)
(* The object pools of the C implementation built with STATIC_ALLOCATION   *)
(* (Pool.c) as the strings use them (String.c): a pool for each size, the  *)
(* cells of a pool with their reference counts, and the counters that      *)
(* utilPool_dumpAll shows.                                                 *)
(*                                                                         *)
(* No lock protects a pool.  The holders below are the variables of one    *)
(* thread, whose calls follow one another; two threads may both find a     *)
(* cell free and share it, which nothing in this module rules out.         *)
(***************************************************************************)
EXTENDS Integers, FiniteSets, Sequences
LOCAL INSTANCE FiniteSetsExt

CONSTANTS
  Holder,      \* the pointers of the thread
  SizeClass,   \* the sizes below which each string pool serves, ascending
  PoolSize,    \* cells of a pool
  MaxReserve   \* bound on the strings ever asked of a pool

Pool == DOMAIN SizeClass
Cell == Pool \X (1 .. PoolSize)
Null == <<>>

ASSUME CPoolAssumption ==
  /\ PoolSize \in Nat \ {0}
  /\ SizeClass \in Seq(Nat \ {0})
  /\ MaxReserve \in Nat

VARIABLES
  poolInit,      \* <T>PoolInit: the pool has not been set up yet
  refCount,      \* utilPoolEntry.refCount
  poolCounters,  \* PoolMapEntry: reserveCount, releaseCount, reservePeak
  pointer,       \* the cell each pointer refers to
  asked          \* history: the size each pointer was allocated for

poolVars == <<poolInit, refCount, poolCounters, pointer, asked>>

CPoolInit ==
  /\ poolInit = [p \in Pool |-> TRUE]
  /\ refCount = [c \in Cell |-> 0]
  /\ poolCounters = [p \in Pool |-> [reserve |-> 0, release |-> 0, peak |-> 0]]
  /\ pointer = [h \in Holder |-> Null]
  /\ asked = [h \in Holder |-> 0]

-----------------------------------------------------------------------------
(* utilString_new: the pool that serves a size, if any does. *)
ClassesFor(size) == {p \in Pool : size < SizeClass[p]}

FreeCells(p) == {c \in Cell : c[1] = p /\ refCount[c] = 0}

(* incrementUseOf *)
Reserved(k) ==
  [k EXCEPT !.reserve = @ + 1,
            !.peak = IF k.reserve + 1 - k.release > @ THEN k.reserve + 1 - k.release
                     ELSE @]

(* decrementUseOf, which utilPool_release calls when the count reaches 0; *)
(* and a form that counts whatever is released.                           *)
ReleasedAlways(k, count) == [k EXCEPT !.release = @ + 1]
Released(k, count) == IF count = 0 THEN [k EXCEPT !.release = @ + 1] ELSE k

(***************************************************************************)
(* utilString_new and utilPool_reserve: the first free cell of the pool    *)
(* for that size, which is set up when it is used for the first time.      *)
(***************************************************************************)
StringNew(h, size) ==
  /\ pointer[h] = Null
  /\ ClassesFor(size) # {}
  /\ LET p == Min(ClassesFor(size)) IN
     /\ poolCounters[p].reserve < MaxReserve
     /\ FreeCells(p) # {}
     /\ LET c == <<p, Min({d[2] : d \in FreeCells(p)})>> IN
        /\ refCount' = [refCount EXCEPT ![c] = @ + 1]
        /\ pointer' = [pointer EXCEPT ![h] = c]
     /\ poolCounters' = [poolCounters EXCEPT ![p] = Reserved(@)]
     /\ poolInit' = [poolInit EXCEPT ![p] = FALSE]
  /\ asked' = [asked EXCEPT ![h] = size]

(* No pool for that size, or no cell left: larger pools are not tried. *)
StringNewFails(h, size) ==
  /\ pointer[h] = Null
  /\ \/ ClassesFor(size) = {} /\ UNCHANGED poolInit
     \/ /\ ClassesFor(size) # {}
        /\ FreeCells(Min(ClassesFor(size))) = {}
        /\ poolInit' = [poolInit EXCEPT ![Min(ClassesFor(size))] = FALSE]
  /\ UNCHANGED <<refCount, poolCounters, pointer, asked>>

(* utilPool_addReferenceTo, by a second pointer to the same cell. *)
AddReferenceTo(h, g) ==
  /\ pointer[h] = Null
  /\ pointer[g] # Null
  /\ refCount' = [refCount EXCEPT ![pointer[g]] = @ + 1]
  /\ pointer' = [pointer EXCEPT ![h] = pointer[g]]
  /\ asked' = [asked EXCEPT ![h] = asked[g]]
  /\ UNCHANGED <<poolInit, poolCounters>>

(***************************************************************************)
(* utilString_delete and utilPool_release: the pools are tried in turn, so *)
(* the cell is given back to its own.  The holder is done with it, though  *)
(* the code nulls the pointer only when the count reaches 0.               *)
(***************************************************************************)
StringDelete(h) ==
  LET c == pointer[h] IN
  /\ c # Null
  /\ refCount[c] > 0
  /\ refCount' = [refCount EXCEPT ![c] = @ - 1]
  /\ poolCounters' = [poolCounters EXCEPT ![c[1]] = Released(@, refCount[c] - 1)]
  /\ pointer' = [pointer EXCEPT ![h] = Null]
  /\ asked' = [asked EXCEPT ![h] = 0]
  /\ UNCHANGED poolInit

CPoolNext ==
  \/ \E h \in Holder, size \in 0 .. SizeClass[Len(SizeClass)] : StringNew(h, size)
  \/ \E h \in Holder, size \in 0 .. SizeClass[Len(SizeClass)] : StringNewFails(h, size)
  \/ \E h, g \in Holder : AddReferenceTo(h, g)
  \/ \E h \in Holder : StringDelete(h)

CPoolSpec == CPoolInit /\ [][CPoolNext]_poolVars

-----------------------------------------------------------------------------
(***************************************************************************)
(* The books of every pool balance, whatever was reserved, shared, refused *)
(* and released: a cell's count is the number of pointers to it, what      *)
(* utilPool_dumpAll computes from its counters is the number of cells in   *)
(* use, no more than its peak, and a string fits the cell it was given.    *)
(***************************************************************************)
PoolAccounts ==
  /\ \A c \in Cell : refCount[c] = Cardinality({h \in Holder : pointer[h] = c})
  /\ \A p \in Pool :
       LET used == Cardinality({c \in Cell : c[1] = p /\ refCount[c] > 0}) IN
       /\ poolCounters[p].reserve - poolCounters[p].release = used
       /\ used <= poolCounters[p].peak
       /\ poolCounters[p].peak <= PoolSize
  /\ \A h \in Holder : pointer[h] # Null => asked[h] < SizeClass[pointer[h][1]]
=============================================================================
