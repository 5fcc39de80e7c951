--------------------------- MODULE CCollections ---------------------------
(***************************************************************************)
(* collMap, collSet and collList (Map.c, Set.c, List.c) built with         *)
(* STATIC_ALLOCATION: arrays of bounded size, kept in order by qsort and   *)
(* searched by bsearch with a comparator.  The comparator is that of the   *)
(* GUIDs (GUID.c), the sign of a difference of unsigned integers: it wraps *)
(* around, and orders keys only as long as they are less than half of the  *)
(* range of the integers apart.                                            *)
(*                                                                         *)
(* Left out: collSet_contains, which answers the contrary of what it       *)
(* found, and collList_indexOf, which does not end unless the first item   *)
(* is the one sought; nothing calls them.                                  *)
(***************************************************************************)
EXTENDS Integers, Sequences, FiniteSets, CLibrary
LOCAL INSTANCE SequencesExt

CONSTANTS
  Half,        \* half of the number of unsigned integers
  CollKey,     \* keys of the map and items of the set
  CollValue,   \* values of the map
  NoValue,     \* NULL
  CollItem,    \* items of the list
  CollLimit    \* collMap_ITEM_MAX_COUNT, collSet_ and collList_ alike

ASSUME CCollectionsAssumption ==
  /\ Half \in Nat \ {0}
  /\ CollKey \subseteq 0 .. 2 * Half - 1
  /\ CollLimit \in Nat \ {0}

VARIABLES
  pairs,      \* collMapImpl.pairs, up to count
  setItems,   \* collSetImpl.items, up to count
  listItems,  \* collListImpl.items, up to count
  reply       \* the last call, its status and its result

collVars == <<pairs, setItems, listItems, reply>>

Reply(call, status, value) ==
  reply' = [call |-> call, status |-> status, value |-> value]

CCollectionsInit ==
  /\ pairs = <<>>
  /\ setItems = <<>>
  /\ listItems = <<>>
  /\ reply = [call |-> <<>>, status |-> "NO_ERROR", value |-> NoValue]

(* dcrudGUID_compareTo: (int)( left - right ), both of them unsigned. *)
Compare(l, r) ==
  LET difference == (l - r) % (2 * Half)
  IN  IF difference < Half THEN difference ELSE difference - 2 * Half

(***************************************************************************)
(* The keys for which the comparator is an order: counted from one of the  *)
(* integers, round the end of their range, they lie in half of the range.  *)
(***************************************************************************)
Place(first, k) == (k - first) % (2 * Half)

KeysTogether ==
  \E first \in 0 .. 2 * Half - 1 : \A k \in CollKey : Place(first, k) < Half

(* bsearch() for a key in an array of keys: its index, or 0. *)
Bsearch(k, keys) == Bisection([i \in DOMAIN keys |-> Compare(k, keys[i])])

(* Where qsort() moves the key that was put at the end of a sorted array. *)
Rank(k, keys) == 1 + Cardinality({i \in DOMAIN keys : Compare(keys[i], k) < 0})

Keys == [i \in DOMAIN pairs |-> pairs[i].key]

-----------------------------------------------------------------------------
(* collMap_put *)
CollMapPut(k, v) ==
  LET i == Bsearch(k, Keys) IN
  /\ i = 0 => Len(pairs) < CollLimit
  /\ pairs' = IF i > 0 THEN [pairs EXCEPT ![i].value = v]
              ELSE InsertAt(pairs, Rank(k, Keys), [key |-> k, value |-> v])
  /\ Reply(<<"map", k>>, "NO_ERROR", IF i > 0 THEN pairs[i].value ELSE NoValue)
  /\ UNCHANGED <<setItems, listItems>>

(* The memmove() of a removal, and one that forgets the last cell. *)
MovedShort(s, i) == SubSeq(RemoveAt(s, i), 1, Len(s) - 2)
Moved(s, i)      == RemoveAt(s, i)

CollMapRemove(k) ==
  LET i == Bsearch(k, Keys) IN
  /\ i > 0
  /\ pairs' = Moved(pairs, i)
  /\ Reply(<<"map", k>>, "NO_ERROR", pairs[i].value)
  /\ UNCHANGED <<setItems, listItems>>

CollMapGet(k) ==
  /\ Bsearch(k, Keys) > 0
  /\ Reply(<<"map", k>>, "NO_ERROR", pairs[Bsearch(k, Keys)].value)
  /\ UNCHANGED <<pairs, setItems, listItems>>

(* collMap_hasKey: a key bound to NULL is none, and no error is returned. *)
CollMapHasKey(k) ==
  LET i == Bsearch(k, Keys) IN
  /\ Reply(<<"map", k>>, "NO_ERROR", i > 0 /\ pairs[i].value # NoValue)
  /\ UNCHANGED <<pairs, setItems, listItems>>

CollSetAdd(x) ==
  /\ Bsearch(x, setItems) = 0
  /\ Len(setItems) < CollLimit
  /\ setItems' = InsertAt(setItems, Rank(x, setItems), x)
  /\ Reply(<<"set", x>>, "NO_ERROR", NoValue)
  /\ UNCHANGED <<pairs, listItems>>

CollSetRemove(x) ==
  LET i == Bsearch(x, setItems) IN
  /\ i > 0
  /\ setItems' = Moved(setItems, i)
  /\ Reply(<<"set", x>>, "NO_ERROR", NoValue)
  /\ UNCHANGED <<pairs, listItems>>

CollListAdd(x) ==
  /\ Len(listItems) < CollLimit
  /\ listItems' = Append(listItems, x)
  /\ Reply(<<"list", x>>, "NO_ERROR", NoValue)
  /\ UNCHANGED <<pairs, setItems>>

(* collList_remove: the walk stops at the first item that is the same. *)
CollListRemove(x) ==
  /\ Contains(listItems, x)
  /\ listItems' = Moved(listItems, SelectInSeq(listItems, LAMBDA y : y = x))
  /\ Reply(<<"list", x>>, "NO_ERROR", NoValue)
  /\ UNCHANGED <<pairs, setItems>>

(* collList_get, whose index counts from 0. *)
CollListGet(index) ==
  /\ index < Len(listItems)
  /\ Reply(<<"index", index + 1>>, "NO_ERROR", listItems[index + 1])
  /\ UNCHANGED <<pairs, setItems, listItems>>

CollClear ==
  /\ \/ pairs' = <<>> /\ UNCHANGED <<setItems, listItems>>
     \/ setItems' = <<>> /\ UNCHANGED <<pairs, listItems>>
     \/ listItems' = <<>> /\ UNCHANGED <<pairs, setItems>>
  /\ Reply(<<"clear">>, "NO_ERROR", NoValue)

-----------------------------------------------------------------------------
(* The calls that fail, and their status. *)
CollFull(k, x) ==
  /\ \/ /\ Bsearch(k, Keys) = 0
        /\ Len(pairs) = CollLimit
        /\ Reply(<<"map", k>>, "TOO_MANY", NoValue)
     \/ /\ Bsearch(k, setItems) = 0
        /\ Len(setItems) = CollLimit
        /\ Reply(<<"set", k>>, "TOO_MANY", NoValue)
     \/ Len(listItems) = CollLimit /\ Reply(<<"list", x>>, "TOO_MANY", NoValue)
  /\ UNCHANGED <<pairs, setItems, listItems>>

CollNotFound(k, x) ==
  /\ \/ Bsearch(k, Keys) = 0 /\ Reply(<<"map", k>>, "NOT_FOUND", NoValue)
     \/ Bsearch(k, setItems) = 0 /\ Reply(<<"set", k>>, "NOT_FOUND", NoValue)
     \/ ~ Contains(listItems, x) /\ Reply(<<"list", x>>, "NOT_FOUND", NoValue)
  /\ UNCHANGED <<pairs, setItems, listItems>>

CollDuplicate(k) ==
  /\ Bsearch(k, setItems) > 0
  /\ Reply(<<"set", k>>, "DUPLICATE", NoValue)
  /\ UNCHANGED <<pairs, setItems, listItems>>

CollOutOfRange(index) ==
  /\ index >= Len(listItems)
  /\ Reply(<<"index", index + 1>>, "OUT_OF_RANGE", NoValue)
  /\ UNCHANGED <<pairs, setItems, listItems>>

CCollectionsNext ==
  \/ \E k \in CollKey, v \in CollValue \cup {NoValue} : CollMapPut(k, v)
  \/ \E k \in CollKey : CollMapRemove(k)
  \/ \E k \in CollKey : CollMapGet(k)
  \/ \E k \in CollKey : CollMapHasKey(k)
  \/ \E k \in CollKey : CollSetAdd(k)
  \/ \E k \in CollKey : CollSetRemove(k)
  \/ \E x \in CollItem : CollListAdd(x)
  \/ \E x \in CollItem : CollListRemove(x)
  \/ \E i \in 0 .. CollLimit - 1 : CollListGet(i)
  \/ \E i \in 0 .. CollLimit - 1 : CollOutOfRange(i)
  \/ \E k \in CollKey, x \in CollItem : CollFull(k, x)
  \/ \E k \in CollKey, x \in CollItem : CollNotFound(k, x)
  \/ \E k \in CollKey : CollDuplicate(k)
  \/ CollClear

CCollectionsSpec == CCollectionsInit /\ [][CCollectionsNext]_collVars

-----------------------------------------------------------------------------
(* The function that the array of pairs stands for. *)
Mapping ==
  [k \in {pairs[i].key : i \in DOMAIN pairs} |->
     pairs[CHOOSE i \in DOMAIN pairs : pairs[i].key = k].value]

Abstract == INSTANCE Collections WITH
  MapKey <- CollKey, MapValue <- CollValue, NullValue <- NoValue,
  ListItem <- CollItem, Room <- CollLimit,
  mapping <- Mapping,
  members <- ToSet(setItems),
  sequence <- listItems,
  answer <- reply

(***************************************************************************)
(* The sorted arrays behave as a function, a set and a sequence: in every  *)
(* order of calls a key is found exactly when it was put and not removed,  *)
(* with the value put last, a removal takes away what it was asked and     *)
(* nothing else, and a call fails only for the reason it gives.            *)
(***************************************************************************)
CollectionsImplemented == Abstract!CollectionsSpec
=============================================================================
