---------------------------- MODULE Collections ----------------------------
(***************************************************************************)
(* What a bounded map, a bounded set and a bounded list promise to the     *)
(* components that use them: a function, a set and a sequence, and the     *)
(* answer of the last call.                                                *)
(***************************************************************************)
EXTENDS Integers, Sequences, FiniteSets

CONSTANTS MapKey, MapValue, NullValue, ListItem, Room

VARIABLES mapping, members, sequence, answer

Answered(call, status, value) ==
  answer' = [call |-> call, status |-> status, value |-> value]

CollectionsInit ==
  /\ mapping = <<>>
  /\ members = {}
  /\ sequence = <<>>
  /\ answer = [call |-> <<>>, status |-> "NO_ERROR", value |-> NullValue]

MapPut(k, v) ==
  /\ k \in DOMAIN mapping \/ Cardinality(DOMAIN mapping) < Room
  /\ mapping' = [x \in DOMAIN mapping \cup {k} |-> IF x = k THEN v ELSE mapping[x]]
  /\ Answered(<<"map", k>>, "NO_ERROR", IF k \in DOMAIN mapping THEN mapping[k] ELSE NullValue)
  /\ UNCHANGED <<members, sequence>>

MapRemove(k) ==
  /\ k \in DOMAIN mapping
  /\ mapping' = [x \in DOMAIN mapping \ {k} |-> mapping[x]]
  /\ Answered(<<"map", k>>, "NO_ERROR", mapping[k])
  /\ UNCHANGED <<members, sequence>>

MapGet(k) ==
  /\ k \in DOMAIN mapping
  /\ Answered(<<"map", k>>, "NO_ERROR", mapping[k])
  /\ UNCHANGED <<mapping, members, sequence>>

(* hasKey answers for keys that are bound to something. *)
MapHasKey(k) ==
  /\ Answered(<<"map", k>>, "NO_ERROR", k \in DOMAIN mapping /\ mapping[k] # NullValue)
  /\ UNCHANGED <<mapping, members, sequence>>

SetAdd(x) ==
  /\ x \notin members
  /\ Cardinality(members) < Room
  /\ members' = members \cup {x}
  /\ Answered(<<"set", x>>, "NO_ERROR", NullValue)
  /\ UNCHANGED <<mapping, sequence>>

SetRemove(x) ==
  /\ x \in members
  /\ members' = members \ {x}
  /\ Answered(<<"set", x>>, "NO_ERROR", NullValue)
  /\ UNCHANGED <<mapping, sequence>>

ListAdd(x) ==
  /\ Len(sequence) < Room
  /\ sequence' = Append(sequence, x)
  /\ Answered(<<"list", x>>, "NO_ERROR", NullValue)
  /\ UNCHANGED <<mapping, members>>

(* The first occurrence goes, the others keep their order. *)
ListRemove(x) ==
  /\ \E i \in DOMAIN sequence :
       /\ sequence[i] = x
       /\ \A j \in 1 .. i - 1 : sequence[j] # x
       /\ sequence' = SubSeq(sequence, 1, i - 1) \o
                      SubSeq(sequence, i + 1, Len(sequence))
  /\ Answered(<<"list", x>>, "NO_ERROR", NullValue)
  /\ UNCHANGED <<mapping, members>>

ListGet(i) ==
  /\ i \in DOMAIN sequence
  /\ Answered(<<"index", i>>, "NO_ERROR", sequence[i])
  /\ UNCHANGED <<mapping, members, sequence>>

Clear ==
  /\ \/ mapping' = <<>> /\ UNCHANGED <<members, sequence>>
     \/ members' = {} /\ UNCHANGED <<mapping, sequence>>
     \/ sequence' = <<>> /\ UNCHANGED <<mapping, members>>
  /\ Answered(<<"clear">>, "NO_ERROR", NullValue)

(* A call is refused for its own reason, and changes nothing. *)
Refuse ==
  /\ \/ \E k \in MapKey :
          \/ k \notin DOMAIN mapping /\ Answered(<<"map", k>>, "NOT_FOUND", NullValue)
          \/ k \notin members /\ Answered(<<"set", k>>, "NOT_FOUND", NullValue)
          \/ k \in members /\ Answered(<<"set", k>>, "DUPLICATE", NullValue)
          \/ /\ k \notin DOMAIN mapping
             /\ Cardinality(DOMAIN mapping) = Room
             /\ Answered(<<"map", k>>, "TOO_MANY", NullValue)
          \/ /\ k \notin members
             /\ Cardinality(members) = Room
             /\ Answered(<<"set", k>>, "TOO_MANY", NullValue)
     \/ \E x \in ListItem :
          \/ /\ \A i \in DOMAIN sequence : sequence[i] # x
             /\ Answered(<<"list", x>>, "NOT_FOUND", NullValue)
          \/ Len(sequence) = Room /\ Answered(<<"list", x>>, "TOO_MANY", NullValue)
     \/ \E i \in 1 .. Room :
          i \notin DOMAIN sequence /\ Answered(<<"index", i>>, "OUT_OF_RANGE", NullValue)
  /\ UNCHANGED <<mapping, members, sequence>>

CollectionsNext ==
  \/ \E k \in MapKey, v \in MapValue \cup {NullValue} : MapPut(k, v)
  \/ \E k \in MapKey : MapRemove(k) \/ MapGet(k) \/ MapHasKey(k)
  \/ \E x \in MapKey : SetAdd(x) \/ SetRemove(x)
  \/ \E x \in ListItem : ListAdd(x) \/ ListRemove(x)
  \/ \E i \in 1 .. Room : ListGet(i)
  \/ Clear
  \/ Refuse

CollectionsSpec ==
  CollectionsInit /\ [][CollectionsNext]_<<mapping, members, sequence, answer>>
=============================================================================
