-------------------------- MODULE RemoteOperations --------------------------
(***************************************************************************)
(* What a dispatcher promises to the participants that call each other's   *)
(* operations, in Java and in C alike: only calls that another participant *)
(* has issued are executed, each at most once; those that one issuer sent  *)
(* through one lane are executed in the order it issued them; and answers  *)
(* are those of executions.                                                *)
(*                                                                         *)
(* Nothing says that a call is executed: the network may lose it.  A lane  *)
(* is what the code calls a queue; a call that goes through none, because  *)
(* it is executed as it arrives, is in order with no other.                *)
(***************************************************************************)
EXTENDS Integers, Sequences

CONSTANTS
  Participant,  \* the processes that call each other
  Lane          \* the queues of each of them, as positive numbers

Unordered == 0

VARIABLES
  lanes,    \* the lane of each call that a participant issued, in order
  done,     \* the calls <<issuer, number>> each participant executed, in order
  answered  \* the calls whose answers were handed over at each participant

ops == <<lanes, done, answered>>

Init ==
  /\ lanes = [p \in Participant |-> <<>>]
  /\ done = [p \in Participant |-> <<>>]
  /\ answered = [p \in Participant |-> {}]

DoneBy(q) == {done[q][i] : i \in 1 .. Len(done[q])}

LaneOf(r) == lanes[r[1]][r[2]]

SameLane(r, s) == r[1] = s[1] /\ LaneOf(r) = LaneOf(s) /\ LaneOf(r) # Unordered

Issue(p, lane) ==
  /\ lanes' = [lanes EXCEPT ![p] = Append(@, lane)]
  /\ UNCHANGED <<done, answered>>

Execute(q, r) ==
  /\ r \notin DoneBy(q)
  /\ \A s \in DoneBy(q) : SameLane(s, r) => s[2] < r[2]
  /\ done' = [done EXCEPT ![q] = Append(@, r)]
  /\ UNCHANGED <<lanes, answered>>

HandOver(p, r) ==
  /\ answered' = [answered EXCEPT ![p] = @ \cup {r}]
  /\ UNCHANGED <<lanes, done>>

Next ==
  \/ \E p \in Participant, lane \in Lane \cup {Unordered} : Issue(p, lane)
  \/ \E q \in Participant : \E p \in Participant \ {q} :
       \E i \in 1 .. Len(lanes[p]) : Execute(q, <<p, i>>)
  \/ \E p \in Participant : \E q \in Participant \ {p} :
       \E r \in DoneBy(q) : HandOver(p, r)

Spec == Init /\ [][Next]_ops
=============================================================================
