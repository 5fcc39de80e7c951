--------------------------- MODULE MCCDispatcher ---------------------------
(***************************************************************************)
(* Instances of CDispatcher for TLC: p1 calls, p2 provides the interface   *)
(* "monitor" of the demonstration programs with its operation "exit", and  *)
(* publishes a class of CRUD requests.                                     *)
(***************************************************************************)
EXTENDS CDispatcher, TLC

CONSTANTS p1, p2, main

Interfaces == {"crud", "monitor", "absent"}
Operations == {"exit", "create"}

Exit   == <<"monitor", "exit">>
Create == <<"crud", "create">>

Provider == [p \in Participant |-> IF p = p2 THEN {"monitor"} ELSE {}]
Services == [p \in Participant |-> IF p = p2 THEN {Exit} ELSE {}]

(* Every mode, two queues, with and without a callback, and the calls that *)
(* nobody answers.                                                         *)
AnyCall == {
  <<Exit, "deferred", 1, FALSE>>,
  <<Exit, "deferred", 2, TRUE>>,
  <<Exit, "immediate", 1, TRUE>>,
  <<Exit, "immediate", 2, FALSE>>,
  <<Exit, "synchronous", 1, TRUE>>,
  <<Create, "deferred", 2, FALSE>>,
  <<<<"monitor", "create">>, "deferred", 1, FALSE>>,
  <<<<"absent", "exit">>, "deferred", 1, FALSE>>}

(* What the handling of requests must get through. *)
QueuedCalls == {
  <<Exit, "deferred", 2, TRUE>>,
  <<Exit, "immediate", 1, FALSE>>,
  <<Create, "deferred", 2, FALSE>>}

Main1 == {<<p1, main>>}
Main2 == {<<p2, main>>}
=============================================================================
