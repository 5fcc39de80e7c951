------------------------------ MODULE MCCalls ------------------------------
(***************************************************************************)
(* Instances of Calls for TLC.  The interface "monitor" is the one of the  *)
(* demonstration programs, "exit" its operation; "crud" is the interface   *)
(* of remote CRUD requests.                                                *)
(***************************************************************************)
EXTENDS Calls, TLC

CONSTANTS p1, p2, main

Interfaces == {"crud", "monitor", "absent"}
Operations == {"exit", "create"}

Exit == <<"monitor", "exit">>

Servers == [p \in Participant |-> {"monitor"}]
Serves  == [p \in Participant |-> {Exit}]

(* One server only: p2, which also publishes the class of CRUD requests. *)
Server2   == [p \in Participant |-> IF p = p2 THEN {"monitor"} ELSE {}]
ServesAll == [p \in Participant |->
                IF p = p2 THEN {Exit, <<"crud", "create">>} ELSE {}]

ExitOnly == {Exit}
AnyCall  == {Exit, <<"monitor", "create">>, <<"absent", "exit">>,
             <<"crud", "create">>}

Main   == Participant \X {main}
Main1  == {<<p1, main>>}
Main2  == {<<p2, main>>}
=============================================================================
