------------------------------ MODULE MCCNode ------------------------------
(***************************************************************************)
(* Instances of CNode for TLC: p1 is the publisher of the C tests, with    *)
(* one thread, p2 the subscriber.                                          *)
(***************************************************************************)
EXTENDS CNode, TLC

CONSTANTS p1, p2, main

Publisher  == {<<p1, main>>}
Subscriber == {<<p2, main>>}
=============================================================================
