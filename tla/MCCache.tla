------------------------------ MODULE MCCache ------------------------------
(***************************************************************************)
(* Instances of Cache for TLC: two participants p1 and p2, of which only   *)
(* p1 creates items.  "ui" and "timer" name the threads of ShapesUI: the   *)
(* user interface edits, the timer publishes and refreshes.                *)
(***************************************************************************)
EXTENDS Cache, TLC

CONSTANTS p1, p2, ui, timer

OneCache  == {0}
TwoCaches == {0, 1}

UI1  == {<<p1, ui>>}
UI   == {<<p1, ui>>, <<p2, ui>>}
Net2 == {<<p1, timer>>, <<p2, ui>>}
=============================================================================
