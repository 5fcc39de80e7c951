------------------------------ MODULE CLibrary ------------------------------
(***************************************************************************)
(* bsearch() of the C library, which the C code searches its sorted arrays *)
(* with.                                                                   *)
(***************************************************************************)
EXTENDS Integers, Sequences

(***************************************************************************)
(* The index of a cell that the comparator finds equal to the key, or 0.   *)
(* A sign is what the comparator returns for the key and a cell: negative  *)
(* if the key comes before it.                                             *)
(***************************************************************************)
Bisection(signs) ==
  LET found[r \in (1 .. Len(signs) + 1) \X (0 .. Len(signs))] ==
        LET middle == (r[1] + r[2]) \div 2 IN
        IF r[1] > r[2] THEN 0
        ELSE IF signs[middle] = 0 THEN middle
        ELSE IF signs[middle] < 0 THEN found[<<r[1], middle - 1>>]
        ELSE found[<<middle + 1, r[2]>>]
  IN  found[<<1, Len(signs)>>]
=============================================================================
