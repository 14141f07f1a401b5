------------------------------ MODULE MCMemory ------------------------------
(***************************************************************************)
(* Instances of Memory for TLC.  ASID_USER | slot is ASID_USER itself for  *)
(* slot 0; slots 1 and 2 have disjoint bits, those of slot 1 are a subset  *)
(* of those of slot 3.                                                     *)
(***************************************************************************)
EXTENDS Memory, TLC

AsidOf == [p \in Procs |-> {"user"} \cup (IF p % 2 = 1 THEN {"bit0"} ELSE {})
                                    \cup (IF p > 1 THEN {"bit1"} ELSE {})]

Symmetry == Permutations(Harts)
=============================================================================
