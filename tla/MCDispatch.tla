----------------------------- MODULE MCDispatch -----------------------------
(***************************************************************************)
(* An instance of Dispatch for TLC.  Nothing is ordered here, so processes *)
(* are interchangeable too.                                                *)
(***************************************************************************)
EXTENDS Dispatch, TLC

Symmetry == Permutations(Harts) \cup Permutations(Idles) \cup Permutations(Procs)
=============================================================================
