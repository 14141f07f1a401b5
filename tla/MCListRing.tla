----------------------------- MODULE MCListRing -----------------------------
(***************************************************************************)
(* An instance of ListRing for TLC: nodes are interchangeable.             *)
(***************************************************************************)
EXTENDS ListRing, TLC

Symmetry == Permutations(Nodes)
=============================================================================
