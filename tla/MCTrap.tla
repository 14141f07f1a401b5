------------------------------- MODULE MCTrap -------------------------------
(***************************************************************************)
(* An instance of Trap for TLC: CPUs and tasks are interchangeable.        *)
(***************************************************************************)
EXTENDS Trap, TLC

Symmetry == Permutations(Harts) \cup Permutations(Tasks)
=============================================================================
