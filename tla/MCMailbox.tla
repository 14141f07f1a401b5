----------------------------- MODULE MCMailbox ------------------------------
(***************************************************************************)
(* Instances of Mailbox for TLC: three threads of one process, each with a *)
(* buffer of its own, or processes whose buffers are at the same address   *)
(* of different address spaces.                                            *)
(***************************************************************************)
EXTENDS Mailbox, TLC

OneSpace == [p \in Procs |-> "space"]
EachItself == [p \in Procs |-> p]
SameAddress == [p \in Procs |-> "buf"]

Symmetry == Permutations(Procs)
=============================================================================
