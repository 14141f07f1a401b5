------------------------------- MODULE MCKernel -------------------------------
(***************************************************************************)
(* Instances of Kernel for TLC.                                            *)
(***************************************************************************)
EXTENDS KernelProps

CONSTANTS NumTask, NumLock, NumCond, NumBar, MaxGoal

ProcSet == 0..NumTask-1
LockSet == 0..NumLock-1
CondSet == 0..NumCond-1
BarSet  == 0..NumBar-1
GoalSet == 1..MaxGoal

\* The CPUs are interchangeable, and so are the idle tasks.
Symmetry == Permutations(Harts) \cup Permutations(Idles)
===============================================================================
