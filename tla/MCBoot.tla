------------------------------- MODULE MCBoot -------------------------------
(***************************************************************************)
(* Bounds for TLC: sectors of 4 bytes, pages of 4 sectors.  Kernels and    *)
(* tasks begin and end before, at and behind the boundaries of sectors.    *)
(***************************************************************************)
EXTENDS Boot

Seg(f, m) == [filesz |-> f, memsz |-> m]

KernelSet  == {<<Seg(3, 4)>>, <<Seg(4, 4), Seg(1, 9)>>}
ProgramSet == {<<Seg(1, 1)>>, <<Seg(2, 2), Seg(2, 3)>>, <<Seg(3, 18)>>, <<Seg(4, 4), Seg(3, 9)>>}

\* and one with bss in the middle, which create_image does not lay out
AnyProgramSet == ProgramSet \cup {<<Seg(1, 2), Seg(2, 2)>>}
=============================================================================
