--------------------------- MODULE AddressSpaces ----------------------------
(***************************************************************************)
(* What paging promises to user programs: every process has a memory of    *)
(* its own, which holds its image when it starts and changes only by its   *)
(* own stores.  Page frames, swapping and other processes do not show.     *)
(***************************************************************************)
CONSTANTS Procs, Pages,
          Image,   \* the pages that are not zero when a process starts
          Gone     \* the memory of a process that does not exist

VARIABLE mem

Init == mem = [p \in Procs |-> Gone]

Written(p, v) == <<p, v>>
Zero == <<>>

Exec(p) ==
  /\ mem[p] = Gone
  /\ mem' = [mem EXCEPT ![p] = [v \in Pages |-> IF v \in Image THEN Written(p, v) ELSE Zero]]

Exit(p) == mem[p] # Gone /\ mem' = [mem EXCEPT ![p] = Gone]

Store(p, v) == mem[p] # Gone /\ mem' = [mem EXCEPT ![p][v] = Written(p, v)]

Next == \E p \in Procs : Exec(p) \/ Exit(p) \/ \E v \in Pages : Store(p, v)

Spec == Init /\ [][Next]_mem
=============================================================================
