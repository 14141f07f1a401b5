------------------------------- MODULE Memory -------------------------------
(***************************************************************************)
(* Page frames, page tables and swap (kernel/mm/mm.c), the page fault      *)
(* handlers (kernel/irq/irq.c) and the calls that build and free a process *)
(* (do_exec, do_kill_all, do_scheduler), on several CPUs.                  *)
(*                                                                         *)
(* An asid and the flags of a frame are one byte in the code and a set of  *)
(* its bits here: 0 is {}, a test (x & asid) == asid is asid \subseteq x.  *)
(* A process has one page table of one level.  A sector is written once    *)
(* (sec_ptr only grows), so a swap entry holds the page itself.  A trap is *)
(* taken before the kernel lock: fault[h] is the page CPU h has faulted on *)
(* and not handled yet.  An operator X_y that precedes X is X with a bug.  *)
(***************************************************************************)
EXTENDS Integers, FiniteSetsExt, SequencesExt

CONSTANTS
  Harts, Procs,            \* Procs are slots of pcb[]
  Asid,                    \* pcb[].asid, a set of bits
  KernelBit, AccessedBit,  \* KERNEL_PAGE and MAP_PAGE_ACCESSED
  Pages, ImagePages, StackPage,
  MEM_PAGE_NUM, PGT_PAGE_NUM, SWAP_INFO_NUM,
  MaxExecs,                \* bound: processes started
  Idle, Unmapped, None,
  UseTLB,                  \* do CPUs cache translations?
  ZombieRuns,              \* may a process be killed while a CPU runs it?
  ThreadExits,             \* may one thread of a process exit?
  ExecEvictsItself         \* may do_exec swap out a page of the process it builds?

Frames == 0..MEM_PAGE_NUM - 1
Tables == 1..PGT_PAGE_NUM
Entries == 1..SWAP_INFO_NUM

\* the contents of a page: zero, or what process p wrote to its page v
Zero == <<>>
Written(p, v) == <<p, v>>

Data == {Zero} \cup {Written(p, v) : p \in Procs, v \in Pages}
PTE == [frame : Frames, present : BOOLEAN]
SwapInfo == [va : Pages, asid : {Asid[p] : p \in Procs}, data : Data]

ASSUME MemoryAssumption ==
  /\ {MEM_PAGE_NUM, PGT_PAGE_NUM, SWAP_INFO_NUM} \subseteq Nat \ {0}
  /\ IsFiniteSet(Procs) /\ IsFiniteSet(Pages) /\ Pages \subseteq Nat
  /\ ImagePages \subseteq Pages /\ StackPage \in Pages \ ImagePages
  /\ \A p \in Procs : Asid[p] # {} /\ Asid[p] \cap {KernelBit, AccessedBit} = {}
  /\ KernelBit # AccessedBit
  /\ Idle \notin Procs /\ Unmapped \notin PTE
  /\ None \notin Pages \cup Tables \cup SwapInfo \cup [Pages -> Data]
  /\ {UseTLB, ZombieRuns, ThreadExits, ExecEvictsItself} \subseteq BOOLEAN

VARIABLES
  free_mem_map, va_info, data,   \* flags, virtual page and contents of a frame
  free_pgt_map, pte,
  swap_info, clock_ptr,
  status, satp, current, fault,
  tlb, execs,
  panic                          \* the kernel faulted with the kernel lock held

mm == <<free_mem_map, va_info, data, free_pgt_map, pte, swap_info, clock_ptr, panic>>
vars == <<mm, status, satp, current, fault, tlb, execs>>

Init ==
  /\ free_mem_map = [f \in Frames |-> {}] /\ va_info = [f \in Frames |-> None]
  /\ data = [f \in Frames |-> Zero]
  /\ free_pgt_map = [t \in Tables |-> {}] /\ pte = [t \in Tables |-> [v \in Pages |-> Unmapped]]
  /\ swap_info = [i \in Entries |-> None] /\ clock_ptr = 0
  /\ status = [p \in Procs |-> "EXITED"] /\ satp = [p \in Procs |-> None]
  /\ current = [h \in Harts |-> Idle] /\ fault = [h \in Harts |-> None]
  /\ tlb = [h \in Harts |-> [v \in Pages |-> None]]
  /\ panic = FALSE /\ execs = 0

-----------------------------------------------------------------------------
(***************************************************************************)
(* Inside a handler, s is a snapshot of mm.                                *)
(***************************************************************************)
Here == [map |-> free_mem_map, va |-> va_info, data |-> data, pgt |-> free_pgt_map,
         pte |-> pte, swap |-> swap_info, clock |-> clock_ptr, panic |-> panic]

Commit(s) ==
  /\ free_mem_map' = s.map /\ va_info' = s.va /\ data' = s.data /\ free_pgt_map' = s.pgt
  /\ pte' = s.pte /\ swap_info' = s.swap /\ clock_ptr' = s.clock /\ panic' = s.panic

is_same_proc(flags, asid) == asid \subseteq flags

FreeFrames(s) == {f \in Frames : s.map[f] = {}}
UserFrames(s) == {f \in Frames : KernelBit \notin s.map[f]}

\* the number of steps of the clock hand to reach f
Ahead(s, f) == (f - s.clock) % MEM_PAGE_NUM
Nearest(s, F) == CHOOSE f \in F : \A g \in F : Ahead(s, f) <= Ahead(s, g)

\* choose_swap: the first user frame not accessed; the frames that the hand
\* passes lose their mark, so the second time round any user frame will do.
Victim(s) ==
  LET cold == {f \in UserFrames(s) : AccessedBit \notin s.map[f]}
  IN  Nearest(s, IF cold # {} THEN cold ELSE UserFrames(s))

choose_swap_keepsMarks(s) == [s EXCEPT !.clock = (Victim(s) + 1) % MEM_PAGE_NUM]

choose_swap(s) ==
  LET f == Victim(s)
      passed == IF AccessedBit \in s.map[f] THEN UserFrames(s)
                ELSE {g \in UserFrames(s) : Ahead(s, g) < Ahead(s, f)}
  IN  [s EXCEPT !.map = [g \in Frames |-> s.map[g] \ (IF g \in passed THEN {AccessedBit} ELSE {})],
                !.clock = (f + 1) % MEM_PAGE_NUM]

\* the live process whose asid is that of a frame; st is pcb[].status now
Owner(st, a) == {p \in Procs : Asid[p] = a /\ st[p] # "EXITED"}

swap_out_keepsPresent(s, f, st, sa) ==
  [s EXCEPT !.swap[Min({j \in Entries : s.swap[j] = None})] =
              [va |-> s.va[f], asid |-> s.map[f], data |-> s.data[f]],
            !.map[f] = {}, !.va[f] = None]

swap_out(s, f, st, sa) ==
  LET i == Min({j \in Entries : s.swap[j] = None})
      v == s.va[f]
      own == Owner(st, s.map[f])
      t == sa[CHOOSE p \in own : TRUE]
  IN  IF own = {} THEN [s EXCEPT !.panic = TRUE]   \* get_pte(va, 0)
      ELSE [s EXCEPT !.swap[i] = [va |-> v, asid |-> s.map[f], data |-> s.data[f]],
                     !.map[f] = {}, !.va[f] = None,
                     !.pte[t][v] = IF @ = Unmapped THEN @ ELSE [frame |-> @.frame, present |-> FALSE]]

\* the frame that allocPage will return, and the state when it does
Allocated(s) == IF FreeFrames(s) # {} THEN Min(FreeFrames(s)) ELSE Victim(s)

allocPage(s, a, st, sa) ==
  LET f == Allocated(s)
      w == IF FreeFrames(s) # {} THEN s ELSE swap_out(choose_swap(s), f, st, sa)
  IN  IF w.panic THEN w ELSE [w EXCEPT !.map[f] = a, !.data[f] = Zero]

alloc_page_helper(s, v, t, a, st, sa) ==
  LET w == allocPage(s, a, st, sa)
      f == Allocated(s)
  IN  IF w.panic THEN w
      ELSE [w EXCEPT !.pte[t][v] = [frame |-> f, present |-> TRUE], !.va[f] = v]

page_in_swap(s, v, a) ==
  {i \in Entries : s.swap[i] # None /\ s.swap[i].va = v /\ is_same_proc(s.swap[i].asid, a)}

swap_in_otherPage(s, f, i) ==
  [s EXCEPT !.map[f] = s.swap[i].asid, !.va[f] = s.swap[i].va, !.swap[i] = None]

swap_in(s, f, i) ==
  [s EXCEPT !.map[f] = s.swap[i].asid, !.va[f] = s.swap[i].va,
            !.data[f] = s.swap[i].data, !.swap[i] = None]

freeProcessMem_keepsSwap(s, a) ==
  [s EXCEPT !.map = [f \in Frames |-> IF is_same_proc(@[f], a) THEN {} ELSE @[f]],
            !.pgt = [t \in Tables |-> IF is_same_proc(@[t], a) THEN {} ELSE @[t]]]

freeProcessMem(s, a) ==
  [s EXCEPT !.map = [f \in Frames |-> IF is_same_proc(@[f], a) THEN {} ELSE @[f]],
            !.pgt = [t \in Tables |-> IF is_same_proc(@[t], a) THEN {} ELSE @[t]],
            !.swap = [i \in Entries |-> IF @[i] # None /\ is_same_proc(@[i].asid, a)
                                        THEN None ELSE @[i]]]

\* the page that was evicted to the first entry of found is brought back
Restored(s, p, v, found) ==
  LET w == allocPage(s, Asid[p], status, satp)
      f == Allocated(s)
  IN  IF w.panic THEN w
      ELSE [swap_in(w, f, Min(found)) EXCEPT
              !.pte[satp[p]][v] = [frame |-> f, present |-> TRUE], !.map[f] = @ \cup {AccessedBit}]

\* handle_load_page_fault, handle_store_page_fault: p at page v
PageFault(s, p, v) ==
  LET t == satp[p]
      found == page_in_swap(s, v, Asid[p])
  IN  IF s.pte[t][v] = Unmapped THEN alloc_page_helper(s, v, t, Asid[p], status, satp)
      ELSE IF found # {} THEN Restored(s, p, v, found)
      ELSE [s EXCEPT !.pte[t][v] = [frame |-> @.frame, present |-> TRUE],
                     !.map[s.pte[t][v].frame] = @ \cup {AccessedBit}]

-----------------------------------------------------------------------------
OnCPU(p) == \E h \in Harts : current[h] = p

\* one page of p is allocated and filled; p is EXITED meanwhile
Filled(s, p, v, sa) ==
  LET w == alloc_page_helper(s, v, sa[p], Asid[p], status, sa)
  IN  IF s.panic THEN s
      ELSE IF w.panic THEN w ELSE [w EXCEPT !.data[Allocated(s)] = Written(p, v)]

\* the pages of an image from low to high addresses
InOrder(S) == CHOOSE q \in [1 .. Cardinality(S) -> S] : \A i, j \in DOMAIN q : i < j => q[i] < q[j]

load_task_img(s, p, sa) == FoldLeft(LAMBDA a, v : Filled(a, p, v, sa), s, InOrder(ImagePages))

\* The image and the two stack pages.  The stack counts as written at once;
\* the arguments are copied at the end.
Built(p, t) ==
  LET sa == [satp EXCEPT ![p] = t]
      start == [Here EXCEPT !.pgt[t] = Asid[p], !.pte[t] = [v \in Pages |-> Unmapped]]
      stack == Filled(load_task_img(start, p, sa), p, StackPage, sa)
  IN  IF stack.panic THEN stack
      ELSE allocPage(stack, Asid[p] \cup {KernelBit}, status, sa)

\* a live process, or main() when it starts the shell
Caller == execs = 0 \/ \E h \in Harts :
  current[h] # Idle /\ status[current[h]] = "READY" /\ fault[h] = None

do_exec(p) ==
  LET t == Min({u \in Tables : free_pgt_map[u] = {}})
      s == Built(p, t)
  IN  /\ ~panic /\ Caller /\ status[p] = "EXITED" /\ ~OnCPU(p)
      /\ execs < MaxExecs /\ execs' = execs + 1
      /\ \E u \in Tables : free_pgt_map[u] = {}
      /\ s.panic => ExecEvictsItself
      /\ Commit(s)
      /\ satp' = [satp EXCEPT ![p] = t]
      /\ status' = [status EXCEPT ![p] = IF s.panic THEN @ ELSE "READY"]
      /\ UNCHANGED <<current, fault, tlb>>

\* the MMU: page v is translated by the TLB or by the page table
Translation(h, v) ==
  LET e == pte[satp[current[h]]][v]
  IN  IF tlb[h][v] # None THEN tlb[h][v]
      ELSE IF e = Unmapped THEN None ELSE IF e.present THEN e.frame ELSE None

Store(h, v) ==
  /\ ~panic /\ current[h] # Idle /\ fault[h] = None /\ Translation(h, v) # None
  /\ data' = [data EXCEPT ![Translation(h, v)] = Written(current[h], v)]
  /\ tlb' = IF UseTLB THEN [tlb EXCEPT ![h][v] = Translation(h, v)] ELSE tlb
  /\ UNCHANGED <<free_mem_map, va_info, free_pgt_map, pte, swap_info, clock_ptr, panic,
                 status, satp, current, fault, execs>>

Trap(h, v) ==
  /\ ~panic /\ current[h] # Idle /\ fault[h] = None /\ Translation(h, v) = None
  /\ fault' = [fault EXCEPT ![h] = v]
  /\ UNCHANGED <<mm, status, satp, current, tlb, execs>>

HandleFault(h) ==
  /\ ~panic /\ fault[h] # None
  /\ Commit(PageFault(Here, current[h], fault[h]))
  /\ fault' = [fault EXCEPT ![h] = None]
  /\ UNCHANGED <<status, satp, current, tlb, execs>>

\* do_scheduler of CPU h with memory s: to another address space, with a
\* flush, and what an exited process still had is freed
Switch(h, s, st) == \E q \in {Idle} \cup {p \in Procs : st[p] = "READY"} :
  LET old == current[h]
  IN  /\ Commit(IF old \notin {q, Idle} /\ st[old] = "EXITED" THEN freeProcessMem(s, Asid[old]) ELSE s)
      /\ current' = [current EXCEPT ![h] = q]
      /\ tlb' = IF q = old THEN tlb ELSE [tlb EXCEPT ![h] = [v \in Pages |-> None]]

do_scheduler(h) ==
  /\ ~panic /\ fault[h] = None /\ Switch(h, Here, status) /\ UNCHANGED <<status, satp, fault, execs>>

\* do_kill_all frees the memory at once, do_scheduler later once more; when
\* a thread exits, its process lives on in the other threads
do_exit(h) == \E p \in Procs :
  \E st \in {[status EXCEPT ![p] = "EXITED"]} \cup (IF ThreadExits THEN {status} ELSE {}) :
    /\ ~panic /\ current[h] = p /\ fault[h] = None /\ status[p] = "READY"
    /\ ZombieRuns \/ \A g \in Harts : current[g] = p => g = h
    /\ Switch(h, freeProcessMem(Here, Asid[p]), st)
    /\ status' = st /\ UNCHANGED <<satp, fault, execs>>

sys_kill(h, p) ==
  /\ ~panic /\ fault[h] = None /\ current[h] # Idle /\ status[current[h]] = "READY"
  /\ status[p] = "READY" /\ (ZombieRuns \/ ~OnCPU(p))
  /\ Commit(freeProcessMem(Here, Asid[p]))
  /\ status' = [status EXCEPT ![p] = "EXITED"]
  /\ UNCHANGED <<satp, current, fault, tlb, execs>>

Next ==
  \/ \E p \in Procs : do_exec(p)
  \/ \E h \in Harts :
       \/ do_scheduler(h) \/ do_exit(h) \/ HandleFault(h)
       \/ \E p \in Procs : sys_kill(h, p)
       \/ \E v \in Pages : Trap(h, v) \/ Store(h, v)

Spec == Init /\ [][Next]_vars

-----------------------------------------------------------------------------
(***************************************************************************)
(* What a process would read, now or after its next page fault.            *)
(***************************************************************************)
Content(s, sa, p, v) ==
  LET e == s.pte[sa[p]][v]
      found == page_in_swap(s, v, Asid[p])
  IN  IF e = Unmapped THEN Zero
      ELSE IF e.present \/ found = {} THEN s.data[e.frame] ELSE s.swap[Min(found)].data

View(p) == [v \in Pages |-> Content(Here, satp, p, v)]

Private == INSTANCE AddressSpaces WITH
  Image <- ImagePages \cup {StackPage},
  Gone <- None,
  mem <- [p \in Procs |-> IF status[p] = "EXITED" THEN None ELSE View(p)]

\* Faults, swapping, and the births and deaths of other processes leave the
\* memory of a process as it is.
PrivateMemory == Private!Spec

\* Page v, swapped out, is in exactly one swap entry of its process, and an
\* entry belongs to a page that is out.
SwapMatches(p, v) ==
  LET e == pte[satp[p]][v]
  IN  Cardinality({i \in Entries : swap_info[i] # None /\ swap_info[i].va = v
                                   /\ swap_info[i].asid = Asid[p]})
        = IF e # Unmapped /\ ~e.present THEN 1 ELSE 0

\* A present page of a live process is in a frame that is marked as its own,
\* that swap_out will find by va_info, and that no other page is in: the
\* clock never takes a frame it cannot account for.  A page that is out is in
\* exactly one swap entry (SwapMatches).
FramesOwned == \A p \in Procs, v \in Pages :
  LET e == pte[satp[p]][v]
  IN  /\ (status[p] # "EXITED" /\ e # Unmapped /\ e.present) =>
           /\ free_mem_map[e.frame] \ {AccessedBit} = Asid[p]
           /\ va_info[e.frame] = v
      /\ status[p] # "EXITED" => SwapMatches(p, v)

\* Frames and tables of the dead are free, unless the process is on a CPU.
NothingLeaks == \A p \in Procs :
  (status[p] = "EXITED" /\ ~OnCPU(p)) =>
    /\ \A f \in Frames : ~(Asid[p] \subseteq free_mem_map[f])
    /\ \A t \in Tables : ~(Asid[p] \subseteq free_pgt_map[t])
    /\ \A i \in Entries : swap_info[i] # None => ~(Asid[p] \subseteq swap_info[i].asid)

\* The page to evict always belongs to a process that can be found.
NoPanic == ~panic

\* A cached translation is the one in the page table of the running process.
TlbFresh == \A h \in Harts, v \in Pages :
  (current[h] # Idle /\ tlb[h][v] # None) =>
    pte[satp[current[h]]][v] = [frame |-> tlb[h][v], present |-> TRUE]
=============================================================================
