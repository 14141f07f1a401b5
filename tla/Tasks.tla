------------------------------- MODULE Tasks -------------------------------
(***************************************************************************)
(* The entities the scheduler of the kernel handles, and the places a task *)
(* can be in.  Shared by Dispatch (what scheduling and blocking promise)   *)
(* and Kernel (how kernel/sched and kernel/locking do it with queues).     *)
(***************************************************************************)
EXTENDS FiniteSets

CONSTANTS
  Harts,   \* the CPUs; the board has two
  Procs,   \* the slots of pcb[]: a process is named by its slot, pid = slot
  Idles,   \* pid0_pcb[]: the tasks that run a CPU when nothing else does
  Locks,   \* indices into mlocks[]
  Conds,   \* indices into conditions[]
  Bars,    \* indices into barriers[]
  None     \* "nobody": no owner, no parent, no lock

ASSUME TasksAssumption ==
  /\ IsFiniteSet(Harts) /\ IsFiniteSet(Idles)
  /\ Cardinality(Idles) = Cardinality(Harts)
  /\ Procs \cap Idles = {}
  /\ None \notin Procs \cup Idles \cup Locks

Tasks == Procs \cup Idles

(***************************************************************************)
(* Where the list node of a task is.  Every place but the first two is a   *)
(* list head of the kernel.                                                *)
(***************************************************************************)
Exited   == <<"exited", 0>>
OnCPU    == <<"cpu", 0>>
Ready    == <<"ready", 0>>     \* ready_queue
Sleeping == <<"sleep", 0>>     \* sleep_queue
LockQ(l) == <<"lock", l>>      \* mlocks[l].block_queue
CondQ(c) == <<"cond", c>>      \* conditions[c].wait_queue
BarQ(b)  == <<"bar", b>>       \* barriers[b].wait_queue
WaitQ(p) == <<"wait", p>>      \* pcb[p].wait_list

BlockQueues == {Sleeping} \cup {LockQ(l) : l \in Locks} \cup {CondQ(c) : c \in Conds}
                  \cup {BarQ(b) : b \in Bars} \cup {WaitQ(p) : p \in Procs}
Queues      == {Ready} \cup BlockQueues
Places      == {Exited, OnCPU} \cup Queues
=============================================================================
