------------------------------- MODULE Kernel -------------------------------
(***************************************************************************)
(* Scheduling, process life cycle and synchronisation of the kernel:       *)
(* kernel/sched/sched.c, kernel/sched/time.c and the mutexes, condition    *)
(* variables and barriers of kernel/locking/lock.c, on all CPUs.           *)
(*                                                                         *)
(* A handler runs with interrupts off and under the big kernel lock        *)
(* (entry.S takes it before interrupt_helper and drops it when leaving),   *)
(* so each handler is one action.  A doubly linked list is the sequence of *)
(* its nodes.  A handler is written as a chain of changes to a snapshot    *)
(* [status, queue, locked, owner], in the order the code makes them; those *)
(* that end in do_scheduler() end in Reschedule.                           *)
(*                                                                         *)
(* An operator X_y that precedes X is X with a bug: the properties of      *)
(* KernelProps are tested on it.                                           *)
(***************************************************************************)
EXTENDS Tasks, Integers, SequencesExt

CONSTANTS
  Goals,         \* the goals user programs give do_barrier_init
  ZombieActs,    \* may a task killed while on a CPU make another system call
                 \* before that CPU next takes a timer interrupt?
  ReuseOnCPU,    \* may a slot be handed out while its killed task is on a CPU?
  KillAtBarrier  \* may a task be killed while it waits at a barrier?

ASSUME KernelAssumption ==
  /\ Procs \subseteq Nat /\ IsFiniteSet(Procs) /\ 0 \in Procs   \* pcb[], the shell first
  /\ Locks \subseteq Nat /\ IsFiniteSet(Locks)                  \* mlocks[]
  /\ Goals \subseteq Nat \ {0}
  /\ {ZombieActs, ReuseOnCPU, KillAtBarrier} \subseteq BOOLEAN

VARIABLES
  current,   \* current_running of each CPU (register tp)
  status,    \* pcb.status
  queue,     \* every list head: the tasks linked to it, first to last
  parent,    \* pcb.parent_pid
  locked,    \* mlocks[].lock.status
  owner,     \* mlocks[].owner, kept when the lock is released
  mutexIdx,  \* pcb.mutex_idx
  count,     \* barriers[].count
  goal       \* barriers[].goal, None when the barrier is not initialised

vars == <<current, status, queue, parent, locked, owner, mutexIdx, count, goal>>

TypeOK ==
  /\ current \in [Harts -> Tasks]
  /\ status \in [Tasks -> {"BLOCKED", "RUNNING", "READY", "EXITED"}]
  /\ DOMAIN queue = Queues /\ \A x \in Queues : Range(queue[x]) \subseteq Tasks
  /\ parent \in [Procs -> Procs \cup {None}]
  /\ locked \in [Locks -> BOOLEAN] /\ owner \in [Locks -> Procs]
  /\ mutexIdx \in [Procs -> Locks \cup {None}]
  /\ count \in [Bars -> Nat] /\ goal \in [Bars -> Goals \cup {None}]

\* main() after test(): every CPU runs its idle task and the shell, slot 0,
\* is the one process.  mlocks[].owner is never initialised: 0 (BSS).
Init ==
  /\ current \in {f \in [Harts -> Idles] : IsInjective(f)}
  /\ status = [t \in Tasks |-> IF t \in Idles THEN "RUNNING"
                               ELSE IF t = 0 THEN "READY" ELSE "EXITED"]
  /\ queue = [x \in Queues |-> IF x = Ready THEN <<0>> ELSE <<>>]
  /\ parent = [p \in Procs |-> None]
  /\ locked = [l \in Locks |-> FALSE] /\ owner = [l \in Locks |-> 0]
  /\ mutexIdx = [p \in Procs |-> None]
  /\ count = [b \in Bars |-> 0] /\ goal = [b \in Bars |-> None]

-----------------------------------------------------------------------------
(***************************************************************************)
(* List operations.                                                        *)
(***************************************************************************)
LIST_REMOVE(q, t) == [x \in Queues |-> RemoveFirst(q[x], t)]

\* LIST_REMOVE, then LIST_ADD_HEAD or LIST_ADD_TAIL
AddHead(q, x, t) ==
  LET r == LIST_REMOVE(q, t) IN [y \in Queues |-> IF y = x THEN <<t>> \o r[y] ELSE r[y]]
AddTail(q, x, t) ==
  LET r == LIST_REMOVE(q, t) IN [y \in Queues |-> IF y = x THEN Append(r[y], t) ELSE r[y]]

(***************************************************************************)
(* Snapshots.                                                              *)
(***************************************************************************)
Here == [status |-> status, queue |-> queue, locked |-> locked, owner |-> owner]

Commit(s) == /\ status' = s.status /\ queue' = s.queue
             /\ locked' = s.locked /\ owner' = s.owner

\* the members of a set of slots, in the order of a loop over the table
InOrder(S) == CHOOSE q \in [1 .. Cardinality(S) -> S] : \A i, j \in DOMAIN q : i < j => q[i] < q[j]

do_block(s, t, x) == [s EXCEPT !.status[t] = "BLOCKED", !.queue = AddTail(s.queue, x, t)]

\* woken tasks go to the HEAD of the ready queue
do_unblock(s, t) == [s EXCEPT !.status[t] = "READY", !.queue = AddHead(s.queue, Ready, t)]

\* the loops "while (!LIST_IS_EMPTY(queue)) do_unblock(queue.next)"
UnblockAll(s, x) == FoldLeft(do_unblock, s, s.queue[x])

\* ready and at the tail: a new process, or a sleeper whose time has come
MakeReady(s, t) == [s EXCEPT !.status[t] = "READY", !.queue = AddTail(s.queue, Ready, t)]

\* every sleeper is looked at, and due are those whose time has come
check_sleeping(s, due) ==
  FoldLeft(LAMBDA a, t : IF t \in due THEN MakeReady(a, t) ELSE a, s, s.queue[Sleeping])

\* the task t leaves its CPU: it is put back only if it is still RUNNING
PutBack_notIdle(s, t) ==
  IF s.status[t] = "RUNNING" /\ t \in Procs THEN MakeReady(s, t) ELSE s
PutBack_head(s, t) == IF s.status[t] = "RUNNING" THEN do_unblock(s, t) ELSE s

PutBack(s, t) == IF s.status[t] = "RUNNING" THEN MakeReady(s, t) ELSE s

(***************************************************************************)
(* do_scheduler() on CPU h with the tasks of due past their wake-up time.  *)
(* The next task is marked RUNNING before the current one is looked at,    *)
(* and with an empty ready queue the CPU keeps its task whatever the       *)
(* status of that task is.                                                 *)
(***************************************************************************)
do_scheduler(h, s0, due) ==
  LET s      == check_sleeping(s0, due)
      next   == Head(s.queue[Ready])
      picked == [s EXCEPT !.status[next] = "RUNNING", !.queue[Ready] = Tail(@)]
  IN  IF s.queue[Ready] = <<>>
        THEN /\ Commit(s) /\ UNCHANGED current
        ELSE /\ Commit(PutBack(picked, current[h]))
             /\ current' = [current EXCEPT ![h] = next]

\* Any set of sleepers may be due: sleep times are arbitrary.
Reschedule(h, s) == \E due \in SUBSET Range(s.queue[Sleeping]) : do_scheduler(h, s, due)

-----------------------------------------------------------------------------
(***************************************************************************)
(* Mutexes.                                                                *)
(***************************************************************************)
HandOff_last(s, l) ==
  IF s.queue[LockQ(l)] = <<>>
    THEN [s EXCEPT !.locked[l] = FALSE]
    ELSE LET w == Last(s.queue[LockQ(l)]) IN [do_unblock(s, w) EXCEPT !.owner[l] = w]

\* the lock goes to its first waiter, or is unlocked with its owner kept
HandOff(s, l) ==
  IF s.queue[LockQ(l)] = <<>>
    THEN [s EXCEPT !.locked[l] = FALSE]
    ELSE LET w == Head(s.queue[LockQ(l)]) IN [do_unblock(s, w) EXCEPT !.owner[l] = w]

do_mutex_lock_release(s, t, l) == IF s.owner[l] = t THEN HandOff(s, l) ELSE s

do_mutex_lock_acquire_non_sched(s, t, l) ==
  IF s.locked[l] THEN do_block(s, t, LockQ(l))
                 ELSE [s EXCEPT !.locked[l] = TRUE, !.owner[l] = t]

do_release_locks_no(s, p) == s

do_release_locks(s, p) ==
  FoldLeft(LAMBDA a, l : IF a.locked[l] /\ a.owner[l] = p THEN HandOff(a, l) ELSE a,
           s, InOrder(Locks))

(***************************************************************************)
(* Killing.                                                                *)
(***************************************************************************)
do_kill_keepsNode(s, p) ==
  [UnblockAll(do_release_locks(s, p), WaitQ(p)) EXCEPT !.status[p] = "EXITED"]
do_kill_forgetsWaiters(s, p) ==
  [do_release_locks([s EXCEPT !.queue = LIST_REMOVE(s.queue, p)], p) EXCEPT !.status[p] = "EXITED"]

do_kill(s, p) ==
  LET gone  == [s EXCEPT !.queue = LIST_REMOVE(s.queue, p)]
      freed == do_release_locks(gone, p)
  IN  [UnblockAll(freed, WaitQ(p)) EXCEPT !.status[p] = "EXITED"]

Children(p) == {c \in Procs : parent[c] = p /\ status[c] # "EXITED"}

\* the threads of p in slot order, then p itself
do_kill_all(s, p) == do_kill(FoldLeft(do_kill, s, InOrder(Children(p))), p)

OnSomeCPU(p) == \E h \in Harts : current[h] = p

MayKill(S) == KillAtBarrier \/ \A p \in S, b \in Bars : p \notin Range(queue[BarQ(b)])

-----------------------------------------------------------------------------
(***************************************************************************)
(* Handlers.  Caller: the process whose system call CPU h handles.         *)
(***************************************************************************)
Caller(h, t) == /\ t = current[h] /\ t \in Procs
                /\ ZombieActs \/ status[t] # "EXITED"

Timer_skipsDead(h) == /\ status[current[h]] # "EXITED" /\ Reschedule(h, Here)
                      /\ UNCHANGED <<parent, mutexIdx, count, goal>>

\* handle_irq_timer, and sys_yield, which does the same
Timer(h) == /\ Reschedule(h, Here)
            /\ UNCHANGED <<parent, mutexIdx, count, goal>>

\* the first slot whose status is TASK_EXITED
FreeSlot(j) == /\ status[j] = "EXITED" /\ \A k \in Procs : k < j => status[k] # "EXITED"
               /\ ReuseOnCPU \/ ~OnSomeCPU(j)

Launch(j, par) ==
  /\ FreeSlot(j)
  /\ Commit(MakeReady(Here, j))
  /\ parent' = [parent EXCEPT ![j] = par]
  /\ UNCHANGED <<current, mutexIdx, count, goal>>

do_exec(h) == \E t, j \in Procs : Caller(h, t) /\ Launch(j, None)

do_thread_create(h) == \E t, j \in Procs : Caller(h, t) /\ Launch(j, t)

do_exit(h) == \E t \in Procs :
  /\ Caller(h, t) /\ MayKill(Children(t))
  /\ Reschedule(h, do_kill_all(Here, t))
  /\ UNCHANGED <<parent, mutexIdx, count, goal>>

\* sys_kill: no reschedule, even when p is the caller or runs on another CPU
sys_kill(h, p) == \E t \in Procs :
  /\ Caller(h, t) /\ status[p] # "EXITED" /\ MayKill(Children(p) \cup {p})
  /\ Commit(do_kill_all(Here, p))
  /\ UNCHANGED <<current, parent, mutexIdx, count, goal>>

do_waitpid(h, p) == \E t \in Procs :
  /\ Caller(h, t) /\ status[p] # "EXITED"
  /\ Reschedule(h, do_block(Here, t, WaitQ(p)))
  /\ UNCHANGED <<parent, mutexIdx, count, goal>>

do_sleep(h) == \E t \in Procs :
  /\ Caller(h, t)
  /\ Reschedule(h, do_block(Here, t, Sleeping))
  /\ UNCHANGED <<parent, mutexIdx, count, goal>>

do_mutex_lock_acquire(h, l) == \E t \in Procs :
  /\ Caller(h, t)
  /\ LET s == do_mutex_lock_acquire_non_sched(Here, t, l)
     IN  IF locked[l] THEN Reschedule(h, s) ELSE Commit(s) /\ UNCHANGED current
  /\ UNCHANGED <<parent, mutexIdx, count, goal>>

LockRelease(h, l) == \E t \in Procs :
  /\ Caller(h, t)
  /\ Commit(do_mutex_lock_release(Here, t, l))
  /\ UNCHANGED <<current, parent, mutexIdx, count, goal>>

do_condition_wait(h, c, l) == \E t \in Procs :
  /\ Caller(h, t)
  /\ mutexIdx' = [mutexIdx EXCEPT ![t] = l]
  /\ Reschedule(h, do_block(do_mutex_lock_release(Here, t, l), t, CondQ(c)))
  /\ UNCHANGED <<parent, count, goal>>

WakeWaiter_withoutMutex(s, t) == do_unblock(s, t)

\* a waiter is made ready and then takes the mutex it waited with, or
\* moves on to the block queue of that mutex
WakeWaiter(s, t) == do_mutex_lock_acquire_non_sched(do_unblock(s, t), t, mutexIdx[t])

do_condition_signal(h, c) == \E t \in Procs :
  /\ Caller(h, t) /\ queue[CondQ(c)] # <<>>
  /\ Commit(WakeWaiter(Here, Head(queue[CondQ(c)])))
  /\ UNCHANGED <<current, parent, mutexIdx, count, goal>>

do_condition_broadcast(h, c) == \E t \in Procs :
  /\ Caller(h, t)
  /\ Commit(FoldLeft(WakeWaiter, Here, queue[CondQ(c)]))
  /\ UNCHANGED <<current, parent, mutexIdx, count, goal>>

do_barrier_init(h, b, g) == \E t \in Procs :
  /\ Caller(h, t) /\ goal[b] = None
  /\ goal' = [goal EXCEPT ![b] = g]
  /\ UNCHANGED <<current, status, queue, parent, locked, owner, mutexIdx, count>>

\* a barrier that is not initialised has goal -1 and lets everyone through
Full_late(b) == goal[b] = None \/ count[b] >= goal[b]

Full(b) == goal[b] = None \/ count[b] + 1 >= goal[b]

\* the count a barrier is left with when one more task arrives
Arrived(b) == IF Full(b) THEN 0 ELSE count[b] + 1

do_barrier_wait(h, b) == \E t \in Procs :
  /\ Caller(h, t)
  /\ count' = [count EXCEPT ![b] = Arrived(b)]
  /\ IF Full(b) THEN Commit(UnblockAll(Here, BarQ(b))) /\ UNCHANGED current
                ELSE Reschedule(h, do_block(Here, t, BarQ(b)))
  /\ UNCHANGED <<parent, mutexIdx, goal>>

\* programs destroy a barrier nobody waits at; with waiters their nodes would
\* be left linked to a head that forgot them
do_barrier_destroy(h, b) == \E t \in Procs :
  /\ Caller(h, t) /\ queue[BarQ(b)] = <<>>
  /\ goal' = [goal EXCEPT ![b] = None] /\ count' = [count EXCEPT ![b] = 0]
  /\ UNCHANGED <<current, status, queue, parent, locked, owner, mutexIdx>>

Syscall(h) ==
  \/ do_exec(h) \/ do_thread_create(h) \/ do_exit(h) \/ do_sleep(h)
  \/ \E p \in Procs : sys_kill(h, p) \/ do_waitpid(h, p)
  \/ \E l \in Locks : do_mutex_lock_acquire(h, l) \/ LockRelease(h, l)
  \/ \E c \in Conds : \/ \E l \in Locks : do_condition_wait(h, c, l)
                      \/ do_condition_signal(h, c) \/ do_condition_broadcast(h, c)
  \/ \E b \in Bars : \/ \E g \in Goals : do_barrier_init(h, b, g)
                     \/ do_barrier_wait(h, b) \/ do_barrier_destroy(h, b)

Next == \E h \in Harts : Timer(h) \/ Syscall(h)

Spec == Init /\ [][Next]_vars
=============================================================================
