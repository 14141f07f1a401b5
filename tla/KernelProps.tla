----------------------------- MODULE KernelProps -----------------------------
(***************************************************************************)
(* What the scheduling and synchronisation of the kernel must satisfy.     *)
(***************************************************************************)
EXTENDS Kernel

Homes(t) == {x \in Queues : t \in Range(queue[x])}
RunsOn(t) == {h \in Harts : current[h] = t}

(***************************************************************************)
(* No task is lost or doubled: a live task is on exactly one list, once,   *)
(* or on exactly one CPU, and a killed task is on no list.  The list nodes *)
(* are moved by do_block, do_unblock, check_sleeping, do_kill and          *)
(* do_scheduler (sched.c), none of which checks where the node was.        *)
(***************************************************************************)
OnePlace ==
  /\ \A x \in Queues : IsInjective(queue[x])
  /\ \A t \in Tasks :
       IF status[t] = "EXITED" THEN Homes(t) = {}
       ELSE Cardinality(Homes(t)) + Cardinality(RunsOn(t)) = 1

(***************************************************************************)
(* do_scheduler never leaves a blocked or ready task on a CPU, though it   *)
(* keeps the current task whenever ready_queue is empty (sched.c:37,46),   *)
(* and status always names the place of the task.                          *)
(***************************************************************************)
CPUsRun ==
  /\ \A h \in Harts : status[current[h]] \in {"RUNNING", "EXITED"}
  /\ \A t \in Tasks : /\ status[t] = "READY" <=> t \in Range(queue[Ready])
                      /\ status[t] = "BLOCKED" <=> Homes(t) \cap BlockQueues # {}

(***************************************************************************)
(* No waiter waits for something that can no longer happen: a mutex with   *)
(* waiters is locked by a live owner (do_kill releases what it held), and  *)
(* the target of a waitpid is alive (do_kill wakes its waiters).           *)
(***************************************************************************)
NoOrphanWaiters ==
  /\ \A l \in Locks : /\ queue[LockQ(l)] # <<>> => locked[l]
                      /\ locked[l] => status[owner[l]] # "EXITED"
  /\ \A p \in Procs : queue[WaitQ(p)] # <<>> => status[p] # "EXITED"

(***************************************************************************)
(* do_mutex_lock_acquire and do_condition_wait return without looking at   *)
(* the lock again, so whoever ends their wait must have made the waiter    *)
(* the owner: a task that leaves the block queue of a mutex alive owns it, *)
(* and one that leaves a condition owns its mutex or queues for it.        *)
(***************************************************************************)
Survives(t) == status'[t] # "EXITED"

WakesOwning ==
  [][\A t \in Procs :
       /\ \A l \in Locks : t \in Range(queue[LockQ(l)]) \ Range(queue'[LockQ(l)]) /\ Survives(t)
                             => locked'[l] /\ owner'[l] = t
       /\ \A c \in Conds : t \in Range(queue[CondQ(c)]) \ Range(queue'[CondQ(c)]) /\ Survives(t)
                             => LET m == mutexIdx[t]
                                IN  \/ locked'[m] /\ owner'[m] = t
                                    \/ t \in Range(queue'[LockQ(m)])]_vars

(***************************************************************************)
(* A mutex is handed over first come first served: when a locked mutex     *)
(* changes owner, the new owner waited for it, every waiter ahead of the   *)
(* new owner was killed in the same step, and the survivors behind it wait *)
(* on in their order (do_mutex_lock_release, do_release_locks).            *)
(***************************************************************************)
Before(q, t, u) == \E i, j \in DOMAIN q : i < j /\ q[i] = t /\ q[j] = u

HandsOver(o, q, q2) ==
  /\ o \in Range(q) /\ \A t \in Range(q) : Before(q, t, o) => ~Survives(t)
  /\ Range(q2) = {t \in Range(q) : Before(q, o, t) /\ Survives(t)}
  /\ \A t, u \in Range(q2) : Before(q2, t, u) => Before(q, t, u)

HandOffFIFO ==
  [][\A l \in Locks : locked[l] /\ locked'[l] /\ owner'[l] # owner[l]
       => HandsOver(owner'[l], queue[LockQ(l)], queue'[LockQ(l)])]_vars

(***************************************************************************)
(* Who waits at a barrier that opens is released in that very step, all of *)
(* them together, and only when goal tasks are there.                      *)
(***************************************************************************)
BarrierOpensFull ==
  [][\A b \in Bars : queue[BarQ(b)] # <<>> /\ queue'[BarQ(b)] = <<>>
        /\ (\A t \in Range(queue[BarQ(b)]) : Survives(t))
       => Len(queue[BarQ(b)]) + 1 = goal[b]]_vars

(***************************************************************************)
(* A killed process does not come back: its slot leaves EXITED only as a   *)
(* new READY process ("declare the process as exited", sched.c:220).       *)
(***************************************************************************)
KilledStaysDead ==
  [][\A p \in Procs : status[p] = "EXITED" => status'[p] \in {"EXITED", "READY", "RUNNING"}]_vars

(***************************************************************************)
(* No task is on two CPUs at once.                                         *)
(***************************************************************************)
OneCPU == IsInjective(current)

(***************************************************************************)
(* The queues, loops and wake-up orders of the code do what Dispatch       *)
(* promises: a handler moves exactly the tasks it should, and a mutex it   *)
(* frees goes to a waiter that survives the handler.                       *)
(***************************************************************************)
Place(t) == IF status[t] = "EXITED" THEN Exited
            ELSE IF status[t] = "RUNNING" THEN OnCPU
            ELSE CHOOSE x \in Queues : \E i \in DOMAIN queue[x] : queue[x][i] = t

places  == [t \in Tasks |-> Place(t)]
holders == [l \in Locks |-> IF locked[l] THEN owner[l] ELSE None]

D == INSTANCE Dispatch WITH place <- places, owner <- holders

ImplementsDispatch == D!Spec

(***************************************************************************)
(* The inductive invariant.  It is stated of a snapshot s, so that it can  *)
(* be followed through the chain of changes a handler makes.  off are the  *)
(* tasks do_kill has taken off their list but not yet marked as exited.    *)
(* k says under what the chain runs: cur is current_running of each CPU,   *)
(* ex the CPUs that are about to call do_scheduler, mi each mutex_idx and  *)
(* base the snapshot the chain started from.                               *)
(***************************************************************************)
Snap == [status : [Tasks -> {"BLOCKED", "RUNNING", "READY", "EXITED"}],
         queue  : [Queues -> Seq(Tasks)],
         locked : [Locks -> BOOLEAN],
         owner  : [Locks -> Tasks]]

In(s, x) == Range(s.queue[x])

\* a list holds a task once, no two lists share one, and status tells which
Linked(s, off) ==
  /\ \A x \in Queues : IsInjective(s.queue[x])
  /\ \A t \in Tasks : \A x, y \in Queues : t \in In(s, x) /\ t \in In(s, y) => x = y
  /\ \A t \in Tasks \ off :
       /\ s.status[t] = "READY" <=> t \in In(s, Ready)
       /\ s.status[t] = "BLOCKED" <=> \E x \in BlockQueues : t \in In(s, x)
  /\ \A t \in off : \A x \in Queues : t \notin In(s, x)

\* the running tasks are on CPUs, and an idle task runs or is ready
Placed(s, k) ==
  /\ k.cur \in [Harts -> Tasks] /\ \A g, h \in Harts : k.cur[g] = k.cur[h] => g = h
  /\ \A g \in Harts \ k.ex : s.status[k.cur[g]] \in {"RUNNING", "EXITED"}
  /\ \A g \in Harts : k.cur[g] \in Idles => s.status[k.cur[g]] = "RUNNING"
  /\ \A t \in Tasks : s.status[t] = "RUNNING" => \E g \in Harts : k.cur[g] = t
  /\ \A i \in Idles : s.status[i] \in {"RUNNING", "READY"}
  /\ \A t \in Tasks : k.base.status[t] = "EXITED" => s.status[t] # "BLOCKED"

\* nobody waits for a lock that is free or for a task that is dead
Served(s, k) ==
  /\ \A l \in Locks : /\ s.owner[l] \in Procs
                      /\ In(s, LockQ(l)) # {} => s.locked[l]
                      /\ s.locked[l] => s.status[s.owner[l]] # "EXITED"
  /\ \A p \in Procs : In(s, WaitQ(p)) # {} => s.status[p] # "EXITED"
  /\ \A c \in Conds : \A t \in In(s, CondQ(c)) : k.mi[t] \in Locks

\* who was taken off the queue of a mutex or a condition has got the mutex
Owed(s, off, k) ==
  \A t \in Procs \ off : s.status[t] # "EXITED" =>
    /\ \A l \in Locks : t \in In(k.base, LockQ(l)) => t \in In(s, LockQ(l)) \/ (s.locked[l] /\ s.owner[l] = t)
    /\ \A c \in Conds : t \in In(k.base, CondQ(c)) =>
         LET m == k.mi[t]
         IN  /\ m \in Locks
             /\ t \in In(s, CondQ(c)) \/ t \in In(s, LockQ(m)) \/ (s.locked[m] /\ s.owner[m] = t)

Fit(s, off, k) == s \in Snap /\ Linked(s, off) /\ Placed(s, k) /\ Served(s, k) /\ Owed(s, off, k)

Now(ex) == [cur |-> current, ex |-> ex, mi |-> mutexIdx, base |-> Here]

IInv ==
  /\ Fit(Here, {}, Now({}))
  /\ mutexIdx \in [Procs -> Locks \cup {None}] /\ parent \in [Procs -> Procs \cup {None}]
  /\ count \in [Bars -> Nat] /\ goal \in [Bars -> Goals \cup {None}]

-----------------------------------------------------------------------------
(***************************************************************************)
(* Liveness.  Each CPU keeps taking timer interrupts: handle_irq_timer     *)
(* re-arms the timer and interrupts are enabled in user mode and in the    *)
(* idle loop.  Time passes, so every sleeper is due at some interrupt.     *)
(* User programs promise nothing.                                          *)
(***************************************************************************)
TimerWakes(p) == /\ p \in Range(queue[Sleeping])
                 /\ \E h \in Harts : /\ \E due \in SUBSET Range(queue[Sleeping]) :
                                           p \in due /\ do_scheduler(h, Here, due)
                                     /\ UNCHANGED <<parent, mutexIdx, count, goal>>

TimerSpec == Spec /\ \A h \in Harts : WF_vars(Timer(h))

FairSpec == TimerSpec /\ \A p \in Procs : WF_vars(TimerWakes(p))

(***************************************************************************)
(* A ready task gets a CPU (or is killed), although do_unblock inserts     *)
(* woken tasks in front of it, and a sleeper wakes up, although it is only *)
(* looked at when some CPU calls do_scheduler.                             *)
(***************************************************************************)
NobodyStarves ==
  /\ \A t \in Tasks : status[t] = "READY" ~> status[t] # "READY"
  /\ \A p \in Procs : p \in Range(queue[Sleeping]) ~> p \notin Range(queue[Sleeping])

(***************************************************************************)
(* A process killed while on a CPU leaves it.                              *)
(***************************************************************************)
ZombieLeaves == \A p \in Procs : status[p] = "EXITED" /\ RunsOn(p) # {}
                                   ~> ~(status[p] = "EXITED" /\ RunsOn(p) # {})
=============================================================================
