------------------------------ MODULE Dispatch ------------------------------
(***************************************************************************)
(* What the kernel promises about its tasks, without the order of its      *)
(* queues: every task is at one place, and each handler moves tasks        *)
(* between places.  Which ready task a CPU picks and which waiter gets a   *)
(* lock is left open; Kernel decides it by position in a linked list and   *)
(* implements this module.  An operator X_y that precedes X is X with a    *)
(* bug, on which the invariants are tested.                                *)
(***************************************************************************)
EXTENDS Tasks

VARIABLES
  current,  \* the task on each CPU
  place,    \* where each task is
  owner,    \* the owner of each mutex, None when it is unlocked
  parent,   \* who created each thread
  mutexIdx  \* the mutex a task at a condition variable takes when woken

vars == <<current, place, owner, parent, mutexIdx>>

TypeOK ==
  /\ current \in [Harts -> Tasks]
  /\ place \in [Tasks -> Places]
  /\ owner \in [Locks -> Procs \cup {None}]
  /\ parent \in [Procs -> Procs \cup {None}]
  /\ mutexIdx \in [Procs -> Locks \cup {None}]

Init ==
  /\ current \in [Harts -> Idles] /\ \A g, h \in Harts : current[g] = current[h] => g = h
  /\ \E shell \in Procs :
       place = [t \in Tasks |-> IF t \in Idles THEN OnCPU ELSE IF t = shell THEN Ready ELSE Exited]
  /\ owner = [l \in Locks |-> None]
  /\ parent = [p \in Procs |-> None] /\ mutexIdx = [p \in Procs |-> None]

-----------------------------------------------------------------------------
\* the tasks at place x when they are distributed as in pl
At(pl, x) == {t \in Tasks : pl[t] = x}

Wake(pl, S) == [t \in Tasks |-> IF t \in S THEN Ready ELSE pl[t]]

\* whom do_scheduler may pick: a task that has just become ready itself
\* stands behind all others
Candidates(h, pl) ==
  IF At(pl, Ready) \ {current[h]} # {} THEN At(pl, Ready) \ {current[h]} ELSE At(pl, Ready)

(***************************************************************************)
(* do_scheduler() on CPU h.  The task that leaves goes back to the ready   *)
(* ones only if it was running; if nobody is ready the CPU keeps its task, *)
(* wherever that task is.                                                  *)
(***************************************************************************)
Dispatched_notIdle(h, pl, next) ==
  LET picked == [pl EXCEPT ![next] = OnCPU]
  IN  [picked EXCEPT ![current[h]] = IF picked[current[h]] # OnCPU THEN picked[current[h]]
                                     ELSE IF current[h] \in Procs THEN Ready ELSE Exited]

Dispatched(h, pl, next) ==
  LET picked == [pl EXCEPT ![next] = OnCPU]
  IN  [picked EXCEPT ![current[h]] = IF picked[current[h]] = OnCPU THEN Ready ELSE picked[current[h]]]

Switch(h, pl) ==
  \/ /\ At(pl, Ready) = {}
     /\ place' = pl /\ current' = current
  \/ \E next \in Candidates(h, pl) :
        /\ place' = Dispatched(h, pl, next)
        /\ current' = [current EXCEPT ![h] = next]

Reschedule(h, pl) == \E due \in SUBSET At(pl, Sleeping) : Switch(h, Wake(pl, due))

\* current[h] blocks at x
Block(h, pl, x) == [pl EXCEPT ![current[h]] = x]

\* a mutex is passed to one of the tasks that wait for it
Heirs(waiters) == IF waiters = {} THEN {None} ELSE waiters

-----------------------------------------------------------------------------
Calls(h) == current[h] \in Procs /\ place[current[h]] = OnCPU

Timer(h) == Reschedule(h, place) /\ UNCHANGED <<owner, parent, mutexIdx>>

\* do_exec (par = None) and do_thread_create (par = the caller)
Launch(h, j, par) ==
  /\ Calls(h) /\ place[j] = Exited /\ \A g \in Harts : current[g] # j
  /\ place' = [place EXCEPT ![j] = Ready]
  /\ parent' = [parent EXCEPT ![j] = par]
  /\ UNCHANGED <<current, owner, mutexIdx>>

Family(p) == {p} \cup {c \in Procs : parent[c] = p /\ place[c] # Exited}

(***************************************************************************)
(* The family K ends at once: what one of its members owned goes to a      *)
(* surviving waiter, and who waited for one of them to end is ready.       *)
(***************************************************************************)
Killed_forgetsWaiters(K, heir) ==
  [t \in Tasks |->
     IF t \in K THEN Exited
     ELSE IF \E l \in Locks : owner[l] \in K /\ heir[l] = t THEN Ready ELSE place[t]]

Killed(K, heir) ==
  [t \in Tasks |->
     IF t \in K THEN Exited
     ELSE IF \/ \E k \in K : place[t] = WaitQ(k)
             \/ \E l \in Locks : owner[l] \in K /\ heir[l] = t
       THEN Ready ELSE place[t]]

Inherits(K, heir) ==
  \A l \in Locks : heir[l] \in IF owner[l] \in K THEN Heirs(At(place, LockQ(l)) \ K) ELSE {owner[l]}

Exit(h) == \E heir \in [Locks -> Procs \cup {None}] :
  /\ Calls(h)
  /\ Inherits(Family(current[h]), heir) /\ owner' = heir
  /\ Reschedule(h, Killed(Family(current[h]), heir))
  /\ UNCHANGED <<parent, mutexIdx>>

Kill(h, p) == \E heir \in [Locks -> Procs \cup {None}] :
  /\ Calls(h) /\ place[p] # Exited
  /\ Inherits(Family(p), heir) /\ owner' = heir
  /\ place' = Killed(Family(p), heir)
  /\ UNCHANGED <<current, parent, mutexIdx>>

Waitpid(h, p) ==
  /\ Calls(h) /\ place[p] # Exited
  /\ Reschedule(h, Block(h, place, WaitQ(p)))
  /\ UNCHANGED <<owner, parent, mutexIdx>>

Sleep(h) ==
  /\ Calls(h)
  /\ Reschedule(h, Block(h, place, Sleeping))
  /\ UNCHANGED <<owner, parent, mutexIdx>>

Acquire(h, l) ==
  /\ Calls(h)
  /\ \/ /\ owner[l] = None /\ owner' = [owner EXCEPT ![l] = current[h]]
        /\ UNCHANGED <<current, place>>
     \/ /\ owner[l] # None /\ UNCHANGED owner
        /\ Reschedule(h, Block(h, place, LockQ(l)))
  /\ UNCHANGED <<parent, mutexIdx>>

\* what current[h] releasing l may leave: new owners
Successors(h, l) ==
  IF owner[l] = current[h] THEN Heirs(At(place, LockQ(l))) ELSE {owner[l]}

Released(h, l, o) == IF owner[l] = current[h] THEN Wake(place, {o}) ELSE place

Release(h, l) == \E o \in Successors(h, l) :
  /\ Calls(h)
  /\ owner' = [owner EXCEPT ![l] = o] /\ place' = Released(h, l, o)
  /\ UNCHANGED <<current, parent, mutexIdx>>

CondWait_noMutex(h, c, l) == \E o \in Successors(h, l) :
  /\ Calls(h)
  /\ owner' = [owner EXCEPT ![l] = o]
  /\ Reschedule(h, Block(h, Released(h, l, o), CondQ(c)))
  /\ UNCHANGED <<parent, mutexIdx>>

CondWait(h, c, l) == \E o \in Successors(h, l) :
  /\ Calls(h)
  /\ owner' = [owner EXCEPT ![l] = o]
  /\ mutexIdx' = [mutexIdx EXCEPT ![current[h]] = l]
  /\ Reschedule(h, Block(h, Released(h, l, o), CondQ(c)))
  /\ UNCHANGED parent

(***************************************************************************)
(* The waiters W of a condition are woken: for every free mutex one of     *)
(* those that want it gets it, all others queue for it.                    *)
(***************************************************************************)
Wants(W, l) == {t \in W : mutexIdx[t] = l}

Reacquire(W) == \E own \in [Locks -> Procs \cup {None}] :
  /\ \A l \in Locks : own[l] \in IF owner[l] = None THEN Heirs(Wants(W, l)) ELSE {owner[l]}
  /\ owner' = own
  /\ place' = [t \in Tasks |->
                 IF t \notin W THEN place[t]
                 ELSE IF owner[mutexIdx[t]] = None /\ own[mutexIdx[t]] = t THEN Ready
                 ELSE LockQ(mutexIdx[t])]
  /\ UNCHANGED <<current, parent, mutexIdx>>

Signal(h, c)    == Calls(h) /\ \E t \in At(place, CondQ(c)) : Reacquire({t})
Broadcast(h, c) == Calls(h) /\ Reacquire(At(place, CondQ(c)))

\* a barrier holds the caller back or lets all who wait there go
BarrierWait(h, b) ==
  /\ Calls(h)
  /\ \/ Reschedule(h, Block(h, place, BarQ(b)))
     \/ place' = Wake(place, At(place, BarQ(b))) /\ UNCHANGED current
  /\ UNCHANGED <<owner, parent, mutexIdx>>

Next == \E h \in Harts :
  \/ Timer(h) \/ Exit(h) \/ Sleep(h)
  \/ \E p \in Procs : Launch(h, p, None) \/ Launch(h, p, current[h])
                        \/ Kill(h, p) \/ Waitpid(h, p)
  \/ \E l \in Locks : Acquire(h, l) \/ Release(h, l)
  \/ \E c \in Conds : Signal(h, c) \/ Broadcast(h, c) \/ \E l \in Locks : CondWait(h, c, l)
  \/ \E b \in Bars : BarrierWait(h, b)

Spec == Init /\ [][Next]_vars

-----------------------------------------------------------------------------
(***************************************************************************)
(* A CPU only ever runs a task that is on it: never one that do_block has  *)
(* put on a queue, and no task is on two CPUs.  do_scheduler keeps the     *)
(* current task when nobody is ready (sched.c:37), so this holds only      *)
(* because an idle task is ready whenever a process runs.                  *)
(***************************************************************************)
OnlyRunnersRun ==
  /\ \A h \in Harts : place[current[h]] \in {OnCPU, Exited}
  /\ \A g, h \in Harts : current[g] = current[h] => g = h

(***************************************************************************)
(* Nobody waits for the dead: the owner of a mutex is alive, a mutex with  *)
(* waiters has an owner, a waitpid has a live target and a task at a       *)
(* condition variable knows which mutex to take (do_kill, do_release_locks *)
(* and do_condition_wait).                                                 *)
(***************************************************************************)
OwnersAlive == \A l \in Locks : owner[l] # None => place[owner[l]] # Exited

WaitersServed ==
  \A t \in Tasks : /\ \A l \in Locks : place[t] = LockQ(l) => owner[l] # None
                   /\ \A p \in Procs : place[t] = WaitQ(p) => place[p] # Exited

CondKnowsMutex ==
  \A t \in Procs, c \in Conds : place[t] = CondQ(c) => mutexIdx[t] \in Locks

(***************************************************************************)
(* The inductive invariant.  Layout: besides OnlyRunnersRun, a task marked *)
(* as running is on a CPU and idle tasks never leave CPU and ready queue.  *)
(***************************************************************************)
Layout(pl, cur) ==
  /\ pl \in [Tasks -> Places] /\ cur \in [Harts -> Tasks]
  /\ \A h \in Harts : pl[cur[h]] \in {OnCPU, Exited}
  /\ \A g, h \in Harts : cur[g] = cur[h] => g = h
  /\ \A t \in Tasks : pl[t] = OnCPU => \E h \in Harts : cur[h] = t
  /\ \A i \in Idles : pl[i] \in {OnCPU, Ready}

Served(pl, own, mi) ==
  /\ \A l \in Locks : own[l] # None => pl[own[l]] # Exited
  /\ \A t \in Tasks, l \in Locks : pl[t] = LockQ(l) => own[l] # None
  /\ \A t \in Tasks, p \in Procs : pl[t] = WaitQ(p) => pl[p] # Exited
  /\ \A t \in Procs, c \in Conds : pl[t] = CondQ(c) => mi[t] \in Locks

IInv == TypeOK /\ Layout(place, current) /\ Served(place, owner, mutexIdx)
=============================================================================
