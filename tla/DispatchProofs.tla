--------------------------- MODULE DispatchProofs ---------------------------
(***************************************************************************)
(* Dispatch keeps its invariants for any number of CPUs, processes, locks, *)
(* condition variables and barriers.                                       *)
(***************************************************************************)
EXTENDS Dispatch, FiniteSetTheorems, TLAPS

(***************************************************************************)
(* The list heads are all different.                                       *)
(***************************************************************************)
LEMMA PlacesDiffer ==
  /\ Exited # OnCPU /\ Exited # Ready /\ Exited # Sleeping
  /\ OnCPU # Ready /\ OnCPU # Sleeping /\ Ready # Sleeping
  /\ \A x : LockQ(x) \notin {Exited, OnCPU, Ready, Sleeping}
  /\ \A x : CondQ(x) \notin {Exited, OnCPU, Ready, Sleeping}
  /\ \A x : BarQ(x) \notin {Exited, OnCPU, Ready, Sleeping}
  /\ \A x : WaitQ(x) \notin {Exited, OnCPU, Ready, Sleeping}
  /\ \A x, y : LockQ(x) # CondQ(y) /\ LockQ(x) # BarQ(y) /\ LockQ(x) # WaitQ(y)
  /\ \A x, y : CondQ(x) # BarQ(y) /\ CondQ(x) # WaitQ(y) /\ BarQ(x) # WaitQ(y)
  /\ \A x, y : (LockQ(x) = LockQ(y) => x = y) /\ (WaitQ(x) = WaitQ(y) => x = y)
BY DEF Exited, OnCPU, Ready, Sleeping, LockQ, CondQ, BarQ, WaitQ

LEMMA PlacesAre ==
  /\ {Exited, OnCPU, Ready, Sleeping} \subseteq Places
  /\ \A l \in Locks : LockQ(l) \in Places
  /\ \A c \in Conds : CondQ(c) \in Places
  /\ \A b \in Bars : BarQ(b) \in Places
  /\ \A p \in Procs : WaitQ(p) \in Places
BY DEF Places, Queues, BlockQueues

(***************************************************************************)
(* There are as many idle tasks as CPUs, so while some CPU runs a process  *)
(* some idle task is on no CPU.                                            *)
(***************************************************************************)
LEMMA IdleLeft ==
  ASSUME NEW cur \in [Harts -> Tasks], NEW h \in Harts, cur[h] \notin Idles
  PROVE  \E i \in Idles : \A g \in Harts : cur[g] # i
<1> SUFFICES ASSUME \A i \in Idles : \E g \in Harts : cur[g] = i PROVE FALSE
  OBVIOUS
<1> DEFINE f == [i \in Idles |-> CHOOSE g \in Harts : cur[g] = i]
<1>1. f \in [Idles -> Harts \ {h}] /\ \A i \in Idles : cur[f[i]] = i
  OBVIOUS
<1>2. IsFiniteSet(Harts \ {h}) /\ Cardinality(Harts \ {h}) = Cardinality(Harts) - 1
  BY FS_RemoveElement, TasksAssumption DEF TasksAssumption
<1>3. Cardinality(Harts \ {h}) < Cardinality(Idles)
  BY <1>2, FS_CardinalityType, TasksAssumption DEF TasksAssumption
<1> HIDE DEF f
<1>4. \E i, j \in Idles : i # j /\ f[i] = f[j]
  <2>1. IsFiniteSet(Idles)
    BY TasksAssumption DEF TasksAssumption
  <2> QED BY <1>1, <1>2, <1>3, <2>1, FS_PigeonHole
<1> QED BY <1>1, <1>4

(***************************************************************************)
(* do_scheduler, from any distribution of the tasks in which only the task *)
(* of the CPU it runs on may be out of order.                              *)
(***************************************************************************)
Mid(h, pl) ==
  /\ pl \in [Tasks -> Places]
  /\ \A g \in Harts \ {h} : pl[current[g]] \in {OnCPU, Exited}
  /\ \A t \in Tasks : pl[t] = OnCPU => \E g \in Harts : current[g] = t
  /\ \A i \in Idles : pl[i] \in {OnCPU, Ready}
  /\ current[h] \in Idles => pl[current[h]] = OnCPU

\* what do_scheduler may do to a single task
Moves(old, new) ==
  \A t \in Tasks : new[t] = old[t] \/ (old[t] \in {Sleeping, Ready, OnCPU} /\ new[t] \in {Ready, OnCPU})

LEMMA SwitchLayout ==
  ASSUME Layout(place, current), NEW h \in Harts, NEW pl, Mid(h, pl), Switch(h, pl)
  PROVE  Layout(place', current') /\ Moves(pl, place')
<1> DEFINE me == current[h]
<1>1. /\ current \in [Harts -> Tasks] /\ me \in Tasks
      /\ \A g \in Harts : g # h => current[g] # me
  BY DEF Layout
<1>2. pl[me] # OnCPU => At(pl, Ready) \ {me} # {}
  <2> SUFFICES ASSUME pl[me] # OnCPU PROVE At(pl, Ready) \ {me} # {}
    OBVIOUS
  <2>1. me \notin Idles
    BY DEF Mid
  <2>2. PICK i \in Idles : \A g \in Harts : current[g] # i
    BY <1>1, <2>1, IdleLeft
  <2>3. i \in Tasks /\ pl[i] = Ready /\ i # me
    BY <2>2 DEF Mid, Tasks
  <2> QED BY <2>3 DEF At
<1>3. CASE At(pl, Ready) = {}
  <2>1. place' = pl /\ current' = current
    BY <1>3 DEF Switch, Candidates
  <2>2. pl[me] = OnCPU
    BY <1>2, <1>3
  <2> QED BY <1>1, <2>1, <2>2 DEF Layout, Mid, Moves
<1>4. ASSUME NEW next \in Candidates(h, pl),
             place' = Dispatched(h, pl, next), current' = [current EXCEPT ![h] = next]
      PROVE  Layout(place', current') /\ Moves(pl, place')
  <2>1. next \in Tasks /\ pl[next] = Ready /\ next # me
    BY <1>2, <1>4, PlacesDiffer DEF Candidates, At
  <2>2. /\ place' \in [Tasks -> Places] /\ place'[next] = OnCPU
        /\ place'[me] = IF pl[me] = OnCPU THEN Ready ELSE pl[me]
        /\ \A t \in Tasks \ {me, next} : place'[t] = pl[t]
    BY <1>1, <1>4, <2>1, PlacesAre DEF Dispatched, Mid
  <2>3. /\ current' \in [Harts -> Tasks] /\ current'[h] = next
        /\ \A g \in Harts \ {h} : current'[g] = current[g] /\ current[g] # me /\ current[g] # next
    BY <1>1, <1>4, <2>1, PlacesDiffer DEF Mid
  <2>4. \A g \in Harts : place'[current'[g]] \in {OnCPU, Exited}
    BY <1>1, <2>2, <2>3 DEF Mid
  <2>5. \A g1, g2 \in Harts : current'[g1] = current'[g2] => g1 = g2
    BY <2>3 DEF Layout
  <2>6. ASSUME NEW t \in Tasks, place'[t] = OnCPU PROVE \E g \in Harts : current'[g] = t
    BY <1>1, <2>1, <2>2, <2>3, <2>6, PlacesDiffer DEF Mid
  <2>7. \A i \in Idles : place'[i] \in {OnCPU, Ready}
    BY <2>2 DEF Mid, Tasks
  <2>8. Moves(pl, place')
    BY <1>1, <2>1, <2>2 DEF Moves
  <2> QED BY <2>2, <2>3, <2>4, <2>5, <2>6, <2>7, <2>8 DEF Layout
<1> QED BY <1>3, <1>4 DEF Switch

LEMMA RescheduleLayout ==
  ASSUME Layout(place, current), NEW h \in Harts, NEW pl, Mid(h, pl), Reschedule(h, pl)
  PROVE  Layout(place', current') /\ Moves(pl, place')
<1>1. PICK due \in SUBSET At(pl, Sleeping) : Switch(h, Wake(pl, due))
  BY DEF Reschedule
<1>2. Mid(h, Wake(pl, due))
  <2>1. Wake(pl, due) \in [Tasks -> Places]
    BY PlacesAre DEF Wake, Mid
  <2>2. \A t \in Tasks : \/ Wake(pl, due)[t] = pl[t]
                         \/ pl[t] = Sleeping /\ Wake(pl, due)[t] = Ready
    BY <1>1 DEF Wake, At
  <2>3. current \in [Harts -> Tasks] /\ Idles \subseteq Tasks
    BY DEF Layout, Tasks
  <2> QED BY <2>1, <2>2, <2>3, PlacesDiffer DEF Mid
<1>3. Layout(place', current') /\ Moves(Wake(pl, due), place')
  BY <1>1, <1>2, SwitchLayout
<1>4. Moves(pl, place')
  BY <1>1, <1>3, PlacesDiffer DEF Moves, Wake, At
<1> QED BY <1>3, <1>4

(***************************************************************************)
(* The pieces the handlers are made of.                                    *)
(***************************************************************************)
LEMMA MoveServed ==
  ASSUME NEW pl \in [Tasks -> Places], NEW new \in [Tasks -> Places],
         NEW own \in [Locks -> Procs \cup {None}], NEW mi,
         Served(pl, own, mi), Moves(pl, new)
  PROVE  Served(new, own, mi)
<1>1. \A t \in Tasks : /\ new[t] = Exited => pl[t] = Exited
                       /\ \A x : new[t] \in {LockQ(x), WaitQ(x), CondQ(x)} => pl[t] = new[t]
  BY PlacesDiffer DEF Moves
<1> QED BY <1>1 DEF Served, Tasks

LEMMA Finish ==
  ASSUME Layout(place, current), NEW h \in Harts, NEW pl, Mid(h, pl), Reschedule(h, pl),
         NEW own \in [Locks -> Procs \cup {None}], NEW mi, Served(pl, own, mi)
  PROVE  Layout(place', current') /\ Served(place', own, mi)
<1>1. Layout(place', current') /\ Moves(pl, place')
  BY RescheduleLayout
<1> QED BY <1>1, MoveServed DEF Layout, Mid

LEMMA LayoutMid ==
  ASSUME NEW pl, Layout(pl, current), NEW h \in Harts
  PROVE  Mid(h, pl)
BY PlacesDiffer DEF Layout, Mid

LEMMA BlockMid ==
  ASSUME Layout(place, current), NEW h \in Harts, current[h] \in Procs,
         NEW pl, Mid(h, pl), NEW x \in BlockQueues
  PROVE  Mid(h, Block(h, pl, x))
<1>1. x \in Places /\ x # OnCPU
  BY PlacesDiffer DEF Places, Queues, BlockQueues
<1>2. /\ current[h] \notin Idles /\ current[h] \in Tasks
      /\ \A g \in Harts \ {h} : current[g] # current[h]
  BY TasksAssumption DEF TasksAssumption, Tasks, Layout
<1> QED BY <1>1, <1>2 DEF Mid, Block

LEMMA WakeLayout ==
  ASSUME Layout(place, current), NEW S, \A t \in S \cap Tasks : place[t] \notin {OnCPU, Exited}
  PROVE  Layout(Wake(place, S), current)
<1>1. Wake(place, S) \in [Tasks -> Places]
  BY PlacesAre DEF Wake, Layout
<1>2. \A t \in Tasks : Wake(place, S)[t] = IF t \in S THEN Ready ELSE place[t]
  BY DEF Wake
<1>3. Idles \subseteq Tasks
  BY DEF Tasks
<1> QED BY <1>1, <1>2, <1>3, PlacesDiffer DEF Layout

LEMMA WaitersAreProcs ==
  ASSUME Layout(place, current), NEW t \in Tasks, place[t] \notin {OnCPU, Ready}
  PROVE  t \in Procs
BY DEF Layout, Tasks

(***************************************************************************)
(* do_kill_all: nobody is left waiting for a task that ended.              *)
(***************************************************************************)
LEMMA KilledInv ==
  ASSUME IInv, NEW K \in SUBSET Procs, NEW heir \in [Locks -> Procs \cup {None}],
         Inherits(K, heir)
  PROVE  Layout(Killed(K, heir), current) /\ Served(Killed(K, heir), heir, mutexIdx)
<1> DEFINE new == Killed(K, heir)
<1>a. Layout(place, current) /\ Served(place, owner, mutexIdx) /\ TypeOK
  BY DEF IInv
<1>b. None \notin Tasks /\ K \subseteq Tasks /\ Procs \subseteq Tasks /\ K \cap Idles = {}
  BY TasksAssumption DEF TasksAssumption, Tasks
<1>1. /\ new \in [Tasks -> Places]
      /\ \A t \in Tasks : \/ t \in K /\ new[t] = Exited
                          \/ /\ t \notin K /\ new[t] = Ready
                             /\ place[t] \notin {OnCPU, Exited, Ready}
                          \/ t \notin K /\ new[t] = place[t]
  <2>1. ASSUME NEW t \in Tasks, t \notin K, NEW l \in Locks, owner[l] \in K, heir[l] = t
        PROVE  place[t] = LockQ(l)
    BY <1>b, <2>1 DEF Inherits, Heirs, At
  <2>2. \A t \in Tasks : new[t] = IF t \in K THEN Exited
          ELSE IF \/ \E k \in K : place[t] = WaitQ(k)
                  \/ \E l \in Locks : owner[l] \in K /\ heir[l] = t
               THEN Ready ELSE place[t]
    BY DEF Killed
  <2>3. new \in [Tasks -> Places]
    BY <1>a, PlacesAre DEF Killed, Layout
  <2> QED BY <2>1, <2>2, <2>3, PlacesDiffer
<1>2. \A t \in K : new[t] = Exited
  BY <1>b DEF Killed
<1>3. Layout(new, current)
  <2>1. \A i \in Idles : i \in Tasks /\ i \notin K
    BY <1>b DEF Tasks
  <2> HIDE DEF new
  <2> QED BY <1>a, <1>1, <2>1, PlacesDiffer DEF Layout
<1>4. ASSUME NEW l \in Locks, heir[l] # None PROVE new[heir[l]] # Exited
  <2>1. CASE owner[l] \in K
    <3>1. heir[l] \in At(place, LockQ(l)) \ K
      BY <1>4, <2>1 DEF Inherits, Heirs
    <3> QED BY <2>1, <3>1, PlacesDiffer DEF Killed, At
  <2>2. CASE owner[l] \notin K
    <3>1. heir[l] = owner[l] /\ heir[l] \in Tasks /\ place[heir[l]] # Exited
      BY <1>4, <1>a, <1>b, <2>2 DEF Inherits, Served, TypeOK
    <3> HIDE DEF new
    <3> QED BY <1>1, <2>2, <3>1, PlacesDiffer
  <2> QED BY <2>1, <2>2
<1>5. ASSUME NEW t \in Tasks, NEW l \in Locks, new[t] = LockQ(l) PROVE heir[l] # None
  <2>1. t \notin K /\ place[t] = LockQ(l)
    BY <1>1, <1>5, PlacesDiffer
  <2>2. owner[l] # None
    BY <1>a, <2>1 DEF Served
  <2>3. t \in At(place, LockQ(l)) \ K
    BY <2>1 DEF At
  <2> QED BY <1>b, <2>2, <2>3 DEF Inherits, Heirs, At
<1>6. ASSUME NEW t \in Tasks, NEW p \in Procs, new[t] = WaitQ(p) PROVE new[p] # Exited
  <2>1. t \notin K /\ place[t] = WaitQ(p)
    BY <1>1, <1>6, PlacesDiffer
  <2>2. p \notin K
    BY <1>6, <2>1, PlacesDiffer DEF Killed
  <2>3. place[p] # Exited
    BY <1>a, <2>1 DEF Served
  <2> HIDE DEF new
  <2> QED BY <1>1, <1>b, <2>2, <2>3, PlacesDiffer
<1>7. ASSUME NEW t \in Procs, NEW c \in Conds, new[t] = CondQ(c) PROVE mutexIdx[t] \in Locks
  <2>1. place[t] = CondQ(c)
    BY <1>1, <1>7, <1>b, PlacesDiffer
  <2> QED BY <1>a, <2>1 DEF Served
<1> QED BY <1>3, <1>4, <1>5, <1>6, <1>7 DEF Served

(***************************************************************************)
(* do_condition_signal and do_condition_broadcast: each woken waiter owns  *)
(* its mutex or queues behind an owner.                                    *)
(***************************************************************************)
LEMMA ReacquireInv ==
  ASSUME IInv, NEW c \in Conds, NEW W \in SUBSET At(place, CondQ(c)), Reacquire(W)
  PROVE  IInv'
<1>1. PICK own \in [Locks -> Procs \cup {None}] :
        /\ \A l \in Locks : own[l] \in IF owner[l] = None THEN Heirs(Wants(W, l)) ELSE {owner[l]}
        /\ owner' = own
        /\ place' = [t \in Tasks |->
                       IF t \notin W THEN place[t]
                       ELSE IF owner[mutexIdx[t]] = None /\ own[mutexIdx[t]] = t THEN Ready
                       ELSE LockQ(mutexIdx[t])]
        /\ UNCHANGED <<current, parent, mutexIdx>>
  BY DEF Reacquire
<1>a. Layout(place, current) /\ Served(place, owner, mutexIdx) /\ TypeOK
  BY DEF IInv
<1>b. None \notin Tasks /\ Procs \subseteq Tasks /\ Idles \subseteq Tasks
  BY TasksAssumption DEF TasksAssumption, Tasks
<1>2. \A t \in W : t \in Procs /\ place[t] = CondQ(c) /\ mutexIdx[t] \in Locks
  BY <1>a, WaitersAreProcs, PlacesDiffer DEF At, Served
<1>3. place' \in [Tasks -> Places]
  BY <1>1, <1>2, <1>a, PlacesAre DEF Layout
<1>4. \A t \in Tasks :
        \/ t \notin W /\ place'[t] = place[t]
        \/ /\ t \in W /\ place[t] = CondQ(c) /\ mutexIdx[t] \in Locks
           /\ \/ place'[t] = Ready
              \/ place'[t] = LockQ(mutexIdx[t]) /\ ~(owner[mutexIdx[t]] = None /\ own[mutexIdx[t]] = t)
  BY <1>1, <1>2
<1>5. Layout(place', current')
  BY <1>1, <1>3, <1>4, <1>a, <1>b, PlacesDiffer DEF Layout
<1>6. ASSUME NEW l \in Locks, own[l] # None PROVE place'[own[l]] # Exited
  <2>1. CASE owner[l] = None
    <3>1. own[l] \in Wants(W, l)
      BY <1>1, <1>6, <2>1 DEF Heirs
    <3>2. own[l] \in W /\ own[l] \in Tasks
      BY <1>2, <1>b, <3>1 DEF Wants
    <3> QED BY <1>4, <3>2, PlacesDiffer
  <2>2. CASE owner[l] # None
    <3>1. own[l] = owner[l] /\ own[l] \in Tasks /\ place[own[l]] # Exited
      BY <1>1, <1>a, <1>b, <1>6, <2>2 DEF Served
    <3> QED BY <1>4, <3>1, PlacesDiffer
  <2> QED BY <2>1, <2>2
<1>7. ASSUME NEW t \in Tasks, NEW l \in Locks, place'[t] = LockQ(l) PROVE own[l] # None
  <2>1. CASE t \notin W
    BY <1>1, <1>4, <1>7, <1>a, <2>1 DEF Served
  <2>2. CASE t \in W
    <3>1. mutexIdx[t] = l /\ ~(owner[l] = None /\ own[l] = t)
      BY <1>4, <1>7, <2>2, PlacesDiffer
    <3>2. t \in Wants(W, l) /\ None \notin Wants(W, l)
      BY <1>2, <1>b, <2>2, <3>1 DEF Wants
    <3> QED BY <1>1, <3>1, <3>2 DEF Heirs
  <2> QED BY <2>1, <2>2
<1>8. ASSUME NEW t \in Tasks, NEW p \in Procs, place'[t] = WaitQ(p) PROVE place'[p] # Exited
  <2>1. place[t] = WaitQ(p)
    BY <1>4, <1>8, PlacesDiffer
  <2> QED BY <1>4, <1>a, <1>b, <2>1, PlacesDiffer DEF Served
<1>9. \A t \in Procs, d \in Conds : place'[t] = CondQ(d) => mutexIdx[t] \in Locks
  BY <1>4, <1>a, <1>b, PlacesDiffer DEF Served
<1>10. Served(place', owner', mutexIdx')
  BY <1>1, <1>6, <1>7, <1>8, <1>9 DEF Served
<1>11. TypeOK'
  BY <1>1, <1>5, <1>a DEF TypeOK, Layout
<1> QED BY <1>5, <1>10, <1>11 DEF IInv

-----------------------------------------------------------------------------
(***************************************************************************)
(* Releasing a mutex, alone or on the way into a condition variable.       *)
(***************************************************************************)
LEMMA ReleasedInv ==
  ASSUME IInv, NEW h \in Harts, Calls(h), NEW l \in Locks, NEW o \in Successors(h, l)
  PROVE  /\ o \in Procs \cup {None}
         /\ Layout(Released(h, l, o), current)
         /\ Served(Released(h, l, o), [owner EXCEPT ![l] = o], mutexIdx)
<1> DEFINE pl == Released(h, l, o)  own == [owner EXCEPT ![l] = o]
<1>a. Layout(place, current) /\ Served(place, owner, mutexIdx) /\ TypeOK
  BY DEF IInv
<1>b. None \notin Tasks /\ Procs \subseteq Tasks
  BY TasksAssumption DEF TasksAssumption, Tasks
<1>1. CASE owner[l] # current[h]
  <2>1. o = owner[l] /\ pl = place /\ own = owner
    BY <1>1, <1>a DEF Successors, Released, TypeOK
  <2> QED BY <1>a, <2>1 DEF TypeOK
<1>2. CASE owner[l] = current[h] /\ At(place, LockQ(l)) = {}
  <2>1. o = None /\ Wake(place, {o}) = place
    BY <1>2, <1>a, <1>b DEF Successors, Heirs, Wake, Layout
  <2>2. pl = place /\ \A m \in Locks : own[m] = IF m = l THEN None ELSE owner[m]
    BY <1>2, <1>a, <2>1 DEF Released, TypeOK
  <2>3. \A t \in Tasks : place[t] # LockQ(l)
    BY <1>2 DEF At
  <2>4. Served(place, own, mutexIdx)
    <3> HIDE DEF own
    <3> QED BY <1>a, <2>2, <2>3, PlacesDiffer DEF Served
  <2> QED BY <1>a, <2>1, <2>2, <2>4
<1>3. CASE owner[l] = current[h] /\ At(place, LockQ(l)) # {}
  <2>1. o \in Procs /\ o \in Tasks /\ place[o] = LockQ(l)
    BY <1>3, <1>a, <1>b, WaitersAreProcs, PlacesDiffer DEF Successors, Heirs, At
  <2>2. pl = Wake(place, {o}) /\ \A m \in Locks : own[m] = IF m = l THEN o ELSE owner[m]
    BY <1>3, <1>a DEF Released, TypeOK
  <2>3. Layout(pl, current)
    BY <1>a, <2>1, <2>2, WakeLayout, PlacesDiffer
  <2>4. \A t \in Tasks : pl[t] = IF t = o THEN Ready ELSE place[t]
    BY <2>2 DEF Wake
  <2>5. Served(pl, own, mutexIdx)
    <3> HIDE DEF own, pl
    <3>1. \A m \in Locks : own[m] # None => own[m] \in Tasks /\ pl[own[m]] # Exited
      BY <1>a, <1>b, <2>1, <2>2, <2>4, PlacesDiffer DEF Served, TypeOK
    <3>2. \A t \in Tasks, m \in Locks : pl[t] = LockQ(m) => own[m] # None
      BY <1>a, <1>b, <2>1, <2>2, <2>4, PlacesDiffer DEF Served
    <3>3. \A t \in Tasks, p \in Procs : pl[t] = WaitQ(p) => pl[p] # Exited
      BY <1>a, <1>b, <2>1, <2>4, PlacesDiffer DEF Served
    <3>4. \A t \in Procs, c \in Conds : pl[t] = CondQ(c) => mutexIdx[t] \in Locks
      BY <1>a, <1>b, <2>1, <2>4, PlacesDiffer DEF Served
    <3> QED BY <3>1, <3>2, <3>3, <3>4 DEF Served
  <2> QED BY <2>1, <2>3, <2>5
<1> QED BY <1>1, <1>2, <1>3

(***************************************************************************)
(* Blocking the caller of a handler on a queue it may wait on.             *)
(***************************************************************************)
LEMMA BlockServed ==
  ASSUME IInv, NEW h \in Harts, Calls(h),
         NEW pl, pl \in [Tasks -> Places], NEW own, NEW mi, NEW x \in BlockQueues,
         Served(pl, own, mi),
         \A l \in Locks : x = LockQ(l) => own[l] # None,
         \A p \in Procs : x = WaitQ(p) => pl[p] # Exited,
         \A c \in Conds : x = CondQ(c) => mi[current[h]] \in Locks
  PROVE  Served(Block(h, pl, x), own, mi)
<1>1. x # Exited
  BY PlacesDiffer DEF BlockQueues
<1>2. \A t \in Tasks : Block(h, pl, x)[t] = IF t = current[h] THEN x ELSE pl[t]
  BY DEF Block
<1>3. \A l \in Locks : own[l] # None => Block(h, pl, x)[own[l]] # Exited
  BY <1>1 DEF Served, Block
<1>4. Procs \subseteq Tasks
  BY DEF Tasks
<1> QED BY <1>1, <1>2, <1>3, <1>4 DEF Served

LEMMA BlockInv ==
  ASSUME IInv, NEW h \in Harts, Calls(h),
         NEW pl, Mid(h, pl), NEW x \in BlockQueues, Reschedule(h, Block(h, pl, x)),
         owner' \in [Locks -> Procs \cup {None}], parent' = parent,
         mutexIdx' \in [Procs -> Locks \cup {None}],
         Served(pl, owner', mutexIdx'),
         \A l \in Locks : x = LockQ(l) => owner'[l] # None,
         \A p \in Procs : x = WaitQ(p) => pl[p] # Exited,
         \A c \in Conds : x = CondQ(c) => mutexIdx'[current[h]] \in Locks
  PROVE  IInv'
<1>1. Layout(place, current) /\ TypeOK /\ current[h] \in Procs
  BY DEF IInv, Calls
<1>2. Mid(h, Block(h, pl, x))
  BY <1>1, BlockMid
<1>3. Served(Block(h, pl, x), owner', mutexIdx')
  BY BlockServed DEF Mid
<1>4. Layout(place', current') /\ Served(place', owner', mutexIdx')
  BY <1>1, <1>2, <1>3, Finish
<1> QED BY <1>1, <1>4 DEF IInv, TypeOK, Layout

-----------------------------------------------------------------------------
(***************************************************************************)
(* The invariant is inductive.                                             *)
(***************************************************************************)
LEMMA InitInv == Init => IInv
<1> SUFFICES ASSUME Init PROVE IInv
  OBVIOUS
<1>0. None \notin Tasks /\ Procs \cap Idles = {} /\ Tasks = Procs \cup Idles
  BY TasksAssumption DEF TasksAssumption, Tasks
<1>1. PICK shell \in Procs :
        place = [t \in Tasks |-> IF t \in Idles THEN OnCPU ELSE IF t = shell THEN Ready ELSE Exited]
  BY DEF Init
<1>2. place \in [Tasks -> Places]
  BY <1>1, PlacesAre
<1>3. \A t \in Tasks : /\ place[t] \in {OnCPU, Ready, Exited}
                       /\ place[t] = OnCPU <=> t \in Idles
  BY <1>1, PlacesDiffer
<1>4. current \in [Harts -> Tasks] /\ \A h \in Harts : current[h] \in Idles
  BY <1>0 DEF Init
<1>5. \A i \in Idles : \E h \in Harts : current[h] = i
  <2> SUFFICES ASSUME NEW i \in Idles, \A h \in Harts : current[h] # i PROVE FALSE
    OBVIOUS
  <2>1. current \in [Harts -> Idles \ {i}]
    BY DEF Init
  <2>2. /\ IsFiniteSet(Harts) /\ IsFiniteSet(Idles \ {i})
        /\ Cardinality(Idles \ {i}) = Cardinality(Idles) - 1
    BY FS_RemoveElement, TasksAssumption DEF TasksAssumption
  <2>3. Cardinality(Idles \ {i}) < Cardinality(Harts)
    BY <2>2, FS_CardinalityType, TasksAssumption DEF TasksAssumption
  <2>4. \E g, h \in Harts : g # h /\ current[g] = current[h]
    BY <2>1, <2>2, <2>3, FS_PigeonHole
  <2> QED BY <2>4 DEF Init
<1>6. Layout(place, current)
  BY <1>0, <1>2, <1>3, <1>4, <1>5 DEF Layout, Init
<1>7. Served(place, owner, mutexIdx)
  BY <1>0, <1>3, PlacesDiffer DEF Served, Init
<1> QED BY <1>2, <1>4, <1>6, <1>7 DEF IInv, TypeOK, Init

LEMMA StepInv == IInv /\ [Next]_vars => IInv'
<1> SUFFICES ASSUME IInv, [Next]_vars PROVE IInv'
  OBVIOUS
<1>a. Layout(place, current) /\ Served(place, owner, mutexIdx) /\ TypeOK
  BY DEF IInv
<1>b. \A h \in Harts : Mid(h, place)
  BY <1>a, LayoutMid
<1>c. Sleeping \in BlockQueues /\ (\A l \in Locks : LockQ(l) \in BlockQueues)
      /\ (\A c \in Conds : CondQ(c) \in BlockQueues) /\ (\A b \in Bars : BarQ(b) \in BlockQueues)
      /\ (\A p \in Procs : WaitQ(p) \in BlockQueues)
  BY DEF BlockQueues
<1>d. owner \in [Locks -> Procs \cup {None}] /\ mutexIdx \in [Procs -> Locks \cup {None}]
      /\ parent \in [Procs -> Procs \cup {None}] /\ place \in [Tasks -> Places]
  BY <1>a DEF TypeOK
<1>e. None \notin Tasks /\ Procs \subseteq Tasks
  BY TasksAssumption DEF TasksAssumption, Tasks
<1>1. ASSUME NEW h \in Harts, Timer(h) PROVE IInv'
  <2>1. Layout(place', current') /\ Served(place', owner', mutexIdx')
    BY <1>1, <1>a, <1>b, <1>d, Finish DEF Timer
  <2> QED BY <1>1, <1>d, <2>1 DEF IInv, TypeOK, Layout, Timer
<1>2. ASSUME NEW h \in Harts, NEW j \in Procs, NEW par \in Procs \cup {None}, Launch(h, j, par)
      PROVE  IInv'
  <2>1. /\ place' \in [Tasks -> Places] /\ current' = current /\ owner' = owner
        /\ \A t \in Tasks : place'[t] = IF t = j THEN Ready ELSE place[t]
    BY <1>2, <1>d, PlacesAre DEF Launch
  <2>2. Layout(place', current')
    BY <1>2, <1>a, <1>e, <2>1, PlacesDiffer DEF Layout, Launch, Tasks
  <2>3. Served(place', owner', mutexIdx')
    BY <1>2, <1>a, <1>d, <1>e, <2>1, PlacesDiffer DEF Served, Launch
  <2> QED BY <1>2, <1>d, <2>1, <2>2, <2>3 DEF IInv, TypeOK, Layout, Launch
<1>3. ASSUME NEW h \in Harts, Exit(h) PROVE IInv'
  <2>1. PICK heir \in [Locks -> Procs \cup {None}] :
          /\ Calls(h) /\ Inherits(Family(current[h]), heir) /\ owner' = heir
          /\ Reschedule(h, Killed(Family(current[h]), heir)) /\ UNCHANGED <<parent, mutexIdx>>
    BY <1>3 DEF Exit
  <2>2. Family(current[h]) \in SUBSET Procs
    BY <2>1 DEF Family, Calls
  <2>3. /\ Layout(Killed(Family(current[h]), heir), current)
        /\ Served(Killed(Family(current[h]), heir), heir, mutexIdx)
    BY <2>1, <2>2, KilledInv
  <2>4. Layout(place', current') /\ Served(place', owner', mutexIdx')
    BY <1>a, <2>1, <2>3, LayoutMid, Finish
  <2> QED BY <1>d, <2>1, <2>4 DEF IInv, TypeOK, Layout
<1>4. ASSUME NEW h \in Harts, NEW p \in Procs, Kill(h, p) PROVE IInv'
  <2>1. PICK heir \in [Locks -> Procs \cup {None}] :
          /\ Inherits(Family(p), heir) /\ owner' = heir /\ place' = Killed(Family(p), heir)
          /\ UNCHANGED <<current, parent, mutexIdx>>
    BY <1>4 DEF Kill
  <2>2. Family(p) \in SUBSET Procs
    BY DEF Family
  <2>3. Layout(place', current') /\ Served(place', owner', mutexIdx')
    BY <2>1, <2>2, KilledInv
  <2> QED BY <1>d, <2>1, <2>3 DEF IInv, TypeOK, Layout
<1>5. ASSUME NEW h \in Harts, NEW p \in Procs, Waitpid(h, p) PROVE IInv'
  <2>1. /\ Calls(h) /\ Reschedule(h, Block(h, place, WaitQ(p))) /\ place[p] # Exited
        /\ owner' = owner /\ parent' = parent /\ mutexIdx' = mutexIdx
    BY <1>5 DEF Waitpid
  <2>2. /\ \A q \in Procs : WaitQ(p) = WaitQ(q) => place[q] # Exited
        /\ \A l \in Locks : WaitQ(p) # LockQ(l)
        /\ \A c \in Conds : WaitQ(p) # CondQ(c)
    BY <2>1, PlacesDiffer
  <2> QED BY <1>a, <1>b, <1>c, <1>d, <2>1, <2>2, BlockInv
<1>6. ASSUME NEW h \in Harts, Sleep(h) PROVE IInv'
  <2>1. /\ Calls(h) /\ Reschedule(h, Block(h, place, Sleeping))
        /\ owner' = owner /\ parent' = parent /\ mutexIdx' = mutexIdx
    BY <1>6 DEF Sleep
  <2> QED BY <1>a, <1>b, <1>c, <1>d, <2>1, BlockInv, PlacesDiffer
<1>7. ASSUME NEW h \in Harts, NEW l \in Locks, Acquire(h, l) PROVE IInv'
  <2>1. CASE owner[l] = None
    <3>1. /\ place' = place /\ current' = current /\ parent' = parent /\ mutexIdx' = mutexIdx
          /\ owner' = [owner EXCEPT ![l] = current[h]]
          /\ current[h] \in Procs /\ place[current[h]] = OnCPU
      BY <1>7, <2>1 DEF Acquire, Calls
    <3>2. \A m \in Locks : owner'[m] = IF m = l THEN current[h] ELSE owner[m]
      BY <1>d, <3>1
    <3>3. Served(place', owner', mutexIdx')
      BY <1>a, <1>e, <3>1, <3>2, PlacesDiffer DEF Served
    <3> QED BY <1>a, <1>d, <3>1, <3>3 DEF IInv, TypeOK
  <2>2. CASE owner[l] # None
    <3>1. /\ Calls(h) /\ Reschedule(h, Block(h, place, LockQ(l)))
          /\ owner' = owner /\ parent' = parent /\ mutexIdx' = mutexIdx
      BY <1>7, <2>2 DEF Acquire
    <3> QED BY <1>a, <1>b, <1>c, <1>d, <2>2, <3>1, BlockInv, PlacesDiffer
  <2> QED BY <2>1, <2>2
<1>8. ASSUME NEW h \in Harts, NEW l \in Locks, Release(h, l) PROVE IInv'
  <2>1. PICK o \in Successors(h, l) :
          /\ Calls(h) /\ owner' = [owner EXCEPT ![l] = o] /\ place' = Released(h, l, o)
          /\ UNCHANGED <<current, parent, mutexIdx>>
    BY <1>8 DEF Release
  <2>2. /\ o \in Procs \cup {None} /\ Layout(place', current')
        /\ Served(place', owner', mutexIdx')
    BY <2>1, ReleasedInv
  <2> QED BY <1>d, <2>1, <2>2 DEF IInv, TypeOK, Layout
<1>9. ASSUME NEW h \in Harts, NEW c \in Conds, NEW l \in Locks, CondWait(h, c, l) PROVE IInv'
  <2>1. PICK o \in Successors(h, l) :
          /\ Calls(h) /\ owner' = [owner EXCEPT ![l] = o] /\ parent' = parent
          /\ mutexIdx' = [mutexIdx EXCEPT ![current[h]] = l]
          /\ Reschedule(h, Block(h, Released(h, l, o), CondQ(c)))
    BY <1>9 DEF CondWait
  <2>2. /\ o \in Procs \cup {None} /\ Layout(Released(h, l, o), current)
        /\ Served(Released(h, l, o), owner', mutexIdx)
    BY <2>1, ReleasedInv
  <2>3. /\ mutexIdx' \in [Procs -> Locks \cup {None}] /\ mutexIdx'[current[h]] = l
        /\ \A t \in Procs : mutexIdx'[t] = l \/ mutexIdx'[t] = mutexIdx[t]
    BY <1>d, <2>1 DEF Calls
  <2>4. Served(Released(h, l, o), owner', mutexIdx')
    BY <2>2, <2>3 DEF Served
  <2>5. owner' \in [Locks -> Procs \cup {None}]
    BY <1>d, <2>1, <2>2
  <2>6. Mid(h, Released(h, l, o))
    BY <2>2, LayoutMid
  <2>7. /\ \A m \in Locks : CondQ(c) # LockQ(m)
        /\ \A q \in Procs : CondQ(c) # WaitQ(q)
    BY PlacesDiffer
  <2>8. \A d \in Conds : CondQ(c) = CondQ(d) => mutexIdx'[current[h]] \in Locks
    BY <2>3
  <2> DEFINE pl == Released(h, l, o)
  <2>9. Mid(h, pl) /\ Served(pl, owner', mutexIdx') /\ Reschedule(h, Block(h, pl, CondQ(c)))
    BY <2>1, <2>4, <2>6
  <2>10. CondQ(c) \in BlockQueues /\ Calls(h) /\ parent' = parent
    BY <1>c, <2>1
  <2>11. mutexIdx' \in [Procs -> Locks \cup {None}]
    BY <2>3
  <2> HIDE DEF pl
  <2> QED BY <2>5, <2>7, <2>8, <2>9, <2>10, <2>11, BlockInv
<1>10. ASSUME NEW h \in Harts, NEW c \in Conds, Signal(h, c) \/ Broadcast(h, c) PROVE IInv'
  BY <1>10, ReacquireInv DEF Signal, Broadcast
<1>11. ASSUME NEW h \in Harts, NEW b \in Bars, BarrierWait(h, b) PROVE IInv'
  <2>1. CASE Reschedule(h, Block(h, place, BarQ(b)))
    <3>1. /\ Calls(h) /\ owner' = owner /\ parent' = parent /\ mutexIdx' = mutexIdx
      BY <1>11 DEF BarrierWait
    <3> QED BY <1>a, <1>b, <1>c, <1>d, <2>1, <3>1, BlockInv, PlacesDiffer
  <2>2. CASE place' = Wake(place, At(place, BarQ(b))) /\ UNCHANGED current
    <3>1. Layout(place', current')
      BY <1>a, <2>2, WakeLayout, PlacesDiffer DEF At
    <3>2. /\ UNCHANGED <<owner, parent, mutexIdx>>
          /\ \A t \in Tasks : \/ place'[t] = place[t]
                              \/ place[t] = BarQ(b) /\ place'[t] = Ready
      BY <1>11, <2>2 DEF BarrierWait, Wake, At
    <3>3. Served(place', owner', mutexIdx')
      BY <1>a, <1>d, <1>e, <3>2, PlacesDiffer DEF Served
    <3> QED BY <1>d, <3>1, <3>2, <3>3 DEF IInv, TypeOK, Layout
  <2> QED BY <1>11, <2>1, <2>2 DEF BarrierWait
<1>12. CASE UNCHANGED vars
  BY <1>12 DEF vars, IInv, TypeOK, Layout, Served
<1>13. ASSUME NEW h \in Harts, NEW p \in Procs, Launch(h, p, current[h]) PROVE IInv'
  <2>1. current[h] \in Procs
    BY <1>13 DEF Launch, Calls
  <2> QED BY <1>2, <1>13, <2>1
<1> QED BY <1>1, <1>2, <1>3, <1>4, <1>5, <1>6, <1>7, <1>8, <1>9, <1>10, <1>11, <1>12, <1>13 DEF Next

THEOREM Inductive == Spec => []IInv
<1>1. Init => IInv BY InitInv
<1>2. IInv /\ [Next]_vars => IInv' BY StepInv
<1> QED BY <1>1, <1>2, PTL DEF Spec

(***************************************************************************)
(* Every CPU always runs a task that is its own and runnable: the fallback *)
(* of do_scheduler, which keeps the current task when ready_queue is empty *)
(* even if it has just blocked, is never taken by a blocked task.          *)
(***************************************************************************)
THEOREM CPUsRunRunners == Spec => []OnlyRunnersRun
<1>1. IInv => OnlyRunnersRun BY DEF IInv, Layout, OnlyRunnersRun
<1> QED BY <1>1, Inductive, PTL

(***************************************************************************)
(* A locked mutex has a live owner and every waiter of a mutex or a        *)
(* waitpid something that can still happen, whatever is killed meanwhile.  *)
(***************************************************************************)
THEOREM NobodyWaitsForTheDead == Spec => [](OwnersAlive /\ WaitersServed /\ CondKnowsMutex)
<1>1. IInv => OwnersAlive /\ WaitersServed /\ CondKnowsMutex
  BY DEF IInv, Served, OwnersAlive, WaitersServed, CondKnowsMutex
<1> QED BY <1>1, Inductive, PTL

(***************************************************************************)
(* Type correctness.                                                       *)
(***************************************************************************)
THEOREM TypeCorrect == Spec => []TypeOK
<1>1. IInv => TypeOK BY DEF IInv
<1> QED BY <1>1, Inductive, PTL
=============================================================================
