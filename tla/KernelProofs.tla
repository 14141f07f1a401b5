---------------------------- MODULE KernelProofs ----------------------------
(***************************************************************************)
(* Kernel keeps its invariants and implements Dispatch, for any number of  *)
(* CPUs, processes, locks, condition variables and barriers.  The proofs   *)
(* follow Fit through the changes of a handler, and with it where each     *)
(* change puts the tasks (Where) and the mutexes (Owners).                 *)
(***************************************************************************)
EXTENDS KernelProps, Recursion

LEMMA HeadsDiffer ==
  /\ \A x : Ready \notin {Sleeping, LockQ(x), CondQ(x), BarQ(x), WaitQ(x)}
  /\ \A x : Sleeping \notin {LockQ(x), CondQ(x), BarQ(x), WaitQ(x)}
  /\ \A x, y : LockQ(x) \notin {CondQ(y), BarQ(y), WaitQ(y)}
  /\ \A x, y : CondQ(x) \notin {BarQ(y), WaitQ(y)} /\ BarQ(x) # WaitQ(y)
  /\ \A x, y : (LockQ(x) = LockQ(y) => x = y) /\ (WaitQ(x) = WaitQ(y) => x = y)
  /\ \A x, y : CondQ(x) = CondQ(y) => x = y
BY DEF Ready, Sleeping, LockQ, CondQ, BarQ, WaitQ

LEMMA HeadsAre ==
  /\ Sleeping \in BlockQueues
  /\ \A l \in Locks : LockQ(l) \in BlockQueues
  /\ \A c \in Conds : CondQ(c) \in BlockQueues
  /\ \A b \in Bars : BarQ(b) \in BlockQueues
  /\ \A p \in Procs : WaitQ(p) \in BlockQueues
  /\ Queues = {Ready} \cup BlockQueues /\ Ready \notin BlockQueues
BY HeadsDiffer DEF Queues, BlockQueues

(***************************************************************************)
(* The list operations.                                                    *)
(***************************************************************************)
Lists == {q \in [Queues -> Seq(Tasks)] : \A x \in Queues : IsInjective(q[x])}

LEMMA RemoveIs ==
  ASSUME NEW q \in Lists, NEW t
  PROVE  /\ LIST_REMOVE(q, t) \in Lists
         /\ \A x \in Queues : Range(LIST_REMOVE(q, t)[x]) = Range(q[x]) \ {t}
<1>1. \A x \in Queues : q[x] \in Seq(Tasks) /\ IsInjective(q[x])
  BY DEF Lists
<1>2. \A x \in Queues : /\ RemoveFirst(q[x], t) \in Seq(Tasks) /\ IsInjective(RemoveFirst(q[x], t))
                        /\ Range(RemoveFirst(q[x], t)) = Range(q[x]) \ {t}
  BY <1>1, RemoveFirstRange
<1> QED BY <1>2 DEF LIST_REMOVE, Lists

LEMMA RemoveType ==
  ASSUME NEW q \in [Queues -> Seq(Tasks)], NEW t
  PROVE  LIST_REMOVE(q, t) \in [Queues -> Seq(Tasks)]
<1>1. \A x \in Queues : RemoveFirst(q[x], t) \in Seq(Tasks)
  BY RemoveFirstType
<1> QED BY <1>1 DEF LIST_REMOVE

LEMMA PutType ==
  ASSUME NEW q \in [Queues -> Seq(Tasks)], NEW t \in Tasks, NEW x
  PROVE  AddHead(q, x, t) \in [Queues -> Seq(Tasks)] /\ AddTail(q, x, t) \in [Queues -> Seq(Tasks)]
BY RemoveType DEF AddHead, AddTail

\* t is put in front of a list it is not on, or behind it
LEMMA HeadTail ==
  ASSUME NEW s \in Seq(Tasks), NEW t \in Tasks, IsInjective(s), t \notin Range(s)
  PROVE  /\ IsInjective(<<t>> \o s) /\ Range(<<t>> \o s) = Range(s) \cup {t}
         /\ IsInjective(Append(s, t)) /\ Range(Append(s, t)) = Range(s) \cup {t}
<1>1. DOMAIN s = 1 .. Len(s) /\ \A i \in 1 .. Len(s) : s[i] # t
  BY DEF Range
<1> DEFINE h == <<t>> \o s
           a == Append(s, t)
<1>2. /\ DOMAIN h = 1 .. (Len(s) + 1) /\ h[1] = t
      /\ \A i \in 1 .. Len(s) : h[i + 1] = s[i]
  OBVIOUS
<1>3. /\ DOMAIN a = 1 .. (Len(s) + 1) /\ a[Len(s) + 1] = t
      /\ \A i \in 1 .. Len(s) : a[i] = s[i]
  OBVIOUS
<1> HIDE DEF h, a
<1>4. \A i \in 1 .. (Len(s) + 1) : i = 1 \/ (i - 1 \in 1 .. Len(s) /\ h[i] = s[i - 1])
  <2> TAKE i \in 1 .. (Len(s) + 1)
  <2>1. i # 1 => i - 1 \in 1 .. Len(s) /\ (i - 1) + 1 = i
    OBVIOUS
  <2> QED BY <1>2, <2>1
<1>5. \A i \in 1 .. (Len(s) + 1) : i = Len(s) + 1 \/ i \in 1 .. Len(s)
  OBVIOUS
<1>6. IsInjective(h)
  <2> SUFFICES ASSUME NEW i \in 1 .. (Len(s) + 1), NEW j \in 1 .. (Len(s) + 1), h[i] = h[j] PROVE i = j
    BY <1>2 DEF IsInjective
  <2>1. CASE i = 1 \/ j = 1
    BY <1>1, <1>2, <1>4, <2>1
  <2>2. CASE i # 1 /\ j # 1
    <3>1. i - 1 \in DOMAIN s /\ j - 1 \in DOMAIN s /\ s[i - 1] = s[j - 1]
      BY <1>1, <1>4, <2>2
    <3>2. i - 1 = j - 1
      BY <3>1 DEF IsInjective
    <3> QED BY <3>2
  <2> QED BY <2>1, <2>2
<1>7. IsInjective(a)
  BY <1>1, <1>3, <1>5 DEF IsInjective
<1>8. Range(h) = Range(s) \cup {t}
  <2>1. \A u \in Range(h) : u \in Range(s) \cup {t}
    BY <1>1, <1>2, <1>4 DEF Range
  <2>2. \A i \in 1 .. Len(s) : i + 1 \in 1 .. (Len(s) + 1)
    OBVIOUS
  <2>3. \A u \in Range(s) : u \in Range(h)
    BY <1>1, <1>2, <2>2 DEF Range
  <2>4. 1 \in 1 .. (Len(s) + 1)
    OBVIOUS
  <2>5. t \in Range(h)
    BY <1>2, <2>4 DEF Range
  <2> QED BY <2>1, <2>3, <2>5
<1>9. Range(a) = Range(s) \cup {t}
  <2>1. \A u \in Range(a) : u \in Range(s) \cup {t}
    BY <1>1, <1>3, <1>5 DEF Range
  <2>2. Len(s) + 1 \in 1 .. (Len(s) + 1) /\ \A i \in 1 .. Len(s) : i \in 1 .. (Len(s) + 1)
    OBVIOUS
  <2>3. \A u \in Range(s) : u \in Range(a)
    BY <1>1, <1>3, <2>2 DEF Range
  <2>4. t \in Range(a)
    BY <1>3, <2>2 DEF Range
  <2> QED BY <2>1, <2>3, <2>4
<1> QED BY <1>6, <1>7, <1>8, <1>9 DEF h, a

\* r are the lists q after t has moved to x
Puts(q, t, x, r) ==
  /\ r \in Lists
  /\ \A y \in Queues : Range(r[y]) = IF y = x THEN Range(q[y]) \cup {t} ELSE Range(q[y]) \ {t}

LEMMA PutIs ==
  ASSUME NEW q \in Lists, NEW t \in Tasks, NEW x \in Queues,
         NEW r, r = AddHead(q, x, t) \/ r = AddTail(q, x, t)
  PROVE  Puts(q, t, x, r)
<1> DEFINE o == LIST_REMOVE(q, t)
<1>1. /\ o \in Lists /\ \A y \in Queues : Range(o[y]) = Range(q[y]) \ {t}
  BY RemoveIs
<1>2. r \in [Queues -> Seq(Tasks)]
  BY PutType DEF Lists
<1>3. \A y \in Queues \ {x} : r[y] = o[y]
  BY DEF AddHead, AddTail
<1>4. r[x] = <<t>> \o o[x] \/ r[x] = Append(o[x], t)
  BY DEF AddHead, AddTail
<1>5. o[x] \in Seq(Tasks) /\ IsInjective(o[x]) /\ t \notin Range(o[x])
  BY <1>1 DEF Lists
<1> HIDE DEF o
<1>6. IsInjective(r[x]) /\ Range(r[x]) = Range(o[x]) \cup {t}
  BY <1>4, <1>5, HeadTail
<1>7. \A y \in Queues : IsInjective(r[y])
  BY <1>1, <1>3, <1>6 DEF Lists
<1>8. \A y \in Queues : Range(r[y]) = IF y = x THEN Range(q[y]) \cup {t} ELSE Range(q[y]) \ {t}
  BY <1>1, <1>3, <1>6
<1> QED BY <1>2, <1>7, <1>8 DEF Lists, Puts

(***************************************************************************)
(* do_block, do_unblock and check_sleeping move one task to one list.      *)
(***************************************************************************)
Moved(s, new, t, x, st) ==
  /\ new \in Snap /\ \A y \in Queues : IsInjective(new.queue[y])
  /\ new.status = [s.status EXCEPT ![t] = st]
  /\ new.locked = s.locked /\ new.owner = s.owner
  /\ \A y \in Queues : In(new, y) = IF y = x THEN In(s, y) \cup {t} ELSE In(s, y) \ {t}

LEMMA SnapIs ==
  ASSUME NEW s, s \in Snap
  PROVE  /\ s.status \in [Tasks -> {"BLOCKED", "RUNNING", "READY", "EXITED"}]
         /\ s.queue \in [Queues -> Seq(Tasks)]
         /\ s.locked \in [Locks -> BOOLEAN] /\ s.owner \in [Locks -> Tasks]
         /\ \A x \in Queues : In(s, x) \subseteq Tasks
<1>1. \A x \in Queues : s.queue[x] \in Seq(Tasks)
  BY DEF Snap
<1>2. ASSUME NEW x \in Queues PROVE In(s, x) \subseteq Tasks
  BY <1>1 DEF In, Range
<1> QED BY <1>2 DEF Snap

LEMMA MoveType ==
  ASSUME NEW s \in Snap, NEW t \in Tasks, NEW x
  PROVE  do_block(s, t, x) \in Snap /\ do_unblock(s, t) \in Snap /\ MakeReady(s, t) \in Snap
<1>1. /\ AddHead(s.queue, Ready, t) \in [Queues -> Seq(Tasks)]
      /\ AddTail(s.queue, Ready, t) \in [Queues -> Seq(Tasks)]
      /\ AddTail(s.queue, x, t) \in [Queues -> Seq(Tasks)]
  BY PutType, SnapIs
<1> QED BY <1>1 DEF Snap, do_block, do_unblock, MakeReady

LEMMA MoveIs ==
  ASSUME NEW s \in Snap, \A y \in Queues : IsInjective(s.queue[y]), NEW t \in Tasks
  PROVE  /\ Moved(s, do_unblock(s, t), t, Ready, "READY")
         /\ Moved(s, MakeReady(s, t), t, Ready, "READY")
         /\ \A x \in BlockQueues : Moved(s, do_block(s, t, x), t, x, "BLOCKED")
<1>1. s.queue \in Lists /\ Ready \in Queues
  BY SnapIs, HeadsAre DEF Lists
<1>2. ASSUME NEW x \in Queues, NEW new \in Snap,
             new.queue = AddHead(s.queue, x, t) \/ new.queue = AddTail(s.queue, x, t)
      PROVE  /\ \A y \in Queues : IsInjective(new.queue[y])
             /\ \A y \in Queues : In(new, y) = IF y = x THEN In(s, y) \cup {t} ELSE In(s, y) \ {t}
  <2>1. Puts(s.queue, t, x, new.queue)
    BY <1>1, <1>2, PutIs
  <2> QED BY <2>1 DEF Lists, In, Puts
<1>3. Moved(s, do_unblock(s, t), t, Ready, "READY")
  <2> DEFINE new == do_unblock(s, t)
  <2>1. /\ new.queue = AddHead(s.queue, Ready, t) /\ new.status = [s.status EXCEPT ![t] = "READY"]
        /\ new.locked = s.locked /\ new.owner = s.owner
    BY DEF do_unblock, Snap
  <2>2. new \in Snap
    BY MoveType
  <2> HIDE DEF new
  <2>3. Moved(s, new, t, Ready, "READY")
    BY <1>1, <1>2, <2>1, <2>2 DEF Moved
  <2> QED BY <2>3 DEF new
<1>4. Moved(s, MakeReady(s, t), t, Ready, "READY")
  <2> DEFINE new == MakeReady(s, t)
  <2>1. /\ new.queue = AddTail(s.queue, Ready, t) /\ new.status = [s.status EXCEPT ![t] = "READY"]
        /\ new.locked = s.locked /\ new.owner = s.owner
    BY DEF MakeReady, Snap
  <2>2. new \in Snap
    BY MoveType
  <2> HIDE DEF new
  <2>3. Moved(s, new, t, Ready, "READY")
    BY <1>1, <1>2, <2>1, <2>2 DEF Moved
  <2> QED BY <2>3 DEF new
<1>5. ASSUME NEW x \in BlockQueues PROVE Moved(s, do_block(s, t, x), t, x, "BLOCKED")
  <2> DEFINE new == do_block(s, t, x)
  <2>1. /\ new.queue = AddTail(s.queue, x, t) /\ new.status = [s.status EXCEPT ![t] = "BLOCKED"]
        /\ new.locked = s.locked /\ new.owner = s.owner
    BY DEF do_block, Snap
  <2>2. new \in Snap /\ x \in Queues
    BY MoveType, HeadsAre
  <2> HIDE DEF new
  <2>3. Moved(s, new, t, x, "BLOCKED")
    BY <1>2, <2>1, <2>2 DEF Moved
  <2> QED BY <2>3 DEF new
<1> QED BY <1>3, <1>4, <1>5

(***************************************************************************)
(* What such a move keeps.                                                 *)
(***************************************************************************)
Goes(x, st) == (x = Ready /\ st = "READY") \/ (x \in BlockQueues /\ st = "BLOCKED")

LEMMA MovedLinked ==
  ASSUME NEW s \in Snap, NEW off \in SUBSET Tasks, Linked(s, off), NEW t \in Tasks \ off,
         NEW x, NEW st, Goes(x, st), NEW new, Moved(s, new, t, x, st)
  PROVE  Linked(new, off)
<1>1. x \in Queues
  BY HeadsAre DEF Goes
<1>2. \A u \in Tasks \ {t} : /\ new.status[u] = s.status[u]
                             /\ \A y \in Queues : u \in In(new, y) <=> u \in In(s, y)
  BY SnapIs DEF Moved
<1>3. new.status[t] = st /\ \A y \in Queues : t \in In(new, y) <=> y = x
  BY <1>1, SnapIs DEF Moved
<1>4. \A y \in Queues : IsInjective(new.queue[y])
  BY DEF Moved
<1>5. \A u \in Tasks : \A y, z \in Queues : u \in In(new, y) /\ u \in In(new, z) => y = z
  BY <1>2, <1>3 DEF Linked
<1>6. ASSUME NEW u \in Tasks \ off
      PROVE  /\ new.status[u] = "READY" <=> u \in In(new, Ready)
             /\ new.status[u] = "BLOCKED" <=> \E y \in BlockQueues : u \in In(new, y)
  <2>1. CASE u = t
    BY <1>1, <1>3, <2>1, HeadsAre DEF Goes
  <2>2. CASE u # t
    BY <1>2, <2>2, HeadsAre DEF Linked
  <2> QED BY <2>1, <2>2
<1>7. \A u \in off : \A y \in Queues : u \notin In(new, y)
  BY <1>2 DEF Linked
<1> QED BY <1>4, <1>5, <1>6, <1>7 DEF Linked

LEMMA MovedPlaced ==
  ASSUME NEW s \in Snap, NEW k, Placed(s, k), NEW t \in Tasks,
         NEW x, NEW st, Goes(x, st), NEW new, Moved(s, new, t, x, st),
         \A g \in Harts : k.cur[g] = t => g \in k.ex /\ t \in Procs,
         st = "BLOCKED" => t \in Procs /\ k.base.status[t] # "EXITED"
  PROVE  Placed(new, k)
<1>1. \A u \in Tasks \ {t} : new.status[u] = s.status[u]
  BY SnapIs DEF Moved
<1>2. new.status[t] = st /\ st \in {"READY", "BLOCKED"}
  BY SnapIs DEF Moved, Goes
<1>3. Idles \subseteq Tasks /\ Procs \cap Idles = {}
  BY TasksAssumption DEF Tasks, TasksAssumption
<1>4. k.cur \in [Harts -> Tasks]
  BY DEF Placed
<1> QED BY <1>1, <1>2, <1>3, <1>4 DEF Placed

LEMMA MovedServed ==
  ASSUME NEW s \in Snap, NEW k, Served(s, k), NEW t \in Tasks,
         NEW x, NEW st, Goes(x, st), NEW new, Moved(s, new, t, x, st),
         \A l \in Locks : x = LockQ(l) => s.locked[l],
         \A p \in Procs : x = WaitQ(p) => s.status[p] # "EXITED",
         \A c \in Conds : x = CondQ(c) => k.mi[t] \in Locks
  PROVE  Served(new, k)
<1>1. \A u \in Tasks : s.status[u] # "EXITED" => new.status[u] # "EXITED"
  BY SnapIs DEF Moved, Goes
<1>2. new.locked = s.locked /\ new.owner = s.owner
  BY DEF Moved
<1>3. \A y \in BlockQueues : In(new, y) \subseteq In(s, y) \/ (y = x /\ In(new, y) = In(s, y) \cup {t})
  BY HeadsAre DEF Moved
<1>4. Procs \subseteq Tasks /\ s.owner \in [Locks -> Tasks]
  BY SnapIs DEF Tasks
<1> QED BY <1>1, <1>2, <1>3, <1>4, HeadsAre DEF Served

LEMMA MovedOwed ==
  ASSUME NEW s \in Snap, NEW off, NEW k, Owed(s, off, k), NEW t \in Tasks,
         NEW x, NEW st, Goes(x, st), NEW new, Moved(s, new, t, x, st),
         \A l \in Locks : t \notin In(s, LockQ(l)), \A c \in Conds : t \notin In(s, CondQ(c)),
         s.status[t] # "EXITED" \/ \A y \in Queues : t \notin In(k.base, y)
  PROVE  Owed(new, off, k)
<1>1. new.locked = s.locked /\ new.owner = s.owner
  BY DEF Moved
<1>2. \A u \in Tasks \ {t} : /\ new.status[u] = s.status[u]
                             /\ \A y \in Queues : u \in In(s, y) => u \in In(new, y)
  BY SnapIs DEF Moved
<1>3. Procs \subseteq Tasks
  BY DEF Tasks
<1> SUFFICES ASSUME NEW u \in Procs \ off, new.status[u] # "EXITED"
             PROVE  /\ \A l \in Locks : u \in In(k.base, LockQ(l)) =>
                         u \in In(new, LockQ(l)) \/ (new.locked[l] /\ new.owner[l] = u)
                    /\ \A c \in Conds : u \in In(k.base, CondQ(c)) =>
                         LET m == k.mi[u]
                         IN  /\ m \in Locks
                             /\ u \in In(new, CondQ(c)) \/ u \in In(new, LockQ(m)) \/ (new.locked[m] /\ new.owner[m] = u)
  BY DEF Owed
<1>4. s.status[u] # "EXITED" \/ \A y \in Queues : u \notin In(k.base, y)
  BY <1>2, <1>3
<1>5. \A m \in Locks : u \in In(s, LockQ(m)) => u \in In(new, LockQ(m))
  BY <1>2, <1>3, HeadsAre
<1>6. \A c \in Conds : u \in In(s, CondQ(c)) => u \in In(new, CondQ(c))
  BY <1>2, <1>3, HeadsAre
<1>7. CASE s.status[u] # "EXITED"
  <2>1. \A l \in Locks : u \in In(k.base, LockQ(l)) => u \in In(new, LockQ(l)) \/ (new.locked[l] /\ new.owner[l] = u)
    BY <1>1, <1>5, <1>7 DEF Owed
  <2>2. ASSUME NEW c \in Conds, u \in In(k.base, CondQ(c))
        PROVE  /\ k.mi[u] \in Locks
               /\ \/ u \in In(new, CondQ(c)) \/ u \in In(new, LockQ(k.mi[u]))
                  \/ new.locked[k.mi[u]] /\ new.owner[k.mi[u]] = u
    BY <1>1, <1>5, <1>6, <1>7, <2>2 DEF Owed
  <2> QED BY <2>1, <2>2
<1>8. CASE \A y \in Queues : u \notin In(k.base, y)
  BY <1>8, HeadsAre
<1> QED BY <1>4, <1>7, <1>8

(***************************************************************************)
(* What Dispatch sees of a snapshot: the place of each task and the owner  *)
(* of each mutex.                                                          *)
(***************************************************************************)
Where(s) == [t \in Tasks |-> IF s.status[t] = "EXITED" THEN Exited
                             ELSE IF s.status[t] = "RUNNING" THEN OnCPU
                             ELSE CHOOSE x \in Queues : t \in In(s, x)]

Owners(s) == [l \in Locks |-> IF s.locked[l] THEN s.owner[l] ELSE None]

LEMMA PlacesDiffer ==
  /\ Exited # OnCPU /\ Exited \notin Queues /\ OnCPU \notin Queues
  /\ Places = {Exited, OnCPU} \cup Queues
BY DEF Exited, OnCPU, Places, Queues, BlockQueues, Ready, Sleeping, LockQ, CondQ, BarQ, WaitQ

LEMMA WhereIs ==
  ASSUME NEW s \in Snap, NEW off, Linked(s, off), NEW t \in Tasks \ off
  PROVE  /\ Where(s)[t] \in Places
         /\ s.status[t] = "EXITED" <=> Where(s)[t] = Exited
         /\ s.status[t] = "RUNNING" <=> Where(s)[t] = OnCPU
         /\ s.status[t] = "READY" <=> Where(s)[t] = Ready
         /\ \A x \in Queues : t \in In(s, x) <=> Where(s)[t] = x
<1> DEFINE p == Where(s)[t]
<1>1. /\ s.status[t] \in {"BLOCKED", "RUNNING", "READY", "EXITED"}
      /\ s.status[t] = "READY" <=> t \in In(s, Ready)
      /\ s.status[t] = "BLOCKED" <=> \E x \in BlockQueues : t \in In(s, x)
      /\ \A x, y \in Queues : t \in In(s, x) /\ t \in In(s, y) => x = y
  BY SnapIs DEF Linked
<1>2. p = IF s.status[t] = "EXITED" THEN Exited ELSE IF s.status[t] = "RUNNING" THEN OnCPU
          ELSE CHOOSE x \in Queues : t \in In(s, x)
  BY DEF Where
<1> HIDE DEF p
<1>3. CASE s.status[t] \in {"EXITED", "RUNNING"}
  <2>1. \A x \in Queues : t \notin In(s, x)
    BY <1>1, <1>3, HeadsAre
  <2> QED BY <1>1, <1>2, <1>3, <2>1, PlacesDiffer, HeadsAre DEF p
<1>4. CASE s.status[t] \in {"READY", "BLOCKED"}
  <2>1. \E x \in Queues : t \in In(s, x)
    BY <1>1, <1>4, HeadsAre
  <2>2. p \in Queues /\ t \in In(s, p)
    BY <1>2, <1>4, <2>1
  <2>3. \A x \in Queues : t \in In(s, x) <=> p = x
    BY <1>1, <2>2
  <2> QED BY <1>1, <1>4, <2>2, <2>3, PlacesDiffer, HeadsAre DEF p
<1> QED BY <1>1, <1>3, <1>4

\* a task whose status and block queue stay has not moved
LEMMA NotMoved ==
  ASSUME NEW s \in Snap, NEW new \in Snap, NEW o, NEW off, Linked(s, o), Linked(new, off),
         NEW t \in Tasks \ (o \cup off), new.status[t] = s.status[t],
         \A y \in BlockQueues : t \in In(new, y) => t \in In(s, y)
  PROVE  Where(new)[t] = Where(s)[t]
<1>1. /\ Where(s)[t] \in Places
      /\ s.status[t] = "EXITED" <=> Where(s)[t] = Exited
      /\ s.status[t] = "RUNNING" <=> Where(s)[t] = OnCPU
      /\ s.status[t] = "READY" <=> Where(s)[t] = Ready
      /\ \A y \in Queues : t \in In(s, y) <=> Where(s)[t] = y
  BY WhereIs
<1>2. /\ Where(new)[t] \in Places
      /\ new.status[t] = "EXITED" <=> Where(new)[t] = Exited
      /\ new.status[t] = "RUNNING" <=> Where(new)[t] = OnCPU
      /\ new.status[t] = "READY" <=> Where(new)[t] = Ready
      /\ \A y \in Queues : t \in In(new, y) <=> Where(new)[t] = y
  BY WhereIs
<1>3. Where(new)[t] \in {Exited, OnCPU, Ready} => Where(new)[t] = Where(s)[t]
  BY <1>1, <1>2
<1>4. Where(new)[t] \in BlockQueues => Where(new)[t] = Where(s)[t]
  BY <1>1, <1>2, HeadsAre
<1> QED BY <1>2, <1>3, <1>4, PlacesDiffer, HeadsAre

\* where a move puts the task
LEMMA MovedPlaces ==
  ASSUME NEW s \in Snap, NEW off \in SUBSET Tasks, Linked(s, off), NEW t \in Tasks \ off,
         NEW x, NEW st, Goes(x, st), NEW new, Moved(s, new, t, x, st)
  PROVE  /\ \A u \in Tasks \ off : Where(new)[u] = IF u = t THEN x ELSE Where(s)[u]
         /\ Owners(new) = Owners(s)
<1>1. Linked(new, off) /\ new \in Snap
  BY MovedLinked DEF Moved
<1>2. x \in Queues /\ t \in In(new, x)
  BY HeadsAre DEF Goes, Moved
<1>3. \A u \in Tasks \ {t} : new.status[u] = s.status[u] /\ \A y \in BlockQueues : u \in In(new, y) => u \in In(s, y)
  BY SnapIs, HeadsAre DEF Moved
<1>4. Where(new)[t] = x
  BY <1>1, <1>2, WhereIs
<1>5. ASSUME NEW u \in Tasks \ off, u # t PROVE Where(new)[u] = Where(s)[u]
  BY <1>1, <1>3, <1>5, NotMoved
<1>6. Owners(new) = Owners(s)
  BY DEF Owners, Moved
<1> QED BY <1>4, <1>5, <1>6

(***************************************************************************)
(* The loops of the handlers, one turn after the other.                    *)
(***************************************************************************)
LEMMA UnblockLoop ==
  ASSUME NEW s \in Snap, NEW q \in Seq(Tasks)
  PROVE  \E w \in [0 .. Len(q) -> Snap] :
           /\ w[0] = s /\ w[Len(q)] = FoldLeft(do_unblock, s, q)
           /\ \A i \in 1 .. Len(q) : w[i] = do_unblock(w[i - 1], q[i])
<1> DEFINE n == Len(q)
           G == [i \in 1 .. n |-> [a \in Snap |-> do_unblock(a, q[i])]]
           F(f) == [U \in SUBSET (1 .. n) |-> IF U = {} THEN s ELSE do_unblock(f[U \ {Max(U)}], q[Max(U)])]
           g == CHOOSE f : f = F(f)
<1>0. n \in Nat /\ DOMAIN q = 1 .. n /\ \A i \in 1 .. n : q[i] \in Tasks
  OBVIOUS
<1>1. FoldLeft(do_unblock, s, q) = g[1 .. n]
  BY <1>0 DEF FoldLeft, MapThenFoldSet
<1>2. \A i \in 1 .. n : \A a \in Snap : G[i][a] = do_unblock(a, q[i]) /\ do_unblock(a, q[i]) \in Snap
  BY <1>0, MoveType
<1>3. G \in [1 .. n -> [Snap -> Snap]]
  BY <1>2
<1> HIDE DEF G, n
<1>4. PICK f \in [SUBSET (1 .. n) -> Snap] : Folding(f, s, G, n)
  BY <1>0, <1>3, FoldExists
<1>5. f = F(f)
  <2>1. ASSUME NEW U \in SUBSET (1 .. n), U # {}
        PROVE  f[U] = do_unblock(f[U \ {Max(U)}], q[Max(U)])
    <3>1. Max(U) \in 1 .. n /\ f[U] = G[Max(U)][f[U \ {Max(U)}]]
      BY <1>4, <2>1 DEF Folding
    <3>2. f[U \ {Max(U)}] \in Snap
      OBVIOUS
    <3> QED BY <1>2, <3>1, <3>2
  <2>2. f[{}] = s
    BY <1>4 DEF Folding
  <2> QED BY <2>1, <2>2
<1>6. g = F(g)
  BY <1>5, Zenon
<1>7. Unfolds(g, s, G, Snap, n)
  <2>1. g[{}] = s
    BY <1>6
  <2>2. ASSUME NEW U \in SUBSET (1 .. n), U # {}, g[U \ {Max(U)}] \in Snap
        PROVE  g[U] = G[Max(U)][g[U \ {Max(U)}]]
    <3>1. Max(U) \in 1 .. n
      BY <1>4, <2>2 DEF Folding
    <3>2. g[U] = do_unblock(g[U \ {Max(U)}], q[Max(U)])
      BY <1>6, <2>2
    <3> HIDE DEF g
    <3> QED BY <1>2, <2>2, <3>1, <3>2
  <2> HIDE DEF g
  <2> QED BY <2>1, <2>2 DEF Unfolds
<1> HIDE DEF g
<1>8. PICK w : Turns(w, s, g[1 .. n], G, Snap, n)
  <2>1. s \in Snap /\ n \in Nat
    BY <1>0
  <2> QED BY ONLY <1>3, <1>7, <2>1, FoldSteps
<1>9. \A i \in 1 .. n : w[i] = do_unblock(w[i - 1], q[i])
  BY <1>0, <1>2, <1>8 DEF Turns
<1> QED BY <1>1, <1>8, <1>9 DEF n, Turns

\* one pass of check_sleeping
Sleeper(a, t, due) == IF t \in due THEN MakeReady(a, t) ELSE a

LEMMA SleepersLoop ==
  ASSUME NEW s \in Snap, NEW q \in Seq(Tasks), NEW due, q = s.queue[Sleeping]
  PROVE  \E w \in [0 .. Len(q) -> Snap] :
           /\ w[0] = s /\ w[Len(q)] = check_sleeping(s, due)
           /\ \A i \in 1 .. Len(q) : w[i] = Sleeper(w[i - 1], q[i], due)
<1> DEFINE n == Len(q)
           G == [i \in 1 .. n |-> [a \in Snap |-> (IF q[i] \in due THEN MakeReady(a, q[i]) ELSE a)]]
           F(f) == [U \in SUBSET (1 .. n) |-> IF U = {} THEN s ELSE (IF q[Max(U)] \in due THEN MakeReady(f[U \ {Max(U)}], q[Max(U)]) ELSE f[U \ {Max(U)}])]
           g == CHOOSE f : f = F(f)
<1>0. n \in Nat /\ DOMAIN q = 1 .. n /\ \A i \in 1 .. n : q[i] \in Tasks
  OBVIOUS
<1>1. check_sleeping(s, due) = g[1 .. n]
  BY <1>0 DEF FoldLeft, MapThenFoldSet, check_sleeping
<1>2. \A i \in 1 .. n : \A a \in Snap : G[i][a] = (IF q[i] \in due THEN MakeReady(a, q[i]) ELSE a) /\ (IF q[i] \in due THEN MakeReady(a, q[i]) ELSE a) \in Snap
  BY <1>0, MoveType
<1>3. G \in [1 .. n -> [Snap -> Snap]]
  BY <1>2
<1> HIDE DEF G, n
<1>4. PICK f \in [SUBSET (1 .. n) -> Snap] : Folding(f, s, G, n)
  BY <1>0, <1>3, FoldExists
<1>5. f = F(f)
  <2>1. ASSUME NEW U \in SUBSET (1 .. n), U # {}
        PROVE  f[U] = (IF q[Max(U)] \in due THEN MakeReady(f[U \ {Max(U)}], q[Max(U)]) ELSE f[U \ {Max(U)}])
    <3>1. Max(U) \in 1 .. n /\ f[U] = G[Max(U)][f[U \ {Max(U)}]]
      BY <1>4, <2>1 DEF Folding
    <3>2. f[U \ {Max(U)}] \in Snap
      OBVIOUS
    <3> QED BY <1>2, <3>1, <3>2
  <2>2. f[{}] = s
    BY <1>4 DEF Folding
  <2> QED BY <2>1, <2>2
<1>6. g = F(g)
  BY <1>5, Zenon
<1>7. Unfolds(g, s, G, Snap, n)
  <2>1. g[{}] = s
    BY <1>6
  <2>2. ASSUME NEW U \in SUBSET (1 .. n), U # {}, g[U \ {Max(U)}] \in Snap
        PROVE  g[U] = G[Max(U)][g[U \ {Max(U)}]]
    <3>1. Max(U) \in 1 .. n
      BY <1>4, <2>2 DEF Folding
    <3>2. g[U] = (IF q[Max(U)] \in due THEN MakeReady(g[U \ {Max(U)}], q[Max(U)]) ELSE g[U \ {Max(U)}])
      BY <1>6, <2>2
    <3> HIDE DEF g
    <3> QED BY <1>2, <2>2, <3>1, <3>2
  <2> HIDE DEF g
  <2> QED BY <2>1, <2>2 DEF Unfolds
<1> HIDE DEF g
<1>8. PICK w : Turns(w, s, g[1 .. n], G, Snap, n)
  <2>1. s \in Snap /\ n \in Nat
    BY <1>0
  <2> QED BY ONLY <1>3, <1>7, <2>1, FoldSteps
<1>9. \A i \in 1 .. n : w[i] = Sleeper(w[i - 1], q[i], due)
  BY <1>0, <1>2, <1>8 DEF Turns, Sleeper
<1> QED BY <1>1, <1>8, <1>9 DEF n, Turns

(***************************************************************************)
(* Waking a task that waits for no mutex and at no condition.              *)
(***************************************************************************)
LEMMA WakeFit ==
  ASSUME NEW s, NEW off \in SUBSET Tasks, NEW k, Fit(s, off, k), NEW t, NEW y \in BlockQueues,
         t \in In(s, y), \A l \in Locks : y # LockQ(l), \A c \in Conds : y # CondQ(c),
         NEW new, Moved(s, new, t, Ready, "READY")
  PROVE  Fit(new, off, k) /\ s.status[t] = "BLOCKED"
<1>1. s \in Snap /\ Linked(s, off) /\ Placed(s, k) /\ Served(s, k) /\ Owed(s, off, k)
  BY DEF Fit
<1>2. y \in Queues /\ Goes(Ready, "READY")
  BY HeadsAre DEF Goes
<1>3. t \in Tasks \ off
  BY <1>1, <1>2, SnapIs DEF Linked
<1>4. s.status[t] = "BLOCKED" /\ t \in Procs
  BY <1>1, <1>3 DEF Linked, Placed, Tasks
<1>5. \A g \in Harts : k.cur[g] = t => g \in k.ex /\ t \in Procs
  BY <1>1, <1>4 DEF Placed
<1>6. (\A l \in Locks : t \notin In(s, LockQ(l))) /\ (\A c \in Conds : t \notin In(s, CondQ(c)))
  BY <1>1, <1>2, <1>3, HeadsAre DEF Linked
<1>7. new \in Snap
  BY DEF Moved
<1>8. Linked(new, off)
  BY <1>1, <1>2, <1>3, MovedLinked
<1>9. Placed(new, k)
  BY <1>1, <1>2, <1>3, <1>5, MovedPlaced
<1>10. Served(new, k)
  BY <1>1, <1>2, <1>3, HeadsDiffer, MovedServed
<1>11. Owed(new, off, k)
  BY <1>1, <1>2, <1>3, <1>4, <1>6, MovedOwed
<1> QED BY <1>4, <1>7, <1>8, <1>9, <1>10, <1>11 DEF Fit

LEMMA FitMoves ==
  ASSUME NEW s, NEW off, NEW k, Fit(s, off, k), NEW t \in Tasks
  PROVE  /\ Moved(s, do_unblock(s, t), t, Ready, "READY")
         /\ Moved(s, MakeReady(s, t), t, Ready, "READY")
         /\ \A x \in BlockQueues : Moved(s, do_block(s, t, x), t, x, "BLOCKED")
BY MoveIs DEF Fit, Linked

(***************************************************************************)
(* The loops that empty a wait list.                                       *)
(***************************************************************************)
\* new is s after some tasks of the queue x were woken
Woken(s, new, x) ==
  /\ new.locked = s.locked /\ new.owner = s.owner
  /\ \A u \in Tasks \ In(s, x) : new.status[u] = s.status[u]
  /\ \A u \in Tasks : new.status[u] \in {s.status[u], "READY"}
  /\ \A y \in BlockQueues : In(new, y) \subseteq In(s, y)

LEMMA UnblockAllFit ==
  ASSUME NEW s, NEW off \in SUBSET Tasks, NEW k, Fit(s, off, k), NEW x \in BlockQueues,
         \A l \in Locks : x # LockQ(l), \A c \in Conds : x # CondQ(c)
  PROVE  Fit(UnblockAll(s, x), off, k) /\ Woken(s, UnblockAll(s, x), x) /\ In(UnblockAll(s, x), x) = {}
<1> DEFINE q == s.queue[x]
           Left(i) == {q[j] : j \in (i + 1) .. Len(q)}
           P == [i \in 0 .. Len(q) |-> {a \in Snap : Fit(a, off, k) /\ Woken(s, a, x) /\ In(a, x) = Left(i)}]
<1>1. s \in Snap /\ q \in Seq(Tasks) /\ IsInjective(q) /\ x \in Queues
  BY SnapIs, HeadsAre DEF Fit, Linked
<1>2. PICK w \in [0 .. Len(q) -> Snap] :
        /\ w[0] = s /\ w[Len(q)] = UnblockAll(s, x)
        /\ \A i \in 1 .. Len(q) : w[i] = do_unblock(w[i - 1], q[i])
  BY <1>1, UnblockLoop DEF UnblockAll
<1>3. DOMAIN q = 1 .. Len(q) /\ Len(q) \in Nat /\ \A i \in 1 .. Len(q) : q[i] \in Tasks
  BY <1>1
<1> HIDE DEF q
<1>4. w[0] \in P[0]
  <2>1. In(s, x) = Left(0)
    BY <1>3 DEF In, Range, q
  <2>2. Woken(s, s, x)
    BY DEF Woken
  <2> QED BY <1>1, <1>2, <1>3, <2>1, <2>2
<1>5. ASSUME NEW i \in 1 .. Len(q), w[i - 1] \in P[i - 1]
      PROVE  w[i] \in P[i]
  <2> DEFINE a == w[i - 1]
             new == w[i]
             t == q[i]
  <2>1. i - 1 \in 0 .. Len(q) /\ i \in 0 .. Len(q) /\ (i - 1) + 1 = i
    BY <1>3
  <2>2. a \in Snap /\ Fit(a, off, k) /\ Woken(s, a, x) /\ In(a, x) = Left(i - 1)
    BY <1>5, <2>1
  <2>3. t \in In(a, x) /\ t \in Tasks
    <3>1. i \in ((i - 1) + 1) .. Len(q)
      BY <1>3, <2>1
    <3> QED BY <1>3, <2>2, <3>1
  <2>4. new = do_unblock(a, t)
    BY <1>2
  <2>5. Moved(a, new, t, Ready, "READY")
    BY <2>2, <2>3, <2>4, FitMoves
  <2>6. Left(i) = Left(i - 1) \ {t}
    <3>1. \A j \in (i + 1) .. Len(q) : j \in ((i - 1) + 1) .. Len(q) /\ q[j] # q[i]
      BY <1>1, <1>3, <2>1 DEF IsInjective
    <3>2. \A j \in ((i - 1) + 1) .. Len(q) : j = i \/ j \in (i + 1) .. Len(q)
      BY <1>3, <2>1
    <3> QED BY <3>1, <3>2
  <2> HIDE DEF a, new, t, Left
  <2>7. new \in Snap /\ \A y \in BlockQueues : In(new, y) = In(a, y) \ {t}
    BY <2>5, HeadsAre DEF Moved
  <2>8. Fit(new, off, k) /\ a.status[t] = "BLOCKED"
    BY <2>2, <2>3, <2>5, WakeFit
  <2>9. Woken(s, new, x)
    <3>1. new.locked = a.locked /\ new.owner = a.owner
      BY <2>5 DEF Moved
    <3>2. \A u \in Tasks : new.status[u] = IF u = t THEN "READY" ELSE a.status[u]
      BY <2>2, SnapIs, <2>5 DEF Moved
    <3>3. t \in In(s, x)
      BY <2>2, <2>3 DEF Woken
    <3> QED BY <2>2, <2>7, <3>1, <3>2, <3>3 DEF Woken
  <2>10. In(new, x) = Left(i)
    BY <2>2, <2>6, <2>7
  <2> QED BY <2>1, <2>7, <2>8, <2>9, <2>10 DEF new
<1> HIDE DEF P
<1>6. w[Len(q)] \in P[Len(q)]
  BY <1>3, <1>4, <1>5, LoopKeeps
<1>7. Left(Len(q)) = {}
  BY <1>3
<1> QED BY <1>2, <1>3, <1>6, <1>7 DEF P

\* where a wake-up loop puts the tasks
LEMMA WokenPlaces ==
  ASSUME NEW s, NEW new, NEW off, NEW k, Fit(s, off, k), Fit(new, off, k),
         NEW x \in BlockQueues, Woken(s, new, x)
  PROVE  /\ \A u \in Tasks \ off :
              Where(new)[u] = IF u \in In(s, x) \ In(new, x) THEN Ready ELSE Where(s)[u]
         /\ Owners(new) = Owners(s)
<1>1. s \in Snap /\ new \in Snap /\ Linked(s, off) /\ Linked(new, off) /\ x \in Queues
  BY HeadsAre DEF Fit
<1>2. ASSUME NEW u \in Tasks \ off
      PROVE  Where(new)[u] = IF u \in In(s, x) \ In(new, x) THEN Ready ELSE Where(s)[u]
  <2>1. CASE u \notin In(s, x)
    <3>1. new.status[u] = s.status[u] /\ \A y \in BlockQueues : u \in In(new, y) => u \in In(s, y)
      BY <2>1 DEF Woken
    <3> QED BY <1>1, <2>1, <3>1, NotMoved
  <2>2. CASE u \in In(s, x) /\ u \in In(new, x)
    BY <1>1, <2>2, WhereIs
  <2>3. CASE u \in In(s, x) /\ u \notin In(new, x)
    <3>1. s.status[u] = "BLOCKED"
      BY <1>1, <2>3 DEF Linked
    <3>2. new.status[u] # "BLOCKED"
      BY <1>1, <2>3, HeadsAre DEF Linked, Woken
    <3>3. new.status[u] = "READY"
      BY <3>1, <3>2 DEF Woken
    <3> QED BY <1>1, <2>3, <3>3, WhereIs
  <2> QED BY <2>1, <2>2, <2>3
<1>3. Owners(new) = Owners(s)
  BY DEF Owners, Woken
<1> QED BY <1>2, <1>3

(***************************************************************************)
(* check_sleeping: who is due goes to the tail of the ready queue.         *)
(***************************************************************************)
SameFirst(s, new) ==
  s.queue[Ready] # <<>> => new.queue[Ready] # <<>> /\ Head(new.queue[Ready]) = Head(s.queue[Ready])

LEMMA TailKeepsFirst ==
  ASSUME NEW s \in Snap, NEW t \in Tasks, t \notin In(s, Ready)
  PROVE  SameFirst(s, MakeReady(s, t))
<1> DEFINE q == s.queue[Ready]
<1>1. q \in Seq(Tasks) /\ Ready \in Queues /\ s.queue \in [Queues -> Seq(Tasks)]
  BY SnapIs, HeadsAre
<1>2. RemoveFirst(q, t) = q
  BY <1>1, RemoveFirstIs DEF In, Range
<1>3. MakeReady(s, t).queue = AddTail(s.queue, Ready, t)
  BY DEF MakeReady, Snap
<1>4. MakeReady(s, t).queue[Ready] = Append(q, t)
  BY <1>1, <1>2, <1>3 DEF AddTail, LIST_REMOVE
<1> HIDE DEF q
<1>5. q # <<>> => Append(q, t) # <<>> /\ Head(Append(q, t)) = Head(q)
  BY <1>1
<1> QED BY <1>4, <1>5 DEF SameFirst, q

LEMMA CheckSleepingFit ==
  ASSUME NEW s, NEW off \in SUBSET Tasks, NEW k, Fit(s, off, k), NEW due
  PROVE  /\ Fit(check_sleeping(s, due), off, k) /\ Woken(s, check_sleeping(s, due), Sleeping)
         /\ SameFirst(s, check_sleeping(s, due))
<1> DEFINE q == s.queue[Sleeping]
           Left(i) == {q[j] : j \in (i + 1) .. Len(q)}
           P == [i \in 0 .. Len(q) |->
                  {a \in Snap : /\ Fit(a, off, k) /\ Woken(s, a, Sleeping) /\ SameFirst(s, a)
                                /\ Left(i) \subseteq In(a, Sleeping)}]
<1>1. s \in Snap /\ q \in Seq(Tasks) /\ IsInjective(q) /\ Sleeping \in Queues
  BY SnapIs, HeadsAre DEF Fit, Linked
<1>2. PICK w \in [0 .. Len(q) -> Snap] :
        /\ w[0] = s /\ w[Len(q)] = check_sleeping(s, due)
        /\ \A i \in 1 .. Len(q) : w[i] = Sleeper(w[i - 1], q[i], due)
  BY <1>1, SleepersLoop
<1>3. DOMAIN q = 1 .. Len(q) /\ Len(q) \in Nat /\ \A i \in 1 .. Len(q) : q[i] \in Tasks
  BY <1>1
<1> HIDE DEF q
<1>4. w[0] \in P[0]
  <2>1. In(s, Sleeping) = Left(0)
    BY <1>3 DEF In, Range, q
  <2>2. Woken(s, s, Sleeping) /\ SameFirst(s, s)
    BY DEF Woken, SameFirst
  <2> QED BY <1>1, <1>2, <1>3, <2>1, <2>2
<1>5. ASSUME NEW i \in 1 .. Len(q), w[i - 1] \in P[i - 1]
      PROVE  w[i] \in P[i]
  <2> DEFINE a == w[i - 1]
             new == w[i]
             t == q[i]
  <2>1. i - 1 \in 0 .. Len(q) /\ i \in 0 .. Len(q) /\ (i - 1) + 1 = i
    BY <1>3
  <2>2. /\ a \in Snap /\ Fit(a, off, k) /\ Woken(s, a, Sleeping) /\ SameFirst(s, a)
        /\ Left(i - 1) \subseteq In(a, Sleeping)
    BY <1>5, <2>1
  <2>3. t \in In(a, Sleeping) /\ t \in Tasks
    <3>1. i \in ((i - 1) + 1) .. Len(q)
      BY <1>3, <2>1
    <3> QED BY <1>3, <2>2, <3>1
  <2>4. new = IF t \in due THEN MakeReady(a, t) ELSE a
    BY <1>2 DEF Sleeper
  <2>6. Left(i) \subseteq Left(i - 1) \ {t}
    <3>1. \A j \in (i + 1) .. Len(q) : j \in ((i - 1) + 1) .. Len(q) /\ q[j] # q[i]
      BY <1>1, <1>3, <2>1 DEF IsInjective
    <3> QED BY <3>1
  <2> HIDE DEF a, new, t, Left
  <2>7. CASE t \in due
    <3>1. new = MakeReady(a, t) /\ Moved(a, new, t, Ready, "READY")
      BY <2>2, <2>3, <2>4, <2>7, FitMoves
    <3>2. new \in Snap /\ \A y \in BlockQueues : In(new, y) = In(a, y) \ {t}
      BY <3>1, HeadsAre DEF Moved
    <3>3. Fit(new, off, k) /\ a.status[t] = "BLOCKED"
      BY <2>2, <2>3, <3>1, HeadsAre, HeadsDiffer, WakeFit
    <3>4. Woken(s, new, Sleeping)
      <4>1. new.locked = a.locked /\ new.owner = a.owner
        BY <3>1 DEF Moved
      <4>2. \A u \in Tasks : new.status[u] = IF u = t THEN "READY" ELSE a.status[u]
        BY <2>2, SnapIs, <3>1 DEF Moved
      <4>3. t \in In(s, Sleeping)
        BY <2>2, <2>3, HeadsAre DEF Woken
      <4> QED BY <2>2, <3>2, <4>1, <4>2, <4>3 DEF Woken
    <3>5. SameFirst(s, new)
      <4>1. t \notin In(a, Ready)
        BY <2>2, <2>3, HeadsAre, HeadsDiffer DEF Fit, Linked
      <4> QED BY <2>2, <2>3, <3>1, <4>1, TailKeepsFirst DEF SameFirst
    <3>6. Left(i) \subseteq In(new, Sleeping)
      BY <2>2, <2>6, <3>2, HeadsAre
    <3> QED BY <2>1, <3>2, <3>3, <3>4, <3>5, <3>6 DEF new
  <2>8. CASE t \notin due
    <3>1. new = a
      BY <2>4, <2>8
    <3> QED BY <2>1, <2>2, <2>6, <3>1 DEF new
  <2> QED BY <2>7, <2>8
<1> HIDE DEF P
<1>6. w[Len(q)] \in P[Len(q)]
  BY <1>3, <1>4, <1>5, LoopKeeps
<1> QED BY <1>2, <1>3, <1>6 DEF P

(***************************************************************************)
(* There are as many idle tasks as CPUs, so while some CPU is left with a  *)
(* process that does not run some idle task is in the ready queue.         *)
(***************************************************************************)
LEMMA IdleReady ==
  ASSUME NEW s, NEW off \in SUBSET Procs, NEW k, Fit(s, off, k), NEW h \in Harts,
         s.status[k.cur[h]] # "RUNNING"
  PROVE  s.queue[Ready] # <<>>
<1> DEFINE cur == k.cur
<1>1. /\ cur \in [Harts -> Tasks] /\ cur[h] \notin Idles
      /\ \A i \in Idles : s.status[i] \in {"RUNNING", "READY"}
      /\ \A t \in Tasks : s.status[t] = "RUNNING" => \E g \in Harts : cur[g] = t
  BY DEF Fit, Placed
<1> HIDE DEF cur
<1>2. PICK i \in Idles : \A g \in Harts : cur[g] # i
  <2> SUFFICES ASSUME \A i \in Idles : \E g \in Harts : cur[g] = i PROVE FALSE
    OBVIOUS
  <2> DEFINE f == [i \in Idles |-> CHOOSE g \in Harts : cur[g] = i]
  <2>1. f \in [Idles -> Harts \ {h}] /\ \A i \in Idles : cur[f[i]] = i
    BY <1>1
  <2>2. IsFiniteSet(Harts \ {h}) /\ Cardinality(Harts \ {h}) = Cardinality(Harts) - 1
    BY FS_RemoveElement, TasksAssumption DEF TasksAssumption
  <2>3. Cardinality(Harts \ {h}) < Cardinality(Idles)
    BY <2>2, FS_CardinalityType, TasksAssumption DEF TasksAssumption
  <2> HIDE DEF f
  <2>4. \E i, j \in Idles : i # j /\ f[i] = f[j]
    <3>1. IsFiniteSet(Idles)
      BY TasksAssumption DEF TasksAssumption
    <3> QED BY <2>1, <2>2, <2>3, <3>1, FS_PigeonHole
  <2> QED BY <2>1, <2>4
<1>3. i \in Tasks \ off /\ s.status[i] = "READY"
  BY <1>1, <1>2, TasksAssumption DEF Tasks, TasksAssumption
<1>4. i \in In(s, Ready)
  BY <1>3 DEF Fit, Linked
<1> QED BY <1>4 DEF In, Range

(***************************************************************************)
(* do_scheduler.                                                           *)
(***************************************************************************)
LEMMA TailIs ==
  ASSUME NEW q \in Seq(Tasks), q # <<>>, IsInjective(q)
  PROVE  /\ Tail(q) \in Seq(Tasks) /\ IsInjective(Tail(q)) /\ Head(q) \in Tasks
         /\ Head(q) \in Range(q) /\ Range(Tail(q)) = Range(q) \ {Head(q)}
<1> DEFINE r == Tail(q)
<1>1. /\ Len(q) \in Nat \ {0} /\ DOMAIN q = 1 .. Len(q) /\ Head(q) = q[1] /\ 1 \in 1 .. Len(q)
      /\ r \in Seq(Tasks) /\ DOMAIN r = 1 .. (Len(q) - 1)
      /\ \A i \in 1 .. (Len(q) - 1) : r[i] = q[i + 1]
  OBVIOUS
<1> HIDE DEF r
<1>2. \A i \in 1 .. (Len(q) - 1) : i + 1 \in 1 .. Len(q) /\ i + 1 # 1
  BY <1>1
<1>3. \A i \in 1 .. Len(q) : i = 1 \/ (i - 1 \in 1 .. (Len(q) - 1) /\ q[i] = r[i - 1])
  <2> TAKE i \in 1 .. Len(q)
  <2>1. i # 1 => i - 1 \in 1 .. (Len(q) - 1) /\ (i - 1) + 1 = i
    BY <1>1
  <2> QED BY <1>1, <2>1
<1>4. IsInjective(r)
  BY <1>1, <1>2 DEF IsInjective
<1>5. Head(q) \in Range(q)
  BY <1>1 DEF Range
<1>6. \A u \in Range(r) : u \in Range(q) \ {Head(q)}
  BY <1>1, <1>2 DEF Range, IsInjective
<1>7. \A u \in Range(q) \ {Head(q)} : u \in Range(r)
  BY <1>1, <1>3 DEF Range
<1>8. Range(r) = Range(q) \ {Head(q)}
  BY <1>6, <1>7
<1>9. Head(q) \in Tasks
  BY <1>1
<1> QED BY <1>1, <1>4, <1>5, <1>8, <1>9 DEF r

LEMMA CommitIs ==
  ASSUME NEW s \in Snap, Commit(s)
  PROVE  Here' = s
BY DEF Commit, Here, Snap

\* new is s after the first ready task was taken
Picked(s, new, next) ==
  /\ new \in Snap /\ \A y \in Queues : IsInjective(new.queue[y])
  /\ next \in In(s, Ready)
  /\ new.status = [s.status EXCEPT ![next] = "RUNNING"]
  /\ new.locked = s.locked /\ new.owner = s.owner
  /\ \A y \in Queues : In(new, y) = IF y = Ready THEN In(s, y) \ {next} ELSE In(s, y)

LEMMA PickIs ==
  ASSUME NEW s \in Snap, \A y \in Queues : IsInjective(s.queue[y]), s.queue[Ready] # <<>>
  PROVE  Picked(s, [s EXCEPT !.status[Head(s.queue[Ready])] = "RUNNING", !.queue[Ready] = Tail(@)],
                Head(s.queue[Ready]))
<1> DEFINE next == Head(s.queue[Ready])
           new == [s EXCEPT !.status[next] = "RUNNING", !.queue[Ready] = Tail(@)]
<1>1. /\ s.queue \in [Queues -> Seq(Tasks)] /\ Ready \in Queues
      /\ s.status \in [Tasks -> {"BLOCKED", "RUNNING", "READY", "EXITED"}]
  BY SnapIs, HeadsAre
<1>2. /\ Tail(s.queue[Ready]) \in Seq(Tasks) /\ IsInjective(Tail(s.queue[Ready]))
      /\ next \in Tasks /\ next \in Range(s.queue[Ready])
      /\ Range(Tail(s.queue[Ready])) = Range(s.queue[Ready]) \ {next}
  BY <1>1, TailIs
<1> HIDE DEF next
<1>3. /\ new.status = [s.status EXCEPT ![next] = "RUNNING"]
      /\ new.queue = [s.queue EXCEPT ![Ready] = Tail(s.queue[Ready])]
      /\ new.locked = s.locked /\ new.owner = s.owner
  BY DEF Snap
<1>4. new \in Snap
  BY <1>1, <1>2 DEF Snap
<1> HIDE DEF new
<1>5. \A y \in Queues : IsInjective(new.queue[y])
  BY <1>1, <1>2, <1>3
<1>6. \A y \in Queues : In(new, y) = IF y = Ready THEN In(s, y) \ {next} ELSE In(s, y)
  BY <1>1, <1>2, <1>3 DEF In
<1>7. next \in In(s, Ready)
  BY <1>2 DEF In
<1>8. Picked(s, new, next)
  BY <1>3, <1>4, <1>5, <1>6, <1>7 DEF Picked
<1> QED BY <1>8 DEF new, next

LEMMA PickedFit ==
  ASSUME NEW s, NEW k, Fit(s, {}, k), NEW new, NEW next, Picked(s, new, next)
  PROVE  Linked(new, {}) /\ Served(new, k) /\ Owed(new, {}, k)
<1>1. s \in Snap /\ Linked(s, {}) /\ Served(s, k) /\ Owed(s, {}, k)
  BY DEF Fit
<1>2. next \in Tasks /\ s.status[next] = "READY"
  BY <1>1, SnapIs, HeadsAre DEF Picked, Linked
<1>3. \A u \in Tasks : new.status[u] = IF u = next THEN "RUNNING" ELSE s.status[u]
  BY <1>1, <1>2, SnapIs DEF Picked
<1>4. \A y \in BlockQueues : In(new, y) = In(s, y)
  BY HeadsAre DEF Picked
<1>5. In(new, Ready) = In(s, Ready) \ {next} /\ next \in In(s, Ready)
  BY HeadsAre DEF Picked
<1>6. new.locked = s.locked /\ new.owner = s.owner /\ \A y \in Queues : IsInjective(new.queue[y])
  BY DEF Picked
<1>7. Linked(new, {})
  <2>1. \A t \in Tasks : \A x, y \in Queues : t \in In(new, x) /\ t \in In(new, y) => x = y
    BY <1>1, <1>4, <1>5, HeadsAre DEF Linked
  <2>2. ASSUME NEW t \in Tasks
        PROVE  /\ new.status[t] = "READY" <=> t \in In(new, Ready)
               /\ new.status[t] = "BLOCKED" <=> \E x \in BlockQueues : t \in In(new, x)
    BY <1>1, <1>2, <1>3, <1>4, <1>5 DEF Linked
  <2> QED BY <1>6, <2>1, <2>2 DEF Linked
<1>8. Served(new, k)
  <2>1. Procs \subseteq Tasks /\ s.owner \in [Locks -> Tasks]
    BY <1>1, SnapIs DEF Tasks
  <2>2. \A u \in Tasks : s.status[u] # "EXITED" => new.status[u] # "EXITED"
    BY <1>3
  <2> QED BY <1>1, <1>4, <1>6, <2>1, <2>2, HeadsAre DEF Served
<1>9. Owed(new, {}, k)
  <2>1. \A u \in Procs : u \in Tasks /\ (new.status[u] # "EXITED" => s.status[u] # "EXITED")
    BY <1>2, <1>3 DEF Tasks
  <2> QED BY <1>1, <1>4, <1>6, <2>1, HeadsAre DEF Owed
<1> QED BY <1>7, <1>8, <1>9

Done(k, cur) == [cur |-> cur, ex |-> {}, mi |-> k.mi, base |-> k.base]

LEMMA DoneServed ==
  ASSUME NEW s, NEW k, NEW cur
  PROVE  /\ Served(s, k) => Served(s, Done(k, cur))
         /\ Owed(s, {}, k) => Owed(s, {}, Done(k, cur))
BY DEF Served, Owed, Done

\* Dispatch has its own instances of the names of Tasks
LEMMA SameNames ==
  /\ D!Tasks = Tasks /\ D!Exited = Exited /\ D!OnCPU = OnCPU /\ D!Ready = Ready /\ D!Sleeping = Sleeping
  /\ \A x : D!LockQ(x) = LockQ(x) /\ D!CondQ(x) = CondQ(x) /\ D!BarQ(x) = BarQ(x) /\ D!WaitQ(x) = WaitQ(x)
BY DEF Tasks, Exited, OnCPU, Ready, Sleeping, LockQ, CondQ, BarQ, WaitQ,
       D!Tasks, D!Exited, D!OnCPU, D!Ready, D!Sleeping, D!LockQ, D!CondQ, D!BarQ, D!WaitQ

LEMMA AtIs ==
  ASSUME NEW s \in Snap, Linked(s, {}), NEW x \in Queues
  PROVE  D!At(Where(s), x) = In(s, x)
<1>1. In(s, x) \subseteq Tasks /\ \A t \in Tasks : t \in In(s, x) <=> Where(s)[t] = x
  BY SnapIs, WhereIs
<1> QED BY <1>1, SameNames DEF D!At

LEMMA PickedPlaces ==
  ASSUME NEW s, NEW k, Fit(s, {}, k), NEW new, NEW next, Picked(s, new, next)
  PROVE  \A u \in Tasks : Where(new)[u] = IF u = next THEN OnCPU ELSE Where(s)[u]
<1>1. s \in Snap /\ Linked(s, {}) /\ new \in Snap /\ Linked(new, {})
  BY PickedFit DEF Fit, Picked
<1>2. next \in Tasks
  BY <1>1, SnapIs, HeadsAre DEF Picked
<1>3. \A u \in Tasks : new.status[u] = IF u = next THEN "RUNNING" ELSE s.status[u]
  BY <1>1, <1>2, SnapIs DEF Picked
<1>4. \A y \in BlockQueues : In(new, y) = In(s, y)
  BY HeadsAre DEF Picked
<1>5. Where(new)[next] = OnCPU
  BY <1>1, <1>2, <1>3, WhereIs
<1>6. ASSUME NEW u \in Tasks, u # next PROVE Where(new)[u] = Where(s)[u]
  BY <1>1, <1>3, <1>4, <1>6, NotMoved
<1> QED BY <1>5, <1>6

\* the tasks are at pl when CPU h picks one, and at pl2 afterwards
Switched(h, pl, pl2) ==
  \/ D!At(pl, Ready) = {} /\ pl2 = pl /\ current' = current
  \/ \E next \in D!Candidates(h, pl) :
       pl2 = D!Dispatched(h, pl, next) /\ current' = [current EXCEPT ![h] = next]

LEMMA SchedulerIs ==
  ASSUME NEW s0, NEW k, Fit(s0, {}, k), NEW h \in Harts, k.cur = current, k.ex = {h},
         s0.status[current[h]] # "READY", NEW due, do_scheduler(h, s0, due)
  PROVE  /\ Here' \in Snap /\ Fit(Here', {}, Done(k, current'))
         /\ Owners(Here') = Owners(s0)
         /\ \E set \in SUBSET D!At(Where(s0), Sleeping) :
              Switched(h, D!Wake(Where(s0), set), Where(Here'))
<1> DEFINE s == check_sleeping(s0, due)
           me == current[h]
           next == Head(s.queue[Ready])
           picked == [s EXCEPT !.status[next] = "RUNNING", !.queue[Ready] = Tail(@)]
<1>1. Fit(s, {}, k) /\ Woken(s0, s, Sleeping) /\ SameFirst(s0, s)
  BY CheckSleepingFit
<1>2. /\ IF s.queue[Ready] = <<>>
           THEN Commit(s) /\ UNCHANGED current
           ELSE Commit(PutBack(picked, me)) /\ current' = [current EXCEPT ![h] = next]
  BY DEF do_scheduler
<1>3. /\ s \in Snap /\ Linked(s, {}) /\ Placed(s, k) /\ Served(s, k) /\ Owed(s, {}, k)
      /\ \A y \in Queues : IsInjective(s.queue[y])
  BY <1>1 DEF Fit, Linked
<1> HIDE DEF s
<1> DEFINE set == In(s0, Sleeping) \ In(s, Sleeping)
<1>7. /\ \A u \in Tasks : Where(s)[u] = IF u \in set THEN Ready ELSE Where(s0)[u]
      /\ Owners(s) = Owners(s0)
  BY <1>1, WokenPlaces, HeadsAre
<1>8. set \in SUBSET D!At(Where(s0), Sleeping)
  BY <1>1, AtIs, HeadsAre DEF Fit
<1> HIDE DEF set
<1>9. Where(s) = D!Wake(Where(s0), set)
  BY <1>7, SameNames DEF Where, D!Wake
<1>10. D!At(Where(s), Ready) = In(s, Ready)
  BY <1>3, AtIs, HeadsAre
<1>4. me \in Tasks /\ current \in [Harts -> Tasks]
  BY <1>3 DEF Placed
<1>5. CASE s.queue[Ready] = <<>>
  <2>1. Here' = s /\ current' = current
    BY <1>2, <1>3, <1>5, CommitIs
  <2>2. s.status[me] = "RUNNING"
    BY <1>1, <1>5, IdleReady
  <2>3. Placed(s, Done(k, current))
    BY <1>3, <2>2 DEF Placed, Done
  <2>4. Served(s, Done(k, current)) /\ Owed(s, {}, Done(k, current))
    BY <1>3, DoneServed
  <2>5. D!At(Where(s), Ready) = {}
    BY <1>5, <1>10 DEF In, Range
  <2>6. Switched(h, Where(s), Where(Here'))
    BY <2>1, <2>5 DEF Switched
  <2>7. Fit(s, {}, Done(k, current))
    BY <1>3, <2>3, <2>4 DEF Fit
  <2> QED BY <1>3, <1>7, <1>8, <1>9, <2>1, <2>6, <2>7
<1>6. CASE s.queue[Ready] # <<>>
  <2>1. Picked(s, picked, next)
    BY <1>3, <1>6, PickIs
  <2>2. Commit(PutBack(picked, me)) /\ current' = [current EXCEPT ![h] = next]
    BY <1>2, <1>6
  <2> HIDE DEF picked
  <2>3. next \in Tasks /\ s.status[next] = "READY"
    <3>1. next \in In(s, Ready)
      BY <2>1 DEF Picked
    <3> QED BY <1>3, <3>1, SnapIs, HeadsAre DEF Linked
  <2>4. next # me
    <3> SUFFICES ASSUME next = me PROVE FALSE
      OBVIOUS
    <3>1. s0.status[me] # "RUNNING"
      <4>1. \A u \in Tasks : s0.status[u] # s.status[u] => u \in In(s0, Sleeping)
        BY <1>1 DEF Woken
      <4>2. s0.status[me] = "BLOCKED"
        BY <1>4, <2>3, <4>1, SnapIs, HeadsAre DEF Fit, Linked
      <4> QED BY <4>2
    <3>2. s0.queue[Ready] # <<>>
      BY <3>1, IdleReady
    <3>3. next = Head(s0.queue[Ready])
      BY <1>1, <3>2 DEF SameFirst
    <3>4. Head(s0.queue[Ready]) \in In(s0, Ready)
      BY <3>2, SnapIs, HeadsAre, TailIs DEF In, Fit, Linked
    <3>5. s0.status[me] = "READY"
      BY <1>4, <3>3, <3>4 DEF Fit, Linked
    <3> QED BY <3>5
  <2> HIDE DEF next
  <2>5. \A u \in Tasks : picked.status[u] = IF u = next THEN "RUNNING" ELSE s.status[u]
    BY <1>3, <2>1, <2>3, SnapIs DEF Picked
  <2>6. Linked(picked, {}) /\ Served(picked, k) /\ Owed(picked, {}, k) /\ picked \in Snap
    BY <1>1, <2>1, PickedFit DEF Picked
  <2>11. \A u \in Tasks : Where(picked)[u] = IF u = next THEN OnCPU ELSE Where(s)[u]
    BY <1>1, <2>1, PickedPlaces
  <2>12. Owners(picked) = Owners(s)
    BY <2>1 DEF Owners, Picked
  <2> DEFINE new == PutBack(picked, me)
  <2>7. /\ new \in Snap /\ Linked(new, {}) /\ Served(new, k) /\ Owed(new, {}, k)
        /\ \A u \in Tasks : new.status[u] = IF u = next THEN "RUNNING"
                              ELSE IF u = me /\ s.status[me] = "RUNNING" THEN "READY" ELSE s.status[u]
        /\ Owners(new) = Owners(s)
        /\ \A u \in Tasks : Where(new)[u] = IF u = me /\ s.status[me] = "RUNNING" THEN Ready ELSE Where(picked)[u]
    <3>1. CASE s.status[me] = "RUNNING"
      <4>1. new = MakeReady(picked, me)
        BY <1>4, <2>4, <2>5, <3>1 DEF PutBack
      <4>2. Moved(picked, new, me, Ready, "READY")
        BY <1>4, <2>6, <4>1, MoveIs DEF Linked
      <4> HIDE DEF new
      <4>3. picked.status[me] = "RUNNING" /\ Goes(Ready, "READY")
        BY <1>4, <2>4, <2>5, <3>1 DEF Goes
      <4>4. \A y \in BlockQueues : me \notin In(picked, y)
        BY <1>4, <2>6, <4>3 DEF Linked
      <4>5. Linked(new, {})
        BY <1>4, <2>6, <4>2, <4>3, MovedLinked
      <4>6. Served(new, k)
        BY <1>4, <2>6, <4>2, <4>3, HeadsDiffer, MovedServed
      <4>7. Owed(new, {}, k)
        BY <1>4, <2>6, <4>2, <4>3, <4>4, HeadsAre, MovedOwed
      <4>8. new \in Snap /\ \A u \in Tasks : new.status[u] = IF u = me THEN "READY" ELSE picked.status[u]
        BY <1>4, <2>6, <4>2, SnapIs DEF Moved
      <4>9. /\ Owners(new) = Owners(s)
            /\ \A u \in Tasks : Where(new)[u] = IF u = me THEN Ready ELSE Where(picked)[u]
        BY <1>4, <2>6, <2>12, <4>2, <4>3, MovedPlaces
      <4> QED BY <2>4, <2>5, <3>1, <4>5, <4>6, <4>7, <4>8, <4>9
    <3>2. CASE s.status[me] # "RUNNING"
      <4>1. new = picked
        BY <1>4, <2>4, <2>5, <3>2 DEF PutBack
      <4> QED BY <2>5, <2>6, <2>12, <3>2, <4>1
    <3> QED BY <3>1, <3>2
  <2> HIDE DEF new
  <2>8. Here' = new
    BY <2>2, <2>7, CommitIs DEF new
  <2>9. Placed(new, Done(k, current'))
    <3>1. /\ current' \in [Harts -> Tasks] /\ current'[h] = next
          /\ \A g \in Harts \ {h} : current'[g] = current[g]
      BY <1>4, <2>2, <2>3
    <3>2. \A g \in Harts \ {h} : /\ current[g] # me /\ s.status[current[g]] \in {"RUNNING", "EXITED"}
                                 /\ current[g] # next
      BY <1>3, <2>3 DEF Placed
    <3>3. \A g1, g2 \in Harts : current'[g1] = current'[g2] => g1 = g2
      BY <1>3, <3>1, <3>2 DEF Placed
    <3>4. \A g \in Harts : new.status[current'[g]] \in {"RUNNING", "EXITED"}
      BY <1>4, <2>3, <2>7, <3>1, <3>2
    <3>5. \A g \in Harts : current'[g] \in Idles => new.status[current'[g]] = "RUNNING"
      BY <1>3, <1>4, <2>3, <2>7, <3>1, <3>2 DEF Placed
    <3>6. ASSUME NEW u \in Tasks, new.status[u] = "RUNNING"
          PROVE  \E g \in Harts : current'[g] = u
      BY <1>3, <1>4, <2>3, <2>4, <2>7, <3>1, <3>6 DEF Placed
    <3>7. \A i \in Idles : new.status[i] \in {"RUNNING", "READY"}
      BY <1>3, <2>7 DEF Placed, Tasks
    <3>8. \A u \in Tasks : k.base.status[u] = "EXITED" => new.status[u] # "BLOCKED"
      BY <1>3, <2>7 DEF Placed
    <3> QED BY <3>1, <3>3, <3>4, <3>5, <3>6, <3>7, <3>8 DEF Placed, Done
  <2>10. Served(new, Done(k, current')) /\ Owed(new, {}, Done(k, current'))
    BY <2>7, DoneServed
  <2>13. Switched(h, Where(s), Where(new))
    <3>1. next \in D!Candidates(h, Where(s))
      BY <1>10, <2>1, <2>4, SameNames DEF Picked, D!Candidates
    <3>2. s.status[me] = "RUNNING" <=> Where(picked)[me] = OnCPU
      BY <1>3, <1>4, <2>4, <2>11, WhereIs
    <3>3. Where(new) = D!Dispatched(h, Where(s), next)
      <4> DEFINE p == Where(s)
                 r == Where(new)
                 c == [p EXCEPT ![next] = OnCPU]
      <4>1. /\ DOMAIN r = Tasks /\ DOMAIN p = Tasks
            /\ r = [u \in Tasks |-> r[u]] /\ p = [u \in Tasks |-> p[u]]
        BY DEF Where
      <4>2. D!Dispatched(h, p, next) = [c EXCEPT ![me] = IF c[me] = OnCPU THEN Ready ELSE c[me]]
        BY SameNames DEF D!Dispatched
      <4>3. /\ \A u \in Tasks : r[u] = IF u = me /\ s.status[me] = "RUNNING" THEN Ready ELSE Where(picked)[u]
            /\ \A u \in Tasks : Where(picked)[u] = IF u = next THEN OnCPU ELSE p[u]
        BY <2>7, <2>11
      <4> HIDE DEF p, r
      <4>4. DOMAIN c = Tasks /\ \A u \in Tasks : c[u] = IF u = next THEN OnCPU ELSE p[u]
        BY <2>3, <4>1
      <4>5. \A u \in Tasks : r[u] = IF u = me /\ c[me] = OnCPU THEN Ready ELSE c[u]
        BY <1>4, <3>2, <4>3, <4>4
      <4> HIDE DEF c
      <4>6. r = [c EXCEPT ![me] = IF c[me] = OnCPU THEN Ready ELSE c[me]]
        BY <1>4, <4>1, <4>4, <4>5
      <4> QED BY <4>2, <4>6 DEF p, r
    <3> QED BY <2>2, <3>1, <3>3 DEF Switched
  <2>14. Fit(new, {}, Done(k, current'))
    BY <2>7, <2>9, <2>10 DEF Fit
  <2> QED BY <1>7, <1>8, <1>9, <2>7, <2>8, <2>13, <2>14
<1> QED BY <1>5, <1>6

(***************************************************************************)
(* A mutex changes hands.                                                  *)
(***************************************************************************)
LEMMA SameTasks ==
  ASSUME NEW s, NEW new, new.status = s.status, new.queue = s.queue, NEW off, NEW k
  PROVE  (Linked(s, off) => Linked(new, off)) /\ (Placed(s, k) => Placed(new, k))
BY DEF Linked, Placed, In

\* new is s after the mutex l was passed on or unlocked
Handed(s, new, l) ==
  /\ \A m \in Locks \ {l} : new.locked[m] = s.locked[m] /\ new.owner[m] = s.owner[m]
  /\ IF In(s, LockQ(l)) = {} THEN ~ new.locked[l] ELSE new.locked[l] /\ new.owner[l] \in In(s, LockQ(l))
  /\ \A u \in Tasks : new.status[u] = IF new.locked[l] /\ u = new.owner[l] THEN "READY" ELSE s.status[u]
  /\ \A y \in BlockQueues : In(new, y) \subseteq In(s, y)

\* the owner o of the mutex has no claim that Owed protects
Unowed(s, off, k, o) == o \in off \/ s.status[o] = "EXITED" \/ \A y \in Queues : o \notin In(k.base, y)

LEMMA OwnerType ==
  ASSUME NEW s \in Snap, NEW l \in Locks, NEW w \in Tasks
  PROVE  [s EXCEPT !.owner[l] = w] \in Snap
BY DEF Snap

LEMMA HandOffType ==
  ASSUME NEW s \in Snap, NEW l \in Locks
  PROVE  HandOff(s, l) \in Snap
<1>1. CASE s.queue[LockQ(l)] = <<>>
  BY <1>1 DEF HandOff, Snap
<1>2. CASE s.queue[LockQ(l)] # <<>>
  <2> DEFINE w == Head(s.queue[LockQ(l)])
  <2>1. w \in Tasks
    <3>1. s.queue[LockQ(l)] \in Seq(Tasks)
      BY SnapIs, HeadsAre
    <3> QED BY <1>2, <3>1
  <2>2. HandOff(s, l) = [do_unblock(s, w) EXCEPT !.owner[l] = w]
    BY <1>2 DEF HandOff
  <2> HIDE DEF w
  <2> DEFINE mid == do_unblock(s, w)
  <2>3. mid \in Snap
    BY <2>1, MoveType
  <2> HIDE DEF mid
  <2>4. HandOff(s, l) = [mid EXCEPT !.owner[l] = w]
    BY <2>2 DEF mid
  <2> QED BY <2>1, <2>3, <2>4, OwnerType
<1> QED BY <1>1, <1>2

LEMMA HandOffFit ==
  ASSUME NEW s, NEW off \in SUBSET Tasks, NEW k, Fit(s, off, k), NEW l \in Locks,
         Unowed(s, off, k, s.owner[l])
  PROVE  Fit(HandOff(s, l), off, k) /\ Handed(s, HandOff(s, l), l)
<1> DEFINE new == HandOff(s, l)
           q == s.queue[LockQ(l)]
<1>1. /\ s \in Snap /\ Linked(s, off) /\ Placed(s, k) /\ Served(s, k) /\ Owed(s, off, k)
      /\ LockQ(l) \in BlockQueues /\ LockQ(l) \in Queues
  BY HeadsAre DEF Fit
<1>2. new \in Snap
  BY <1>1, HandOffType
<1>3. \A u \in Procs : u \in Tasks
  BY DEF Tasks
<1>4. CASE q = <<>>
  <2>1. /\ new.status = s.status /\ new.queue = s.queue /\ new.owner = s.owner
        /\ new.locked = [s.locked EXCEPT ![l] = FALSE]
    BY <1>1, <1>4 DEF HandOff, Snap
  <2>2. \A m \in Locks : new.locked[m] = IF m = l THEN FALSE ELSE s.locked[m]
    BY <1>1, <2>1, SnapIs
  <2> HIDE DEF new
  <2>3. Linked(new, off) /\ Placed(new, k)
    BY <1>1, <2>1, SameTasks
  <2>4. \A y : In(new, y) = In(s, y)
    BY <2>1 DEF In
  <2>5. In(s, LockQ(l)) = {}
    BY <1>4 DEF In, Range
  <2>6. Served(new, k)
    BY <1>1, <2>1, <2>2, <2>4, <2>5 DEF Served
  <2>7. Owed(new, off, k)
    BY <1>1, <1>3, <2>1, <2>2, <2>4, HeadsAre DEF Owed, Unowed
  <2>8. Handed(s, new, l)
    BY <2>1, <2>2, <2>4, <2>5 DEF Handed
  <2> QED BY <1>2, <2>3, <2>6, <2>7, <2>8 DEF Fit, new
<1>5. CASE q # <<>>
  <2> DEFINE w == Head(q)
             mid == do_unblock(s, w)
  <2>1. w \in In(s, LockQ(l))
    BY <1>1, <1>5, SnapIs, TailIs DEF In, Linked
  <2>2. w \in Tasks \ off /\ s.status[w] = "BLOCKED" /\ w \in Procs
    <3>1. w \in Tasks \ off
      BY <1>1, <2>1, SnapIs DEF Linked
    <3>2. s.status[w] = "BLOCKED"
      BY <1>1, <2>1, <3>1 DEF Linked
    <3> QED BY <1>1, <3>1, <3>2 DEF Placed, Tasks
  <2>3. new = [mid EXCEPT !.owner[l] = w]
    BY <1>5 DEF HandOff
  <2> HIDE DEF w
  <2>4. mid \in Snap /\ Moved(s, mid, w, Ready, "READY")
    BY <1>1, <2>2, MoveType, FitMoves
  <2> HIDE DEF mid
  <2>5. /\ new.status = mid.status /\ new.queue = mid.queue /\ new.locked = mid.locked
        /\ new.owner = [mid.owner EXCEPT ![l] = w]
    BY <2>3, <2>4 DEF Snap
  <2> HIDE DEF new
  <2>6. Goes(Ready, "READY")
    BY DEF Goes
  <2>7. \A g \in Harts : k.cur[g] = w => g \in k.ex /\ w \in Procs
    BY <1>1, <2>2 DEF Placed
  <2>8. Linked(mid, off) /\ Placed(mid, k)
    BY <1>1, <2>2, <2>4, <2>6, <2>7, MovedLinked, MovedPlaced
  <2>9. Served(mid, k)
    BY <1>1, <2>2, <2>4, <2>6, HeadsDiffer, MovedServed
  <2>10. Linked(new, off) /\ Placed(new, k)
    BY <2>5, <2>8, SameTasks
  <2>11. /\ \A m \in Locks : new.locked[m] = s.locked[m] /\ new.owner[m] = IF m = l THEN w ELSE s.owner[m]
         /\ \A u \in Tasks : new.status[u] = IF u = w THEN "READY" ELSE s.status[u]
         /\ \A y \in BlockQueues : In(new, y) = In(s, y) \ {w} /\ In(new, y) = In(mid, y)
    <3>1. \A m \in Locks : new.locked[m] = s.locked[m] /\ new.owner[m] = IF m = l THEN w ELSE s.owner[m]
      BY <1>1, <2>4, <2>5, SnapIs DEF Moved
    <3>2. \A u \in Tasks : new.status[u] = IF u = w THEN "READY" ELSE s.status[u]
      BY <1>1, <2>4, <2>5, SnapIs DEF Moved
    <3>3. \A y : In(new, y) = In(mid, y)
      BY <2>5 DEF In
    <3>4. \A y \in BlockQueues : In(mid, y) = In(s, y) \ {w}
      BY <2>4, HeadsAre DEF Moved
    <3> QED BY <3>1, <3>2, <3>3, <3>4
  <2>12. Served(new, k)
    BY <1>3, <2>2, <2>5, <2>9, <2>11, HeadsAre DEF Served
  <2>13. s.locked[l]
    BY <1>1, <2>1 DEF Served
  <2>14. Owed(new, off, k)
    <3>1. \A m \in Locks : w \in In(s, LockQ(m)) => m = l
      BY <1>1, <2>1, <2>2, HeadsAre, HeadsDiffer DEF Linked
    <3>2. \A c \in Conds : w \notin In(s, CondQ(c))
      BY <1>1, <2>1, <2>2, HeadsAre, HeadsDiffer DEF Linked
    <3> SUFFICES ASSUME NEW u \in Procs \ off, new.status[u] # "EXITED"
                 PROVE  /\ \A m \in Locks : u \in In(k.base, LockQ(m)) =>
                             u \in In(new, LockQ(m)) \/ (new.locked[m] /\ new.owner[m] = u)
                        /\ \A c \in Conds : u \in In(k.base, CondQ(c)) =>
                             /\ k.mi[u] \in Locks
                             /\ \/ u \in In(new, CondQ(c)) \/ u \in In(new, LockQ(k.mi[u]))
                                \/ new.locked[k.mi[u]] /\ new.owner[k.mi[u]] = u
      BY DEF Owed
    <3>3. CASE u = w
      BY <1>1, <2>2, <2>11, <2>13, <3>1, <3>2, <3>3, HeadsAre DEF Owed
    <3>4. CASE u # w
      <4>1. s.status[u] # "EXITED"
        BY <1>3, <2>11, <3>4
      <4>2. CASE u # s.owner[l]
        BY <1>1, <2>11, <3>4, <4>1, <4>2, HeadsAre DEF Owed
      <4>3. CASE u = s.owner[l]
        BY <4>1, <4>3, HeadsAre DEF Unowed
      <4> QED BY <4>2, <4>3
    <3> QED BY <3>3, <3>4
  <2>15. Handed(s, new, l)
    BY <2>1, <2>2, <2>11, <2>13 DEF Handed
  <2> QED BY <1>2, <2>10, <2>12, <2>14, <2>15 DEF Fit, new
<1> QED BY <1>4, <1>5

\* where a hand-over puts the new owner
LEMMA HandedPlaces ==
  ASSUME NEW s, NEW new, NEW off, NEW k, Fit(s, off, k), Fit(new, off, k), NEW l \in Locks, Handed(s, new, l)
  PROVE  /\ \A u \in Tasks \ off : Where(new)[u] = IF Owners(new)[l] = u THEN Ready ELSE Where(s)[u]
         /\ Owners(new)[l] \in D!Heirs(In(s, LockQ(l)))
         /\ \A m \in Locks \ {l} : Owners(new)[m] = Owners(s)[m]
<1>1. s \in Snap /\ new \in Snap /\ Linked(s, off) /\ Linked(new, off) /\ None \notin Tasks
  BY TasksAssumption DEF Fit, Tasks, TasksAssumption
<1>2. ASSUME NEW u \in Tasks \ off
      PROVE  Where(new)[u] = IF Owners(new)[l] = u THEN Ready ELSE Where(s)[u]
  <2>1. Owners(new)[l] = u <=> new.locked[l] /\ u = new.owner[l]
    BY <1>1 DEF Owners
  <2>2. CASE Owners(new)[l] = u
    <3>1. new.status[u] = "READY"
      BY <2>1, <2>2 DEF Handed
    <3> QED BY <1>1, <2>2, <3>1, WhereIs
  <2>3. CASE Owners(new)[l] # u
    <3>1. new.status[u] = s.status[u] /\ \A y \in BlockQueues : u \in In(new, y) => u \in In(s, y)
      BY <2>1, <2>3 DEF Handed
    <3> QED BY <1>1, <2>3, <3>1, NotMoved
  <2> QED BY <2>2, <2>3
<1>3. Owners(new)[l] \in D!Heirs(In(s, LockQ(l)))
  BY DEF Owners, Handed, D!Heirs
<1>4. \A m \in Locks \ {l} : Owners(new)[m] = Owners(s)[m]
  BY DEF Owners, Handed
<1> QED BY <1>2, <1>3, <1>4

\* new is s after t took the mutex l
Taken(s, new, l, t) ==
  /\ new \in Snap /\ new.status = s.status /\ new.queue = s.queue
  /\ new.locked[l] /\ new.owner[l] = t
  /\ \A m \in Locks \ {l} : new.locked[m] = s.locked[m] /\ new.owner[m] = s.owner[m]

LEMMA TakeIs ==
  ASSUME NEW s \in Snap, NEW l \in Locks, NEW t \in Procs
  PROVE  Taken(s, [s EXCEPT !.locked[l] = TRUE, !.owner[l] = t], l, t)
<1> DEFINE new == [s EXCEPT !.locked[l] = TRUE, !.owner[l] = t]
<1>1. /\ new.status = s.status /\ new.queue = s.queue
      /\ new.locked = [s.locked EXCEPT ![l] = TRUE] /\ new.owner = [s.owner EXCEPT ![l] = t]
  BY DEF Snap
<1>2. new \in Snap
  BY DEF Snap, Tasks
<1> HIDE DEF new
<1>3. /\ new.locked[l] /\ new.owner[l] = t
      /\ \A m \in Locks \ {l} : new.locked[m] = s.locked[m] /\ new.owner[m] = s.owner[m]
  BY <1>1, SnapIs
<1>4. Taken(s, new, l, t)
  BY <1>1, <1>2, <1>3 DEF Taken
<1> QED BY <1>4 DEF new

\* a free mutex is taken by a live process
LEMMA TakenServed ==
  ASSUME NEW s, NEW k, Served(s, k), NEW l \in Locks, NEW t \in Procs, s.status[t] # "EXITED",
         NEW new, Taken(s, new, l, t)
  PROVE  Served(new, k)
<1>1. \A y : In(new, y) = In(s, y)
  BY DEF In, Taken
<1> QED BY <1>1 DEF Served, Taken

LEMMA TakenOwed ==
  ASSUME NEW s, NEW off, NEW k, Owed(s, off, k), NEW l \in Locks, ~ s.locked[l], NEW t,
         NEW new, Taken(s, new, l, t)
  PROVE  Owed(new, off, k)
<1>1. \A y : In(new, y) = In(s, y)
  BY DEF In, Taken
<1> QED BY <1>1 DEF Owed, Taken

(***************************************************************************)
(* do_kill: the locks, then the waiters of the task.                       *)
(***************************************************************************)
LEMMA InOrderIs ==
  ASSUME NEW S \in SUBSET Nat, IsFiniteSet(S)
  PROVE  InOrder(S) \in Seq(S) /\ Range(InOrder(S)) = S
<1>1. \E q \in Increasing(S) : Range(q) = S
  BY IncreasingExists
<1>2. InOrder(S) \in Increasing(S)
  BY <1>1, Zenon DEF InOrder, Increasing
<1> QED BY <1>2, IncreasingIs

\* one pass of do_release_locks
GiveUp(a, l, p) == IF a.locked[l] /\ a.owner[l] = p THEN HandOff(a, l) ELSE a

LEMMA ReleaseLoop ==
  ASSUME NEW s \in Snap, NEW q \in Seq(Locks), NEW p, q = InOrder(Locks)
  PROVE  \E w \in [0 .. Len(q) -> Snap] :
           /\ w[0] = s /\ w[Len(q)] = do_release_locks(s, p)
           /\ \A i \in 1 .. Len(q) : w[i] = GiveUp(w[i - 1], q[i], p)
<1> DEFINE n == Len(q)
           G == [i \in 1 .. n |-> [a \in Snap |-> (IF a.locked[q[i]] /\ a.owner[q[i]] = p THEN HandOff(a, q[i]) ELSE a)]]
           F(f) == [U \in SUBSET (1 .. n) |-> IF U = {} THEN s ELSE (IF f[U \ {Max(U)}].locked[q[Max(U)]] /\ f[U \ {Max(U)}].owner[q[Max(U)]] = p THEN HandOff(f[U \ {Max(U)}], q[Max(U)]) ELSE f[U \ {Max(U)}])]
           g == CHOOSE f : f = F(f)
<1>0. n \in Nat /\ DOMAIN q = 1 .. n /\ \A i \in 1 .. n : q[i] \in Locks
  OBVIOUS
<1>1. do_release_locks(s, p) = g[1 .. n]
  BY <1>0 DEF FoldLeft, MapThenFoldSet, do_release_locks
<1>2. \A i \in 1 .. n : \A a \in Snap : G[i][a] = (IF a.locked[q[i]] /\ a.owner[q[i]] = p THEN HandOff(a, q[i]) ELSE a) /\ (IF a.locked[q[i]] /\ a.owner[q[i]] = p THEN HandOff(a, q[i]) ELSE a) \in Snap
  BY <1>0, HandOffType
<1>3. G \in [1 .. n -> [Snap -> Snap]]
  BY <1>2
<1> HIDE DEF G, n
<1>4. PICK f \in [SUBSET (1 .. n) -> Snap] : Folding(f, s, G, n)
  BY <1>0, <1>3, FoldExists
<1>5. f = F(f)
  <2>1. ASSUME NEW U \in SUBSET (1 .. n), U # {}
        PROVE  f[U] = (IF f[U \ {Max(U)}].locked[q[Max(U)]] /\ f[U \ {Max(U)}].owner[q[Max(U)]] = p THEN HandOff(f[U \ {Max(U)}], q[Max(U)]) ELSE f[U \ {Max(U)}])
    <3>1. Max(U) \in 1 .. n /\ f[U] = G[Max(U)][f[U \ {Max(U)}]]
      BY <1>4, <2>1 DEF Folding
    <3>2. f[U \ {Max(U)}] \in Snap
      OBVIOUS
    <3> QED BY <1>2, <3>1, <3>2
  <2>2. f[{}] = s
    BY <1>4 DEF Folding
  <2> QED BY <2>1, <2>2
<1>6. g = F(g)
  BY <1>5, Zenon
<1>7. Unfolds(g, s, G, Snap, n)
  <2>1. g[{}] = s
    BY <1>6
  <2>2. ASSUME NEW U \in SUBSET (1 .. n), U # {}, g[U \ {Max(U)}] \in Snap
        PROVE  g[U] = G[Max(U)][g[U \ {Max(U)}]]
    <3>1. Max(U) \in 1 .. n
      BY <1>4, <2>2 DEF Folding
    <3>2. g[U] = (IF g[U \ {Max(U)}].locked[q[Max(U)]] /\ g[U \ {Max(U)}].owner[q[Max(U)]] = p THEN HandOff(g[U \ {Max(U)}], q[Max(U)]) ELSE g[U \ {Max(U)}])
      BY <1>6, <2>2
    <3> HIDE DEF g
    <3> QED BY <1>2, <2>2, <3>1, <3>2
  <2> HIDE DEF g
  <2> QED BY <2>1, <2>2 DEF Unfolds
<1> HIDE DEF g
<1>8. PICK w : Turns(w, s, g[1 .. n], G, Snap, n)
  <2>1. s \in Snap /\ n \in Nat
    BY <1>0
  <2> QED BY ONLY <1>3, <1>7, <2>1, FoldSteps
<1>9. \A i \in 1 .. n : w[i] = GiveUp(w[i - 1], q[i], p)
  BY <1>0, <1>2, <1>8 DEF Turns, GiveUp
<1> QED BY <1>1, <1>8, <1>9 DEF n, Turns

(***************************************************************************)
(* do_release_locks: a is s after p has given up those of L that it owned. *)
(***************************************************************************)
Freed(s, a, off, p, L) ==
  /\ \A l \in Locks : IF l \in L /\ Owners(s)[l] = p THEN Owners(a)[l] \in D!Heirs(In(s, LockQ(l)))
                                                     ELSE Owners(a)[l] = Owners(s)[l]
  /\ \A u \in Tasks \ off : Where(a)[u] = IF \E l \in L : Owners(s)[l] = p /\ Owners(a)[l] = u
                                          THEN Ready ELSE Where(s)[u]

LEMMA FreedMore ==
  ASSUME NEW s, NEW a, NEW off \in SUBSET Tasks, NEW k, Fit(s, off, k), Fit(a, off, k), NEW p \in off,
         NEW L \in SUBSET Locks, Freed(s, a, off, p, L), NEW l \in Locks,
         NEW new, new = IF a.locked[l] /\ a.owner[l] = p THEN HandOff(a, l) ELSE a
  PROVE  Fit(new, off, k) /\ Freed(s, new, off, p, L \cup {l})
<1>1. /\ s \in Snap /\ a \in Snap /\ Linked(s, off) /\ Linked(a, off) /\ None \notin Tasks /\ p \in Tasks
      /\ Owners(a)[l] = p <=> a.locked[l] /\ a.owner[l] = p
  BY TasksAssumption DEF Fit, Tasks, TasksAssumption, Owners
<1>2. \A m \in Locks : p \notin D!Heirs(In(s, LockQ(m)))
  BY <1>1, HeadsAre DEF Linked, D!Heirs
<1>3. CASE Owners(a)[l] # p
  <2>1. new = a
    BY <1>1, <1>3
  <2>2. \A m \in Locks : m \in L \cup {l} /\ Owners(s)[m] = p <=> m \in L /\ Owners(s)[m] = p
    BY <1>3 DEF Freed
  <2> QED BY <2>1, <2>2 DEF Freed
<1>4. CASE Owners(a)[l] = p
  <2>1. Owners(s)[l] = p /\ l \notin L
    BY <1>2, <1>4 DEF Freed
  <2>2. new = HandOff(a, l) /\ Unowed(a, off, k, a.owner[l])
    BY <1>1, <1>4 DEF Unowed
  <2>3. Fit(new, off, k) /\ Handed(a, new, l)
    BY <2>2, HandOffFit
  <2>4. /\ \A u \in Tasks \ off : Where(new)[u] = IF Owners(new)[l] = u THEN Ready ELSE Where(a)[u]
        /\ Owners(new)[l] \in D!Heirs(In(a, LockQ(l)))
        /\ \A m \in Locks \ {l} : Owners(new)[m] = Owners(a)[m]
    BY <2>3, HandedPlaces
  <2>5. In(a, LockQ(l)) = In(s, LockQ(l))
    <3>1. LockQ(l) \in Queues /\ LockQ(l) # Ready
      BY HeadsAre, HeadsDiffer
    <3>2. \A u \in Tasks \ off : \A x \in {a, s} : u \in In(x, LockQ(l)) <=> Where(x)[u] = LockQ(l)
      BY <1>1, <3>1, WhereIs
    <3>3. In(a, LockQ(l)) \subseteq Tasks \ off /\ In(s, LockQ(l)) \subseteq Tasks \ off
      BY <1>1, <3>1, SnapIs DEF Linked
    <3>4. ASSUME NEW u \in Tasks \ off PROVE Where(a)[u] = LockQ(l) <=> Where(s)[u] = LockQ(l)
      <4>1. CASE \E m \in L : Owners(s)[m] = p /\ Owners(a)[m] = u
        <5>1. PICK m \in L : Owners(s)[m] = p /\ Owners(a)[m] = u
          BY <4>1
        <5>2. u \in In(s, LockQ(m))
          BY <1>1, <5>1 DEF Freed, D!Heirs
        <5>3. u \notin In(s, LockQ(l))
          BY <1>1, <2>1, <3>1, <5>1, <5>2, HeadsAre, HeadsDiffer DEF Linked
        <5> QED BY <3>1, <3>2, <4>1, <5>3 DEF Freed
      <4>2. CASE ~ \E m \in L : Owners(s)[m] = p /\ Owners(a)[m] = u
        BY <4>2 DEF Freed
      <4> QED BY <4>1, <4>2
    <3> QED BY <3>2, <3>3, <3>4
  <2>6. \A m \in Locks : IF m \in L \cup {l} /\ Owners(s)[m] = p
                         THEN Owners(new)[m] \in D!Heirs(In(s, LockQ(m)))
                         ELSE Owners(new)[m] = Owners(s)[m]
    BY <2>1, <2>4, <2>5 DEF Freed
  <2>7. ASSUME NEW u \in Tasks \ off
        PROVE  Where(new)[u] = IF \E m \in L \cup {l} : Owners(s)[m] = p /\ Owners(new)[m] = u
                               THEN Ready ELSE Where(s)[u]
    <3>1. \A m \in L : Owners(new)[m] = Owners(a)[m]
      BY <2>1, <2>4
    <3> QED BY <2>1, <2>4, <3>1 DEF Freed
  <2> QED BY <2>3, <2>6, <2>7 DEF Freed
<1> QED BY <1>3, <1>4

LEMMA ReleaseLocksPlaces ==
  ASSUME NEW s, NEW off \in SUBSET Tasks, NEW k, Fit(s, off, k), NEW p \in off
  PROVE  Fit(do_release_locks(s, p), off, k) /\ Freed(s, do_release_locks(s, p), off, p, Locks)
<1> DEFINE q == InOrder(Locks)
           Seen(i) == {q[j] : j \in 1 .. i}
           P == [i \in 0 .. Len(q) |-> {a \in Snap : Fit(a, off, k) /\ Freed(s, a, off, p, Seen(i))}]
<1>1. s \in Snap /\ q \in Seq(Locks) /\ Range(q) = Locks /\ q = InOrder(Locks)
  BY KernelAssumption, InOrderIs DEF KernelAssumption, Fit
<1> HIDE DEF q
<1>2. PICK w \in [0 .. Len(q) -> Snap] :
        /\ w[0] = s /\ w[Len(q)] = do_release_locks(s, p)
        /\ \A i \in 1 .. Len(q) : w[i] = GiveUp(w[i - 1], q[i], p)
  BY <1>1, ReleaseLoop
<1>3. DOMAIN q = 1 .. Len(q) /\ Len(q) \in Nat /\ \A i \in 1 .. Len(q) : q[i] \in Locks
  BY <1>1
<1>4. w[0] \in P[0]
  <2>1. Seen(0) = {} /\ Freed(s, s, off, p, {})
    BY DEF Freed
  <2> HIDE DEF Seen
  <2>2. 0 \in 0 .. Len(q) /\ w[0] = s
    BY <1>2, <1>3
  <2>3. Freed(s, s, off, p, Seen(0))
    BY <2>1
  <2> QED BY <1>1, <2>2, <2>3
<1>5. ASSUME NEW i \in 1 .. Len(q), w[i - 1] \in P[i - 1]
      PROVE  w[i] \in P[i]
  <2>1. i - 1 \in 0 .. Len(q) /\ i \in 0 .. Len(q) /\ q[i] \in Locks
    BY <1>3
  <2>2. Fit(w[i - 1], off, k) /\ Freed(s, w[i - 1], off, p, Seen(i - 1))
    BY <1>5, <2>1
  <2>3. Seen(i - 1) \in SUBSET Locks /\ Seen(i) = Seen(i - 1) \cup {q[i]}
    <3>1. \A j \in 1 .. i : j \in 1 .. (i - 1) \/ j = i
      BY <2>1
    <3>2. i \in 1 .. i /\ \A j \in 1 .. (i - 1) : j \in 1 .. i /\ j \in 1 .. Len(q)
      BY <1>3, <2>1
    <3> QED BY <1>3, <3>1, <3>2
  <2>4. w[i] \in Snap
    BY <1>2, <2>1
  <2> DEFINE a == w[i - 1]
             new == w[i]
             L == Seen(i - 1)
  <2>5. new = IF a.locked[q[i]] /\ a.owner[q[i]] = p THEN HandOff(a, q[i]) ELSE a
    BY <1>2 DEF GiveUp
  <2> HIDE DEF Seen, a, new, L
  <2>6. Fit(new, off, k) /\ Freed(s, new, off, p, L \cup {q[i]})
    <3>1. Fit(a, off, k) /\ Freed(s, a, off, p, L) /\ L \in SUBSET Locks
      BY <2>2, <2>3 DEF a, L
    <3> QED BY <2>1, <2>5, <3>1, FreedMore
  <2>7. Fit(w[i], off, k) /\ Freed(s, w[i], off, p, Seen(i))
    BY <2>3, <2>6 DEF new, L
  <2> QED BY <2>1, <2>4, <2>7
<1> HIDE DEF P
<1>6. w[Len(q)] \in P[Len(q)]
  BY <1>3, <1>4, <1>5, LoopKeeps
<1>7. Seen(Len(q)) = Locks
  BY <1>1, <1>3 DEF Range
<1> HIDE DEF Seen
<1> QED BY <1>2, <1>3, <1>6, <1>7 DEF P

\* new is s after p was killed
Killed(s, new, p) ==
  /\ Where(new)[p] = Exited
  /\ \A l \in Locks : IF Owners(s)[l] = p THEN Owners(new)[l] \in D!Heirs(In(s, LockQ(l)) \ {p})
                                          ELSE Owners(new)[l] = Owners(s)[l]
  /\ \A u \in Tasks \ {p} :
       Where(new)[u] = IF u \in In(s, WaitQ(p)) \/ \E l \in Locks : Owners(s)[l] = p /\ Owners(new)[l] = u
                       THEN Ready ELSE Where(s)[u]

LEMMA KillIs ==
  ASSUME NEW s, NEW k, Fit(s, {}, k), NEW p \in Procs
  PROVE  Fit(do_kill(s, p), {}, k) /\ do_kill(s, p).status[p] = "EXITED" /\ Killed(s, do_kill(s, p), p)
<1> DEFINE gone  == [s EXCEPT !.queue = LIST_REMOVE(s.queue, p)]
           freed == do_release_locks(gone, p)
           woken == UnblockAll(freed, WaitQ(p))
           new   == do_kill(s, p)
<1>0. p \in Tasks /\ p \notin Idles /\ {p} \in SUBSET Tasks /\ p # None
  BY TasksAssumption DEF Tasks, TasksAssumption
<1>1. s \in Snap /\ Linked(s, {}) /\ Placed(s, k) /\ Served(s, k) /\ Owed(s, {}, k)
  BY DEF Fit
<1>2. new = [woken EXCEPT !.status[p] = "EXITED"]
  BY DEF do_kill
<1>3. /\ Fit(gone, {p}, k) /\ gone.status = s.status /\ Owners(gone) = Owners(s)
      /\ \A x \in Queues : In(gone, x) = In(s, x) \ {p}
  <2>1. /\ LIST_REMOVE(s.queue, p) \in Lists
        /\ \A x \in Queues : Range(LIST_REMOVE(s.queue, p)[x]) = Range(s.queue[x]) \ {p}
    BY <1>1, SnapIs, RemoveIs DEF Lists, Linked
  <2>2. /\ gone.status = s.status /\ gone.locked = s.locked /\ gone.owner = s.owner
        /\ gone.queue = LIST_REMOVE(s.queue, p)
    BY <1>1 DEF Snap
  <2>3. gone \in Snap
    BY <1>1, <2>1 DEF Snap, Lists
  <2> HIDE DEF gone
  <2>4. \A x \in Queues : In(gone, x) = In(s, x) \ {p} /\ IsInjective(gone.queue[x])
    BY <2>1, <2>2 DEF In, Lists
  <2>5. Linked(gone, {p})
    BY <1>1, <2>2, <2>4, HeadsAre DEF Linked
  <2>6. Placed(gone, k)
    BY <1>1, <2>2 DEF Placed
  <2>7. Served(gone, k)
    BY <1>1, <2>2, <2>4, HeadsAre DEF Served
  <2>8. Owed(gone, {p}, k)
    BY <1>1, <2>2, <2>4, HeadsAre DEF Owed
  <2>9. Owners(gone) = Owners(s)
    BY <2>2 DEF Owners
  <2> QED BY <2>2, <2>3, <2>4, <2>5, <2>6, <2>7, <2>8, <2>9 DEF Fit
<1> HIDE DEF gone
<1>4. /\ Fit(freed, {p}, k) /\ Freed(gone, freed, {p}, p, Locks)
      /\ \A l \in Locks : ~ (freed.locked[l] /\ freed.owner[l] = p)
  <2>1. Fit(freed, {p}, k) /\ Freed(gone, freed, {p}, p, Locks)
    BY <1>0, <1>3, ReleaseLocksPlaces
  <2>2. \A l \in Locks : p \notin In(gone, LockQ(l))
    BY <1>3, HeadsAre
  <2>3. \A l \in Locks : Owners(freed)[l] # p
    BY <1>0, <2>1, <2>2 DEF Freed, D!Heirs
  <2> QED BY <2>1, <2>3 DEF Owners
<1> HIDE DEF freed
<1>5. Fit(woken, {p}, k) /\ Woken(freed, woken, WaitQ(p)) /\ In(woken, WaitQ(p)) = {}
  BY <1>0, <1>4, HeadsAre, HeadsDiffer, UnblockAllFit
<1> HIDE DEF woken, new
<1>6. /\ woken \in Snap /\ Linked(woken, {p}) /\ Placed(woken, k) /\ Served(woken, k) /\ Owed(woken, {p}, k)
      /\ \A l \in Locks : ~ (woken.locked[l] /\ woken.owner[l] = p)
  BY <1>4, <1>5 DEF Fit, Woken
<1>7. /\ new.status = [woken.status EXCEPT ![p] = "EXITED"] /\ new.queue = woken.queue
      /\ new.locked = woken.locked /\ new.owner = woken.owner
  BY <1>2, <1>6 DEF Snap
<1>8. new \in Snap
  BY <1>2, <1>6 DEF Snap
<1>9. /\ \A u \in Tasks : new.status[u] = IF u = p THEN "EXITED" ELSE woken.status[u]
      /\ \A x : In(new, x) = In(woken, x)
  BY <1>0, <1>6, <1>7, SnapIs DEF In
<1>10. Linked(new, {})
  BY <1>6, <1>7, <1>9, HeadsAre DEF Linked
<1>11. Placed(new, k)
  BY <1>0, <1>6, <1>9 DEF Placed, Tasks
<1>12. Served(new, k)
  <2>1. \A l \in Locks : woken.owner[l] \in Tasks
    BY <1>6, SnapIs
  <2>2. \A r \in Procs : WaitQ(r) = WaitQ(p) => r = p
    BY HeadsDiffer
  <2> QED BY <1>5, <1>6, <1>7, <1>9, <2>1, <2>2 DEF Served, Tasks
<1>13. Owed(new, {}, k)
  <2>1. \A u \in Procs : u \in Tasks
    BY DEF Tasks
  <2> QED BY <1>6, <1>7, <1>9, <2>1 DEF Owed
<1>14. Killed(s, new, p)
  <2> DEFINE Got(u) == \E l \in Locks : Owners(s)[l] = p /\ Owners(new)[l] = u
  <2>1. Owners(new) = Owners(freed)
    BY <1>5, <1>7 DEF Owners, Woken
  <2>2. \A l \in Locks : IF Owners(s)[l] = p THEN Owners(new)[l] \in D!Heirs(In(s, LockQ(l)) \ {p})
                                             ELSE Owners(new)[l] = Owners(s)[l]
    BY <1>3, <1>4, <2>1, HeadsAre DEF Freed
  <2>3. Where(new)[p] = Exited
    BY <1>0, <1>8, <1>9, <1>10, WhereIs
  <2>4. ASSUME NEW u \in Tasks \ {p}
        PROVE  Where(new)[u] = IF u \in In(s, WaitQ(p)) \/ Got(u) THEN Ready ELSE Where(s)[u]
    <3>1. Where(gone)[u] = Where(s)[u]
      BY <1>1, <1>3, NotMoved, HeadsAre DEF Fit
    <3>2. Where(freed)[u] = IF Got(u) THEN Ready ELSE Where(s)[u]
      BY <1>3, <1>4, <2>1, <3>1 DEF Freed
    <3> HIDE DEF Got
    <3>3. Where(woken)[u] = IF u \in In(freed, WaitQ(p)) THEN Ready ELSE Where(freed)[u]
      BY <1>4, <1>5, WokenPlaces, HeadsAre
    <3>4. Where(new)[u] = Where(woken)[u]
      BY <1>6, <1>8, <1>9, <1>10, NotMoved
    <3>5. /\ u \in In(freed, WaitQ(p)) <=> Where(freed)[u] = WaitQ(p)
          /\ u \in In(s, WaitQ(p)) <=> Where(s)[u] = WaitQ(p)
          /\ WaitQ(p) # Ready
      BY <1>1, <1>4, WhereIs, HeadsAre, HeadsDiffer DEF Fit
    <3> QED BY <3>2, <3>3, <3>4, <3>5
  <2> QED BY <2>2, <2>3, <2>4 DEF Killed
<1> QED BY <1>0, <1>8, <1>9, <1>10, <1>11, <1>12, <1>13, <1>14 DEF Fit, new

LEMMA KillType ==
  ASSUME NEW s \in Snap, NEW p \in Procs
  PROVE  do_kill(s, p) \in Snap
<1> DEFINE gone  == [s EXCEPT !.queue = LIST_REMOVE(s.queue, p)]
           freed == do_release_locks(gone, p)
           woken == UnblockAll(freed, WaitQ(p))
<1>1. gone \in Snap
  <2>1. LIST_REMOVE(s.queue, p) \in [Queues -> Seq(Tasks)]
    BY SnapIs, RemoveType
  <2> QED BY <2>1 DEF Snap
<1> HIDE DEF gone
<1>2. freed \in Snap
  <2> DEFINE q == InOrder(Locks)
  <2>1. q \in Seq(Locks) /\ q = InOrder(Locks)
    BY KernelAssumption, InOrderIs DEF KernelAssumption
  <2> HIDE DEF q
  <2>2. \E w \in [0 .. Len(q) -> Snap] : w[Len(q)] = freed
    BY <1>1, <2>1, ReleaseLoop
  <2>3. Len(q) \in 0 .. Len(q)
    BY <2>1
  <2> QED BY <2>2, <2>3
<1> HIDE DEF freed
<1>3. woken \in Snap
  <2> DEFINE q == freed.queue[WaitQ(p)]
  <2>1. q \in Seq(Tasks)
    BY <1>2, SnapIs, HeadsAre
  <2>2. woken = FoldLeft(do_unblock, freed, q)
    BY DEF UnblockAll
  <2> HIDE DEF q, woken
  <2>3. \E w \in [0 .. Len(q) -> Snap] : w[Len(q)] = woken
    BY <1>2, <2>1, <2>2, UnblockLoop
  <2>4. Len(q) \in 0 .. Len(q)
    BY <2>1
  <2> QED BY <2>3, <2>4
<1> HIDE DEF woken
<1>4. [woken EXCEPT !.status[p] = "EXITED"] \in Snap
  BY <1>3 DEF Snap
<1>5. do_kill(s, p) = [woken EXCEPT !.status[p] = "EXITED"]
  BY DEF do_kill, woken, freed, gone
<1> QED BY <1>4, <1>5

LEMMA KillLoop ==
  ASSUME NEW s \in Snap, NEW q \in Seq(Procs)
  PROVE  \E w \in [0 .. Len(q) -> Snap] :
           /\ w[0] = s /\ w[Len(q)] = FoldLeft(do_kill, s, q)
           /\ \A i \in 1 .. Len(q) : w[i] = do_kill(w[i - 1], q[i])
<1> DEFINE n == Len(q)
           G == [i \in 1 .. n |-> [a \in Snap |-> do_kill(a, q[i])]]
           F(f) == [U \in SUBSET (1 .. n) |-> IF U = {} THEN s ELSE do_kill(f[U \ {Max(U)}], q[Max(U)])]
           g == CHOOSE f : f = F(f)
<1>0. n \in Nat /\ DOMAIN q = 1 .. n /\ \A i \in 1 .. n : q[i] \in Procs
  OBVIOUS
<1>1. FoldLeft(do_kill, s, q) = g[1 .. n]
  BY <1>0 DEF FoldLeft, MapThenFoldSet
<1>2. \A i \in 1 .. n : \A a \in Snap : G[i][a] = do_kill(a, q[i]) /\ do_kill(a, q[i]) \in Snap
  BY <1>0, KillType
<1>3. G \in [1 .. n -> [Snap -> Snap]]
  BY <1>2
<1> HIDE DEF G, n
<1>4. PICK f \in [SUBSET (1 .. n) -> Snap] : Folding(f, s, G, n)
  BY <1>0, <1>3, FoldExists
<1>5. f = F(f)
  <2>1. ASSUME NEW U \in SUBSET (1 .. n), U # {}
        PROVE  f[U] = do_kill(f[U \ {Max(U)}], q[Max(U)])
    <3>1. Max(U) \in 1 .. n /\ f[U] = G[Max(U)][f[U \ {Max(U)}]]
      BY <1>4, <2>1 DEF Folding
    <3>2. f[U \ {Max(U)}] \in Snap
      OBVIOUS
    <3> QED BY <1>2, <3>1, <3>2
  <2>2. f[{}] = s
    BY <1>4 DEF Folding
  <2> QED BY <2>1, <2>2
<1>6. g = F(g)
  BY <1>5, Zenon
<1>7. Unfolds(g, s, G, Snap, n)
  <2>1. g[{}] = s
    BY <1>6
  <2>2. ASSUME NEW U \in SUBSET (1 .. n), U # {}, g[U \ {Max(U)}] \in Snap
        PROVE  g[U] = G[Max(U)][g[U \ {Max(U)}]]
    <3>1. Max(U) \in 1 .. n
      BY <1>4, <2>2 DEF Folding
    <3>2. g[U] = do_kill(g[U \ {Max(U)}], q[Max(U)])
      BY <1>6, <2>2
    <3> HIDE DEF g
    <3> QED BY <1>2, <2>2, <3>1, <3>2
  <2> HIDE DEF g
  <2> QED BY <2>1, <2>2 DEF Unfolds
<1> HIDE DEF g
<1>8. PICK w : Turns(w, s, g[1 .. n], G, Snap, n)
  <2>1. s \in Snap /\ n \in Nat
    BY <1>0
  <2> QED BY ONLY <1>3, <1>7, <2>1, FoldSteps
<1>9. \A i \in 1 .. n : w[i] = do_kill(w[i - 1], q[i])
  BY <1>0, <1>2, <1>8 DEF Turns
<1> QED BY <1>1, <1>8, <1>9 DEF n, Turns

(***************************************************************************)
(* do_kill_all: a is s after the processes of K have ended, one after the  *)
(* other.  What one leaves to another that ends later goes on to somebody  *)
(* who survives.                                                           *)
(***************************************************************************)
FreedBy(s, a, K, u) == \/ \E p \in K : u \in In(s, WaitQ(p))
                       \/ \E l \in Locks : Owners(s)[l] \in K /\ Owners(a)[l] = u

Ended(s, a, K) ==
  /\ \A l \in Locks : IF Owners(s)[l] \in K THEN Owners(a)[l] \in D!Heirs(In(s, LockQ(l)) \ K)
                                            ELSE Owners(a)[l] = Owners(s)[l]
  /\ \A u \in K : Where(a)[u] = Exited
  /\ \A u \in Tasks \ K : Where(a)[u] = IF FreedBy(s, a, K, u) THEN Ready ELSE Where(s)[u]

LEMMA EndedMore ==
  ASSUME NEW s, NEW a, NEW k, Fit(s, {}, k), Fit(a, {}, k), NEW K \in SUBSET Procs, Ended(s, a, K),
         NEW p \in Procs, NEW new, Killed(a, new, p)
  PROVE  Ended(s, new, K \cup {p})
<1>1. /\ s \in Snap /\ a \in Snap /\ Linked(s, {}) /\ Linked(a, {})
      /\ None \notin Tasks /\ p \in Tasks /\ K \subseteq Tasks
  BY TasksAssumption DEF Fit, Tasks, TasksAssumption
<1>2. /\ \A l \in Locks : LockQ(l) \in Queues /\ LockQ(l) # Ready
      /\ \A r \in Procs : WaitQ(r) \in Queues /\ WaitQ(r) # Ready
      /\ \A l \in Locks, m \in Locks : LockQ(l) = LockQ(m) => l = m
      /\ \A l \in Locks, r \in Procs : LockQ(l) # WaitQ(r)
      /\ \A r \in Procs, q \in Procs : WaitQ(r) = WaitQ(q) => r = q
  BY HeadsAre, HeadsDiffer
<1>3. \A u \in Tasks : \A x \in Queues : /\ u \in In(s, x) <=> Where(s)[u] = x
                                         /\ u \in In(a, x) <=> Where(a)[u] = x
  BY <1>1, WhereIs
<1>4. \A x \in Queues : In(s, x) \subseteq Tasks /\ In(a, x) \subseteq Tasks
  BY <1>1, SnapIs
<1>5. \A l \in Locks : Owners(s)[l] \in K /\ Owners(a)[l] # None
                         => Owners(a)[l] \in In(s, LockQ(l)) \ K
  BY DEF Ended, D!Heirs
<1>6. \A l \in Locks : Owners(a)[l] = p /\ p \in K => FALSE
  BY <1>1, <1>5 DEF Ended
<1>7. \A l \in Locks : Owners(a)[l] # p => Owners(new)[l] = Owners(a)[l]
  BY DEF Killed
<1>8. ASSUME NEW l \in Locks, Owners(a)[l] = p
      PROVE  In(a, LockQ(l)) \ {p} \subseteq In(s, LockQ(l)) \ (K \cup {p})
             /\ In(s, LockQ(l)) \ (K \cup {p}) \subseteq In(a, LockQ(l)) \ {p}
  <2>1. ASSUME NEW u \in Tasks, u # p PROVE u \in In(a, LockQ(l)) <=> u \in In(s, LockQ(l)) \ K
    <3>1. CASE u \in K
      <4>1. Where(a)[u] = Exited
        BY <3>1 DEF Ended
      <4> QED BY <1>2, <1>3, <3>1, <4>1, PlacesDiffer
    <3>2. CASE u \notin K /\ FreedBy(s, a, K, u)
      <4>1. Where(a)[u] = Ready
        BY <3>2 DEF Ended
      <4>2. u \notin In(s, LockQ(l))
        <5>1. CASE \E r \in K : u \in In(s, WaitQ(r))
          BY <1>2, <1>3, <5>1
        <5>2. CASE \E m \in Locks : Owners(s)[m] \in K /\ Owners(a)[m] = u
          <6>1. PICK m \in Locks : Owners(s)[m] \in K /\ Owners(a)[m] = u
            BY <5>2
          <6>2. u \in In(s, LockQ(m)) /\ m # l
            BY <1>1, <1>5, <1>8, <2>1, <6>1
          <6> QED BY <1>2, <1>3, <6>2
        <5> QED BY <3>2, <5>1, <5>2 DEF FreedBy
      <4> QED BY <1>2, <1>3, <4>1, <4>2
    <3>3. CASE u \notin K /\ ~ FreedBy(s, a, K, u)
      BY <1>2, <1>3, <3>3 DEF Ended
    <3> QED BY <3>1, <3>2, <3>3
  <2> QED BY <1>2, <1>4, <2>1
<1>9. ASSUME NEW l \in Locks
      PROVE  IF Owners(s)[l] \in K \cup {p} THEN Owners(new)[l] \in D!Heirs(In(s, LockQ(l)) \ (K \cup {p}))
                                            ELSE Owners(new)[l] = Owners(s)[l]
  <2>1. CASE Owners(a)[l] = p
    <3>1. Owners(s)[l] \in K \cup {p}
      BY <2>1 DEF Ended
    <3>2. In(a, LockQ(l)) \ {p} = In(s, LockQ(l)) \ (K \cup {p})
      BY <1>8, <2>1
    <3> QED BY <2>1, <3>1, <3>2 DEF Killed
  <2>2. CASE Owners(a)[l] # p
    <3>1. Owners(new)[l] = Owners(a)[l]
      BY <1>7, <2>2
    <3>2. Owners(s)[l] \in K \cup {p} => Owners(s)[l] \in K
      BY <2>2 DEF Ended
    <3> QED BY <2>2, <3>1, <3>2 DEF Ended, D!Heirs
  <2> QED BY <2>1, <2>2
<1>10. \A u \in K \cup {p} : Where(new)[u] = Exited
  <2> SUFFICES ASSUME NEW u \in K, u # p PROVE Where(new)[u] = Exited
    BY DEF Killed
  <2>1. Where(a)[u] = Exited
    BY DEF Ended
  <2>2. u \notin In(a, WaitQ(p))
    BY <1>1, <1>2, <1>3, <2>1, PlacesDiffer
  <2>3. \A l \in Locks : ~ (Owners(a)[l] = p /\ Owners(new)[l] = u)
    <3> SUFFICES ASSUME NEW l \in Locks, Owners(a)[l] = p, Owners(new)[l] = u PROVE FALSE
      OBVIOUS
    <3>1. u \in In(a, LockQ(l)) \ {p}
      BY <1>1 DEF Killed, D!Heirs
    <3> QED BY <1>8, <3>1
  <2> QED BY <1>1, <2>1, <2>2, <2>3 DEF Killed
<1>11. ASSUME NEW u \in Tasks \ (K \cup {p})
       PROVE  Where(new)[u] = IF FreedBy(s, new, K \cup {p}, u) THEN Ready ELSE Where(s)[u]
  <2> DEFINE By(b) == \E l \in Locks : Owners(a)[l] = p /\ Owners(b)[l] = u
  <2>1. Where(new)[u] = IF u \in In(a, WaitQ(p)) \/ By(new) THEN Ready ELSE Where(a)[u]
    BY DEF Killed
  <2>2. Where(a)[u] = IF FreedBy(s, a, K, u) THEN Ready ELSE Where(s)[u]
    BY DEF Ended
  <2>3. By(new) => FreedBy(s, new, K \cup {p}, u)
    <3>1. \A l \in Locks : Owners(a)[l] = p => Owners(s)[l] \in K \cup {p}
      BY DEF Ended
    <3> QED BY <3>1 DEF FreedBy
  <2>4. FreedBy(s, a, K, u) => FreedBy(s, new, K \cup {p}, u)
    BY <1>7 DEF FreedBy
  <2>5. FreedBy(s, new, K \cup {p}, u) => By(new) \/ FreedBy(s, a, K, u) \/ u \in In(s, WaitQ(p))
    <3>1. \A l \in Locks : Owners(s)[l] \in K \cup {p} /\ Owners(a)[l] # p => Owners(s)[l] \in K
      BY DEF Ended
    <3> QED BY <1>7, <3>1 DEF FreedBy
  <2>6. u \in In(s, WaitQ(p)) => FreedBy(s, new, K \cup {p}, u)
    BY DEF FreedBy
  <2>7. /\ u \in In(a, WaitQ(p)) <=> Where(a)[u] = WaitQ(p)
        /\ u \in In(s, WaitQ(p)) <=> Where(s)[u] = WaitQ(p) 
        /\ WaitQ(p) # Ready
    BY <1>2, <1>3
  <2> HIDE DEF By
  <2> QED BY <2>1, <2>2, <2>3, <2>4, <2>5, <2>6, <2>7
<1> QED BY <1>9, <1>10, <1>11 DEF Ended

LEMMA KillAllIs ==
  ASSUME NEW s, NEW k, Fit(s, {}, k), NEW p \in Procs
  PROVE  /\ Fit(do_kill_all(s, p), {}, k) /\ do_kill_all(s, p).status[p] = "EXITED"
         /\ Ended(s, do_kill_all(s, p), Children(p) \cup {p})
<1> DEFINE q == InOrder(Children(p))
           Seen(i) == {q[j] : j \in 1 .. i}
           P == [i \in 0 .. Len(q) |-> {a \in Snap : Fit(a, {}, k) /\ Ended(s, a, Seen(i))}]
<1>1. s \in Snap /\ q \in Seq(Procs) /\ Range(q) = Children(p)
  <2>1. Children(p) \in SUBSET Nat /\ IsFiniteSet(Children(p)) /\ Children(p) \subseteq Procs
    BY KernelAssumption, FS_Subset DEF KernelAssumption, Children
  <2>2. q \in Seq(Children(p)) /\ Range(q) = Children(p)
    BY <2>1, InOrderIs
  <2> HIDE DEF q
  <2> QED BY <2>1, <2>2 DEF Fit
<1> HIDE DEF q
<1>2. PICK w \in [0 .. Len(q) -> Snap] :
        /\ w[0] = s /\ w[Len(q)] = FoldLeft(do_kill, s, q)
        /\ \A i \in 1 .. Len(q) : w[i] = do_kill(w[i - 1], q[i])
  BY <1>1, KillLoop
<1>3. DOMAIN q = 1 .. Len(q) /\ Len(q) \in Nat /\ \A i \in 1 .. Len(q) : q[i] \in Procs
  BY <1>1
<1>4. w[0] \in P[0]
  <2>1. Seen(0) = {} /\ Ended(s, s, {})
    BY DEF Ended, FreedBy
  <2> HIDE DEF Seen
  <2>2. 0 \in 0 .. Len(q) /\ Ended(s, s, Seen(0)) /\ w[0] = s
    BY <1>2, <1>3, <2>1
  <2> QED BY <1>1, <2>2
<1>5. ASSUME NEW i \in 1 .. Len(q), w[i - 1] \in P[i - 1]
      PROVE  w[i] \in P[i]
  <2>1. i - 1 \in 0 .. Len(q) /\ i \in 0 .. Len(q) /\ q[i] \in Procs
    BY <1>3
  <2>2. w[i - 1] \in Snap /\ Fit(w[i - 1], {}, k) /\ Ended(s, w[i - 1], Seen(i - 1)) /\ w[i] = do_kill(w[i - 1], q[i])
    BY <1>2, <1>5, <2>1
  <2>3. Seen(i - 1) \in SUBSET Procs /\ Seen(i) = Seen(i - 1) \cup {q[i]}
    <3>1. \A j \in 1 .. i : j \in 1 .. (i - 1) \/ j = i
      BY <2>1
    <3>2. i \in 1 .. i /\ \A j \in 1 .. (i - 1) : j \in 1 .. i /\ j \in 1 .. Len(q)
      BY <1>3, <2>1
    <3> QED BY <1>3, <3>1, <3>2
  <2> DEFINE a == w[i - 1]
             new == w[i]
             K == Seen(i - 1)
  <2>4. new \in Snap
    BY <1>2, <2>1
  <2> HIDE DEF Seen, a, new, K
  <2>5. Fit(new, {}, k) /\ Killed(a, new, q[i])
    BY <2>1, <2>2, KillIs DEF a, new
  <2>6. Ended(s, new, K \cup {q[i]})
    <3>1. Fit(a, {}, k) /\ Ended(s, a, K) /\ K \in SUBSET Procs
      BY <2>2, <2>3 DEF a, K
    <3> QED BY <2>1, <2>5, <3>1, EndedMore
  <2>7. Ended(s, new, Seen(i))
    BY <2>3, <2>6 DEF K
  <2> QED BY <2>1, <2>4, <2>5, <2>7 DEF new
<1> HIDE DEF P
<1>6. w[Len(q)] \in P[Len(q)]
  BY <1>3, <1>4, <1>5, LoopKeeps
<1>7. Seen(Len(q)) = Children(p)
  BY <1>1, <1>3 DEF Range
<1> HIDE DEF Seen
<1> DEFINE a == FoldLeft(do_kill, s, q)
           new == do_kill_all(s, p)
<1>8. Fit(a, {}, k) /\ Ended(s, a, Children(p))
  BY <1>2, <1>3, <1>6, <1>7 DEF P
<1>9. new = do_kill(a, p)
  BY DEF do_kill_all, q
<1>10. Children(p) \in SUBSET Procs
  BY DEF Children
<1> HIDE DEF a, new
<1>11. Fit(new, {}, k) /\ new.status[p] = "EXITED" /\ Killed(a, new, p)
  BY <1>8, <1>9, KillIs
<1>12. Ended(s, new, Children(p) \cup {p})
  BY <1>8, <1>10, <1>11, EndedMore
<1> QED BY <1>11, <1>12 DEF new

(***************************************************************************)
(* Condition variables.                                                    *)
(***************************************************************************)
LEMMA WakeWaiterType ==
  ASSUME NEW s \in Snap, NEW t \in Tasks
  PROVE  WakeWaiter(s, t) \in Snap
<1> DEFINE mid == do_unblock(s, t)
           m == mutexIdx[t]
           new == [mid EXCEPT !.locked[m] = TRUE, !.owner[m] = t]
<1>1. mid \in Snap
  BY MoveType
<1>2. WakeWaiter(s, t) \in {do_block(mid, t, LockQ(m)), new}
  BY DEF WakeWaiter, do_mutex_lock_acquire_non_sched
<1> HIDE DEF mid
<1>3. do_block(mid, t, LockQ(m)) \in Snap
  BY <1>1, MoveType
<1>4. new \in Snap
  BY <1>1 DEF Snap
<1> QED BY <1>2, <1>3, <1>4

LEMMA WakeWaiterLoop ==
  ASSUME NEW s \in Snap, NEW q \in Seq(Tasks)
  PROVE  \E w \in [0 .. Len(q) -> Snap] :
           /\ w[0] = s /\ w[Len(q)] = FoldLeft(WakeWaiter, s, q)
           /\ \A i \in 1 .. Len(q) : w[i] = WakeWaiter(w[i - 1], q[i])
<1> DEFINE n == Len(q)
           G == [i \in 1 .. n |-> [a \in Snap |-> WakeWaiter(a, q[i])]]
           F(f) == [U \in SUBSET (1 .. n) |-> IF U = {} THEN s ELSE WakeWaiter(f[U \ {Max(U)}], q[Max(U)])]
           g == CHOOSE f : f = F(f)
<1>0. n \in Nat /\ DOMAIN q = 1 .. n /\ \A i \in 1 .. n : q[i] \in Tasks
  OBVIOUS
<1>1. FoldLeft(WakeWaiter, s, q) = g[1 .. n]
  BY <1>0 DEF FoldLeft, MapThenFoldSet
<1>2. \A i \in 1 .. n : \A a \in Snap : G[i][a] = WakeWaiter(a, q[i]) /\ WakeWaiter(a, q[i]) \in Snap
  BY <1>0, WakeWaiterType
<1>3. G \in [1 .. n -> [Snap -> Snap]]
  BY <1>2
<1> HIDE DEF G, n
<1>4. PICK f \in [SUBSET (1 .. n) -> Snap] : Folding(f, s, G, n)
  BY <1>0, <1>3, FoldExists
<1>5. f = F(f)
  <2>1. ASSUME NEW U \in SUBSET (1 .. n), U # {}
        PROVE  f[U] = WakeWaiter(f[U \ {Max(U)}], q[Max(U)])
    <3>1. Max(U) \in 1 .. n /\ f[U] = G[Max(U)][f[U \ {Max(U)}]]
      BY <1>4, <2>1 DEF Folding
    <3>2. f[U \ {Max(U)}] \in Snap
      OBVIOUS
    <3> QED BY <1>2, <3>1, <3>2
  <2>2. f[{}] = s
    BY <1>4 DEF Folding
  <2> QED BY <2>1, <2>2
<1>6. g = F(g)
  BY <1>5, Zenon
<1>7. Unfolds(g, s, G, Snap, n)
  <2>1. g[{}] = s
    BY <1>6
  <2>2. ASSUME NEW U \in SUBSET (1 .. n), U # {}, g[U \ {Max(U)}] \in Snap
        PROVE  g[U] = G[Max(U)][g[U \ {Max(U)}]]
    <3>1. Max(U) \in 1 .. n
      BY <1>4, <2>2 DEF Folding
    <3>2. g[U] = WakeWaiter(g[U \ {Max(U)}], q[Max(U)])
      BY <1>6, <2>2
    <3> HIDE DEF g
    <3> QED BY <1>2, <2>2, <3>1, <3>2
  <2> HIDE DEF g
  <2> QED BY <2>1, <2>2 DEF Unfolds
<1> HIDE DEF g
<1>8. PICK w : Turns(w, s, g[1 .. n], G, Snap, n)
  <2>1. s \in Snap /\ n \in Nat
    BY <1>0
  <2> QED BY ONLY <1>3, <1>7, <2>1, FoldSteps
<1>9. \A i \in 1 .. n : w[i] = WakeWaiter(w[i - 1], q[i])
  BY <1>0, <1>2, <1>8 DEF Turns
<1> QED BY <1>1, <1>8, <1>9 DEF n, Turns

LEMMA WakeWaiterFit ==
  ASSUME NEW s, NEW k, Fit(s, {}, k), k.mi = mutexIdx, NEW c \in Conds, NEW t \in In(s, CondQ(c))
  PROVE  /\ Fit(WakeWaiter(s, t), {}, k)
         /\ \A u \in In(s, CondQ(c)) \ {t} : u \in In(WakeWaiter(s, t), CondQ(c))
<1> DEFINE mid == do_unblock(s, t)
           m == mutexIdx[t]
           new == WakeWaiter(s, t)
<1>1. s \in Snap /\ Linked(s, {}) /\ Placed(s, k) /\ Served(s, k) /\ Owed(s, {}, k)
  BY DEF Fit
<1>2. CondQ(c) \in BlockQueues /\ CondQ(c) \in Queues
  BY HeadsAre
<1>3. t \in Tasks /\ s.status[t] = "BLOCKED"
  BY <1>1, <1>2, SnapIs DEF Linked
<1>4. t \in Procs /\ m \in Locks
  BY <1>1, <1>3 DEF Placed, Served, Tasks
<1>5. /\ \A g \in Harts : k.cur[g] = t => g \in k.ex /\ t \in Procs
      /\ k.base.status[t] # "EXITED"
  BY <1>1, <1>3, <1>4 DEF Placed
<1>6. (\A l \in Locks : t \notin In(s, LockQ(l))) /\ \A d \in Conds : t \in In(s, CondQ(d)) => d = c
  BY <1>1, <1>2, <1>3, HeadsAre, HeadsDiffer DEF Linked
<1>7. mid \in Snap /\ Moved(s, mid, t, Ready, "READY") /\ Goes(Ready, "READY")
  BY <1>1, <1>3, MoveType, FitMoves DEF Goes
<1>8. new = do_mutex_lock_acquire_non_sched(mid, t, m)
  BY DEF WakeWaiter
<1> HIDE DEF mid, m, new
<1>9. Linked(mid, {}) /\ Placed(mid, k) /\ Served(mid, k)
  BY <1>1, <1>3, <1>5, <1>7, HeadsDiffer, MovedLinked, MovedPlaced, MovedServed
<1>10. /\ mid.locked = s.locked /\ mid.owner = s.owner
       /\ \A u \in Tasks : mid.status[u] = IF u = t THEN "READY" ELSE s.status[u]
       /\ \A y \in BlockQueues : In(mid, y) = In(s, y) \ {t}
  BY <1>1, <1>3, <1>7, SnapIs, HeadsAre DEF Moved
<1>11. \A u \in Procs : u \in Tasks
  BY DEF Tasks
<1>12. CASE mid.locked[m]
  <2>1. new = do_block(mid, t, LockQ(m))
    BY <1>8, <1>12 DEF do_mutex_lock_acquire_non_sched
  <2>2. LockQ(m) \in BlockQueues /\ Goes(LockQ(m), "BLOCKED")
    BY <1>4, HeadsAre DEF Goes
  <2>3. new \in Snap /\ Moved(mid, new, t, LockQ(m), "BLOCKED")
    BY <1>3, <1>7, <1>9, <2>1, <2>2, MoveType, MoveIs DEF Linked
  <2>4. Linked(new, {})
    BY <1>3, <1>7, <1>9, <2>2, <2>3, MovedLinked
  <2>5. Placed(new, k)
    BY <1>3, <1>4, <1>5, <1>7, <1>9, <2>2, <2>3, MovedPlaced
  <2>6. Served(new, k)
    BY <1>3, <1>4, <1>7, <1>9, <1>12, <2>2, <2>3, HeadsDiffer, MovedServed
  <2>7. /\ new.locked = s.locked /\ new.owner = s.owner
        /\ \A u \in Tasks : new.status[u] = IF u = t THEN "BLOCKED" ELSE s.status[u]
        /\ \A y \in BlockQueues : In(new, y) = IF y = LockQ(m) THEN In(s, y) \cup {t} ELSE In(s, y) \ {t}
    <3>1. \A u \in Tasks : new.status[u] = IF u = t THEN "BLOCKED" ELSE s.status[u]
      BY <1>3, <1>7, <1>10, <2>3, SnapIs DEF Moved
    <3>2. \A y \in BlockQueues : In(new, y) = IF y = LockQ(m) THEN In(s, y) \cup {t} ELSE In(s, y) \ {t}
      BY <1>10, <2>3, HeadsAre DEF Moved
    <3>3. new.locked = s.locked /\ new.owner = s.owner
      BY <1>10, <2>3 DEF Moved
    <3> QED BY <3>1, <3>2, <3>3
  <2>8. Owed(new, {}, k)
    <3>1. \A u \in Tasks : \A y \in BlockQueues : u # t /\ u \in In(s, y) => u \in In(new, y)
      BY <2>7
    <3>2. t \in In(new, LockQ(m)) /\ k.mi[t] = m
      BY <2>2, <2>7 DEF m
    <3> SUFFICES ASSUME NEW u \in Procs, new.status[u] # "EXITED"
                 PROVE  /\ \A l \in Locks : u \in In(k.base, LockQ(l)) =>
                             u \in In(new, LockQ(l)) \/ (new.locked[l] /\ new.owner[l] = u)
                        /\ \A d \in Conds : u \in In(k.base, CondQ(d)) =>
                             /\ k.mi[u] \in Locks
                             /\ \/ u \in In(new, CondQ(d)) \/ u \in In(new, LockQ(k.mi[u]))
                                \/ new.locked[k.mi[u]] /\ new.owner[k.mi[u]] = u
      BY DEF Owed
    <3>3. CASE u = t
      BY <1>1, <1>3, <1>4, <1>6, <2>7, <3>2, <3>3 DEF Owed
    <3>4. CASE u # t
      <4>1. s.status[u] # "EXITED" /\ u \in Tasks
        BY <1>11, <2>7, <3>4
      <4> QED BY <1>1, <2>7, <3>1, <3>4, <4>1, HeadsAre DEF Owed
    <3> QED BY <3>3, <3>4
  <2>9. \A u \in In(s, CondQ(c)) \ {t} : u \in In(new, CondQ(c))
    BY <1>2, <2>7
  <2> QED BY <2>3, <2>4, <2>5, <2>6, <2>8, <2>9 DEF Fit, new
<1>13. CASE ~ mid.locked[m]
  <2>1. new = [mid EXCEPT !.locked[m] = TRUE, !.owner[m] = t]
    BY <1>8, <1>13 DEF do_mutex_lock_acquire_non_sched
  <2>2. mid.status[t] # "EXITED"
    BY <1>3, <1>10
  <2>20. Taken(mid, new, m, t)
    BY <1>4, <1>7, <2>1, TakeIs
  <2>3. /\ new \in Snap /\ new.status = mid.status /\ new.queue = mid.queue
        /\ new.locked[m] /\ new.owner[m] = t
        /\ \A l \in Locks \ {m} : new.locked[l] = mid.locked[l] /\ new.owner[l] = mid.owner[l]
    BY <2>20 DEF Taken
  <2>21. Linked(new, {}) /\ Placed(new, k)
    BY <1>9, <2>3, SameTasks
  <2>22. Served(new, k)
    BY <1>4, <1>9, <2>2, <2>20, TakenServed
  <2>4. \A y \in BlockQueues : In(new, y) = In(s, y) \ {t}
    BY <1>10, <2>3 DEF In
  <2>5. Owed(new, {}, k)
    <3> SUFFICES ASSUME NEW u \in Procs, new.status[u] # "EXITED"
                 PROVE  /\ \A l \in Locks : u \in In(k.base, LockQ(l)) =>
                             u \in In(new, LockQ(l)) \/ (new.locked[l] /\ new.owner[l] = u)
                        /\ \A d \in Conds : u \in In(k.base, CondQ(d)) =>
                             /\ k.mi[u] \in Locks
                             /\ \/ u \in In(new, CondQ(d)) \/ u \in In(new, LockQ(k.mi[u]))
                                \/ new.locked[k.mi[u]] /\ new.owner[k.mi[u]] = u
      BY DEF Owed
    <3>1. CASE u = t
      <4>1. k.mi[u] = m
        BY <3>1 DEF m
      <4>2. \A l \in Locks : u \in In(k.base, LockQ(l)) => s.locked[l] /\ s.owner[l] = u
        BY <1>1, <1>3, <1>4, <1>6, <3>1 DEF Owed
      <4>3. \A l \in Locks : u \in In(k.base, LockQ(l)) => new.locked[l] /\ new.owner[l] = u
        BY <1>10, <2>3, <3>1, <4>2
      <4> QED BY <1>4, <2>3, <3>1, <4>1, <4>3
    <3>2. CASE u # t
      <4>1. s.status[u] # "EXITED" /\ u \in Tasks
        BY <1>10, <1>11, <2>3, <3>2
      <4>2. \A l \in Locks : s.locked[l] => new.locked[l] /\ new.owner[l] = s.owner[l]
        BY <1>10, <1>13, <2>3
      <4> QED BY <1>1, <2>4, <3>2, <4>1, <4>2, HeadsAre DEF Owed
    <3> QED BY <3>1, <3>2
  <2>6. \A u \in In(s, CondQ(c)) \ {t} : u \in In(new, CondQ(c))
    BY <1>2, <2>4
  <2> QED BY <2>3, <2>5, <2>6, <2>21, <2>22 DEF Fit, new
<1> QED BY <1>12, <1>13

(***************************************************************************)
(* Condition variables: a is s after the waiters W were woken.             *)
(***************************************************************************)
Reacquired(s, a, W) ==
  /\ \A l \in Locks : Owners(a)[l] \in IF Owners(s)[l] = None THEN D!Heirs({t \in W : mutexIdx[t] = l})
                                                              ELSE {Owners(s)[l]}
  /\ \A t \in W : Where(a)[t] = IF Owners(s)[mutexIdx[t]] = None /\ Owners(a)[mutexIdx[t]] = t
                                THEN Ready ELSE LockQ(mutexIdx[t])
  /\ \A t \in Tasks \ W : Where(a)[t] = Where(s)[t]

LEMMA WakeWaiterIs ==
  ASSUME NEW s, NEW k, Fit(s, {}, k), k.mi = mutexIdx, NEW c \in Conds, NEW t \in In(s, CondQ(c))
  PROVE  t \in Procs /\ mutexIdx[t] \in Locks /\ Reacquired(s, WakeWaiter(s, t), {t})
<1> DEFINE mid == do_unblock(s, t)
           m == mutexIdx[t]
           new == WakeWaiter(s, t)
<1>1. s \in Snap /\ Linked(s, {}) /\ Placed(s, k) /\ Served(s, k) /\ None \notin Tasks
  BY TasksAssumption DEF Fit, Tasks, TasksAssumption
<1>2. CondQ(c) \in BlockQueues /\ CondQ(c) \in Queues
  BY HeadsAre
<1>3. t \in Tasks /\ s.status[t] = "BLOCKED"
  BY <1>1, <1>2, SnapIs DEF Linked
<1>4. t \in Procs /\ m \in Locks
  BY <1>1, <1>3 DEF Placed, Served, Tasks
<1>5. mid \in Snap /\ Moved(s, mid, t, Ready, "READY") /\ Goes(Ready, "READY")
  BY <1>1, <1>3, MoveType, FitMoves DEF Goes
<1>6. new = do_mutex_lock_acquire_non_sched(mid, t, m)
  BY DEF WakeWaiter
<1> HIDE DEF mid, m, new
<1>7. Linked(mid, {})
  BY <1>1, <1>3, <1>5, MovedLinked
<1>8. /\ Owners(mid) = Owners(s)
      /\ \A u \in Tasks : Where(mid)[u] = IF u = t THEN Ready ELSE Where(s)[u]
  BY <1>1, <1>3, <1>5, MovedPlaces
<1>9. Owners(s)[m] = None <=> ~ mid.locked[m]
  BY <1>1, <1>4, <1>5, SnapIs DEF Owners, Moved
<1>10. CASE mid.locked[m]
  <2>1. new = do_block(mid, t, LockQ(m)) /\ Goes(LockQ(m), "BLOCKED") /\ LockQ(m) \in BlockQueues
    BY <1>4, <1>6, <1>10, HeadsAre DEF do_mutex_lock_acquire_non_sched, Goes
  <2>2. Moved(mid, new, t, LockQ(m), "BLOCKED")
    BY <1>3, <1>5, <1>7, <2>1, MoveIs DEF Linked
  <2>3. /\ Owners(new) = Owners(s)
        /\ \A u \in Tasks : Where(new)[u] = IF u = t THEN LockQ(m) ELSE Where(s)[u]
    BY <1>3, <1>5, <1>7, <1>8, <2>1, <2>2, MovedPlaces
  <2>4. Owners(s)[m] # None
    BY <1>9, <1>10
  <2>5. \A l \in Locks : Owners(new)[l] \in IF Owners(s)[l] = None THEN D!Heirs({u \in {t} : mutexIdx[u] = l})
                                                                   ELSE {Owners(s)[l]}
    BY <2>3, <2>4 DEF D!Heirs, m
  <2> QED BY <1>3, <1>4, <2>3, <2>4, <2>5 DEF Reacquired, m, new
<1>11. CASE ~ mid.locked[m]
  <2>1. new = [mid EXCEPT !.locked[m] = TRUE, !.owner[m] = t]
    BY <1>6, <1>11 DEF do_mutex_lock_acquire_non_sched
  <2>2. Taken(mid, new, m, t)
    BY <1>4, <1>5, <2>1, TakeIs
  <2>3. Where(new) = Where(mid) /\ Owners(new)[m] = t /\ \A l \in Locks \ {m} : Owners(new)[l] = Owners(s)[l]
    BY <1>4, <1>8, <2>2 DEF Taken, Where, Owners, In
  <2>4. \A l \in Locks : Owners(new)[l] \in IF Owners(s)[l] = None THEN D!Heirs({u \in {t} : mutexIdx[u] = l})
                                                                   ELSE {Owners(s)[l]}
    BY <1>9, <1>11, <2>3 DEF D!Heirs, m
  <2> QED BY <1>3, <1>4, <1>8, <1>9, <1>11, <2>3, <2>4 DEF Reacquired, m, new
<1> QED BY <1>10, <1>11

LEMMA ReacquiredMore ==
  ASSUME NEW s, NEW a, NEW W \in SUBSET Procs, Reacquired(s, a, W), NEW t \in Procs \ W, mutexIdx[t] \in Locks,
         NEW new, Reacquired(a, new, {t}), \A u \in W : mutexIdx[u] \in Locks
  PROVE  Reacquired(s, new, W \cup {t})
<1> DEFINE m == mutexIdx[t]
<1>1. None \notin Procs /\ Procs \subseteq Tasks
  BY TasksAssumption DEF Tasks, TasksAssumption
<1>2. \A l \in Locks \ {m} : Owners(new)[l] = Owners(a)[l]
  BY DEF Reacquired, D!Heirs
<1>3. /\ Owners(a)[m] = None => Owners(new)[m] = t
      /\ Owners(a)[m] # None => Owners(new)[m] = Owners(a)[m]
  <2>1. {u \in {t} : mutexIdx[u] = m} = {t}
    OBVIOUS
  <2> QED BY <2>1 DEF Reacquired, D!Heirs
<1>4. \A l \in Locks : {u \in W : mutexIdx[u] = l} \subseteq {u \in W \cup {t} : mutexIdx[u] = l}
  OBVIOUS
<1>5. Owners(s)[m] = None /\ Owners(a)[m] = None => {u \in W : mutexIdx[u] = m} = {}
  BY <1>1 DEF Reacquired, D!Heirs
<1>6. ASSUME NEW l \in Locks
      PROVE  Owners(new)[l] \in IF Owners(s)[l] = None THEN D!Heirs({u \in W \cup {t} : mutexIdx[u] = l})
                                                       ELSE {Owners(s)[l]}
  <2>1. CASE l # m
    <3>1. {u \in W : mutexIdx[u] = l} = {u \in W \cup {t} : mutexIdx[u] = l}
      BY <2>1
    <3> QED BY <1>2, <2>1, <3>1 DEF Reacquired
  <2>2. CASE l = m /\ Owners(a)[m] = None
    <3>1. t \in {u \in W \cup {t} : mutexIdx[u] = m} /\ Owners(s)[m] = None
      BY <2>2 DEF Reacquired
    <3> QED BY <1>3, <2>2, <3>1 DEF D!Heirs
  <2>3. CASE l = m /\ Owners(a)[m] # None
    <3>1. Owners(s)[m] = None => Owners(a)[m] \in {u \in W : mutexIdx[u] = m}
      BY <2>3 DEF Reacquired, D!Heirs
    <3>2. Owners(s)[m] # None => Owners(a)[m] = Owners(s)[m]
      BY <2>3 DEF Reacquired
    <3> QED BY <1>3, <1>4, <2>3, <3>1, <3>2 DEF D!Heirs
  <2> QED BY <2>1, <2>2, <2>3
<1>7. ASSUME NEW u \in W \cup {t}
      PROVE  Where(new)[u] = IF Owners(s)[mutexIdx[u]] = None /\ Owners(new)[mutexIdx[u]] = u
                             THEN Ready ELSE LockQ(mutexIdx[u])
  <2>1. CASE u = t
    <3>1. Where(new)[t] = IF Owners(a)[m] = None /\ Owners(new)[m] = t THEN Ready ELSE LockQ(m)
      BY DEF Reacquired
    <3>2. Owners(a)[m] = None => Owners(s)[m] = None
      BY DEF Reacquired
    <3>3. Owners(s)[m] = None /\ Owners(a)[m] # None => Owners(a)[m] \in W
      BY DEF Reacquired, D!Heirs
    <3> QED BY <1>3, <2>1, <3>1, <3>2, <3>3
  <2>2. CASE u # t
    <3>1. Where(new)[u] = Where(a)[u] /\ u \in W
      BY <1>1, <2>2 DEF Reacquired
    <3>2. Where(a)[u] = IF Owners(s)[mutexIdx[u]] = None /\ Owners(a)[mutexIdx[u]] = u
                        THEN Ready ELSE LockQ(mutexIdx[u])
      BY <3>1 DEF Reacquired
    <3>3. Owners(s)[mutexIdx[u]] = None => (Owners(new)[mutexIdx[u]] = u <=> Owners(a)[mutexIdx[u]] = u)
      <4>1. CASE mutexIdx[u] # m
        BY <1>2, <3>1, <4>1
      <4>2. CASE mutexIdx[u] = m
        BY <1>1, <1>3, <1>5, <2>2, <3>1, <4>2
      <4> QED BY <4>1, <4>2
    <3> QED BY <3>1, <3>2, <3>3
  <2> QED BY <2>1, <2>2
<1>8. \A u \in Tasks \ (W \cup {t}) : Where(new)[u] = Where(s)[u]
  BY DEF Reacquired
<1> QED BY <1>6, <1>7, <1>8 DEF Reacquired

LEMMA BroadcastIs ==
  ASSUME NEW s, NEW k, Fit(s, {}, k), k.mi = mutexIdx, NEW c \in Conds
  PROVE  /\ Fit(FoldLeft(WakeWaiter, s, s.queue[CondQ(c)]), {}, k)
         /\ Reacquired(s, FoldLeft(WakeWaiter, s, s.queue[CondQ(c)]), In(s, CondQ(c)))
<1> DEFINE q == s.queue[CondQ(c)]
           Seen(i) == {q[j] : j \in 1 .. i}
           Left(i) == {q[j] : j \in (i + 1) .. Len(q)}
           P == [i \in 0 .. Len(q) |->
                  {a \in Snap : Fit(a, {}, k) /\ Left(i) \subseteq In(a, CondQ(c)) /\ Reacquired(s, a, Seen(i))}]
<1>1. s \in Snap /\ q \in Seq(Tasks) /\ IsInjective(q)
  BY SnapIs, HeadsAre DEF Fit, Linked
<1>2. PICK w \in [0 .. Len(q) -> Snap] :
        /\ w[0] = s /\ w[Len(q)] = FoldLeft(WakeWaiter, s, q)
        /\ \A i \in 1 .. Len(q) : w[i] = WakeWaiter(w[i - 1], q[i])
  BY <1>1, WakeWaiterLoop
<1>3. DOMAIN q = 1 .. Len(q) /\ Len(q) \in Nat
  BY <1>1
<1>4. \A u \in In(s, CondQ(c)) : u \in Procs /\ mutexIdx[u] \in Locks
  BY WakeWaiterIs
<1>5. \A i \in 1 .. Len(q) : q[i] \in In(s, CondQ(c))
  BY <1>3 DEF In, Range
<1>6. In(s, CondQ(c)) = Left(0) /\ Seen(Len(q)) = In(s, CondQ(c)) /\ Seen(0) = {}
  BY <1>3 DEF In, Range
<1>7. Reacquired(s, s, {})
  BY DEF Reacquired, D!Heirs
<1> HIDE DEF q
<1>8. w[0] \in P[0]
  <2> HIDE DEF Seen, Left
  <2>1. 0 \in 0 .. Len(q) /\ Reacquired(s, s, Seen(0)) /\ w[0] = s /\ Left(0) \subseteq In(s, CondQ(c))
    BY <1>2, <1>3, <1>6, <1>7
  <2> QED BY <1>1, <2>1
<1>9. ASSUME NEW i \in 1 .. Len(q), w[i - 1] \in P[i - 1]
      PROVE  w[i] \in P[i]
  <2> DEFINE a == w[i - 1]
             new == w[i]
             t == q[i]
             W == Seen(i - 1)
  <2>1. i - 1 \in 0 .. Len(q) /\ i \in 0 .. Len(q) /\ (i - 1) + 1 = i
    BY <1>3
  <2>2. a \in Snap /\ Fit(a, {}, k) /\ Left(i - 1) \subseteq In(a, CondQ(c)) /\ Reacquired(s, a, W)
    BY <1>9, <2>1
  <2>3. t \in In(a, CondQ(c))
    <3>1. i \in ((i - 1) + 1) .. Len(q)
      BY <1>3, <2>1
    <3> QED BY <1>3, <2>2, <3>1
  <2>4. new = WakeWaiter(a, t) /\ new \in Snap
    BY <1>2, <2>1
  <2>5. Left(i) \subseteq Left(i - 1) \ {t}
    <3>1. \A j \in (i + 1) .. Len(q) : j \in ((i - 1) + 1) .. Len(q) /\ q[j] # q[i]
      BY <1>1, <1>3, <2>1 DEF IsInjective
    <3> QED BY <3>1
  <2>6. Seen(i) = W \cup {t} /\ W \subseteq In(s, CondQ(c)) /\ t \notin W
    <3>1. \A j \in 1 .. i : j \in 1 .. (i - 1) \/ j = i
      BY <2>1
    <3>2. i \in 1 .. i /\ \A j \in 1 .. (i - 1) : j \in 1 .. i /\ j \in 1 .. Len(q) /\ j # i
      BY <1>3, <2>1
    <3>3. \A j \in 1 .. (i - 1) : q[j] # q[i]
      BY <1>1, <1>3, <3>2 DEF IsInjective
    <3> QED BY <1>5, <3>1, <3>2, <3>3
  <2> HIDE DEF a, new, t, W, Left, Seen
  <2>7. Fit(new, {}, k) /\ \A u \in In(a, CondQ(c)) \ {t} : u \in In(new, CondQ(c))
    BY <2>2, <2>3, <2>4, WakeWaiterFit
  <2>8. Left(i) \subseteq In(new, CondQ(c))
    BY <2>2, <2>5, <2>7
  <2>9. t \in Procs /\ mutexIdx[t] \in Locks /\ Reacquired(a, new, {t})
    BY <2>2, <2>3, <2>4, WakeWaiterIs
  <2>10. W \in SUBSET Procs /\ \A u \in W : mutexIdx[u] \in Locks
    BY <1>4, <2>6
  <2>11. Reacquired(s, new, W \cup {t})
    BY <2>2, <2>6, <2>9, <2>10, ReacquiredMore
  <2> QED BY <2>1, <2>4, <2>6, <2>7, <2>8, <2>11 DEF new
<1> HIDE DEF P
<1>10. w[Len(q)] \in P[Len(q)]
  BY <1>3, <1>8, <1>9, LoopKeeps
<1> HIDE DEF Seen, Left
<1>11. /\ Fit(FoldLeft(WakeWaiter, s, q), {}, k)
       /\ Reacquired(s, FoldLeft(WakeWaiter, s, q), In(s, CondQ(c)))
  BY <1>2, <1>3, <1>6, <1>10 DEF P
<1> QED BY <1>11 DEF q

(***************************************************************************)
(* A handler starts from Here, and ends with its changes committed, either *)
(* at once or by do_scheduler.  ex is the CPU that is going to reschedule. *)
(***************************************************************************)
Start(ex) == [cur |-> current, ex |-> ex, mi |-> mutexIdx', base |-> Here]

After == [cur |-> current', ex |-> {}, mi |-> mutexIdx', base |-> Here]

LEMMA StartFit ==
  ASSUME IInv, NEW ex, \A t \in Procs : mutexIdx'[t] = mutexIdx[t] \/ mutexIdx'[t] \in Locks
  PROVE  Fit(Here, {}, Start(ex))
<1>1. /\ Here \in Snap /\ Linked(Here, {}) /\ Placed(Here, Now({})) /\ Served(Here, Now({}))
      /\ Owed(Here, {}, Now({}))
  BY DEF IInv, Fit
<1>2. Placed(Here, Start(ex))
  BY <1>1 DEF Placed, Start, Now
<1>3. ASSUME NEW c \in Conds, NEW t \in In(Here, CondQ(c))
      PROVE  t \in Procs /\ mutexIdx'[t] \in Locks
  <2>1. t \in Tasks /\ Here.status[t] = "BLOCKED"
    BY <1>1, SnapIs, HeadsAre DEF Linked
  <2>2. t \in Procs
    BY <1>1, <2>1 DEF Placed, Tasks
  <2>3. mutexIdx[t] \in Locks
    BY <1>1 DEF Served, Now
  <2> QED BY <2>2, <2>3
<1>4. Served(Here, Start(ex))
  BY <1>1, <1>3 DEF Served, Start
<1>5. Owed(Here, {}, Start(ex))
  BY <1>3 DEF Owed, Start
<1> QED BY <1>1, <1>2, <1>4, <1>5 DEF Fit

LEMMA CommitFit ==
  ASSUME NEW s, Fit(s, {}, Start({})), Commit(s), UNCHANGED current
  PROVE  Fit(Here', {}, After)
<1>1. Here' = s
  BY CommitIs DEF Fit
<1>2. After = Start({})
  BY DEF After, Start
<1> QED BY <1>1, <1>2

LEMMA RescheduleFit ==
  ASSUME NEW h \in Harts, NEW s, Fit(s, {}, Start({h})), s.status[current[h]] # "READY",
         Reschedule(h, s)
  PROVE  Fit(Here', {}, After)
<1> DEFINE k == Start({h})
<1>1. k.cur = current /\ k.ex = {h} /\ k.mi = mutexIdx' /\ k.base = Here
  BY DEF Start
<1>2. PICK due : do_scheduler(h, s, due)
  BY DEF Reschedule
<1> HIDE DEF k
<1>3. Fit(Here', {}, Done(k, current'))
  BY <1>1, <1>2, SchedulerIs DEF k
<1>4. Done(k, current') = After
  BY <1>1 DEF Done, After
<1> QED BY <1>3, <1>4

\* a process that makes a system call runs, on that CPU only, and is on no list
Runs(h, t) ==
  /\ t \in Procs /\ t \in Tasks /\ current[h] = t /\ status[t] = "RUNNING" /\ Here.status[t] = "RUNNING"
  /\ \A x \in Queues : t \notin In(Here, x)
  /\ \A g \in Harts : current[g] = t => g = h

LEMMA CallerRuns ==
  ASSUME IInv, ~ ZombieActs, NEW h \in Harts, NEW t, Caller(h, t)
  PROVE  Runs(h, t)
<1>1. t \in Procs /\ t \in Tasks /\ t = current[h] /\ status[t] # "EXITED"
  BY DEF Caller, Tasks
<1>2. Linked(Here, {}) /\ Placed(Here, Now({})) /\ Here.status = status
  BY DEF IInv, Fit, Here
<1>3. status[t] = "RUNNING" /\ \A g \in Harts : current[g] = t => g = h
  BY <1>1, <1>2 DEF Placed, Now
<1>4. \A x \in Queues : t \notin In(Here, x)
  BY <1>1, <1>2, <1>3, HeadsAre DEF Linked
<1> QED BY <1>1, <1>2, <1>3, <1>4 DEF Runs

\* the caller blocks on x, before it reschedules
LEMMA BlockFit ==
  ASSUME NEW h \in Harts, NEW t, Runs(h, t), NEW s, Fit(s, {}, Start({h})), s.status[t] = "RUNNING",
         NEW x \in BlockQueues,
         \A l \in Locks : x = LockQ(l) => s.locked[l],
         \A p \in Procs : x = WaitQ(p) => s.status[p] # "EXITED",
         \A c \in Conds : x = CondQ(c) => mutexIdx'[t] \in Locks
  PROVE  Fit(do_block(s, t, x), {}, Start({h})) /\ do_block(s, t, x).status[t] = "BLOCKED"
<1> DEFINE k == Start({h})
           new == do_block(s, t, x)
<1>1. k.cur = current /\ k.ex = {h} /\ k.mi = mutexIdx' /\ k.base = Here
  BY DEF Start
<1>2. /\ t \in Procs /\ t \in Tasks /\ current[h] = t /\ Here.status[t] = "RUNNING"
      /\ \A g \in Harts : current[g] = t => g = h
  BY DEF Runs
<1> HIDE DEF k
<1>3. /\ Fit(s, {}, k) /\ s \in Snap /\ Linked(s, {}) /\ Placed(s, k) /\ Served(s, k) /\ Owed(s, {}, k)
  BY DEF Fit, k
<1>4. new \in Snap /\ Moved(s, new, t, x, "BLOCKED") /\ Goes(x, "BLOCKED")
  BY <1>2, <1>3, MoveType, FitMoves DEF Goes
<1> HIDE DEF new
<1>5. \A y \in Queues : t \notin In(s, y)
  BY <1>2, <1>3, HeadsAre DEF Linked
<1>6. Linked(new, {})
  BY <1>2, <1>3, <1>4, MovedLinked
<1>7. Placed(new, k)
  BY <1>1, <1>2, <1>3, <1>4, MovedPlaced
<1>8. Served(new, k)
  BY <1>1, <1>2, <1>3, <1>4, MovedServed
<1>9. Owed(new, {}, k)
  BY <1>2, <1>3, <1>4, <1>5, HeadsAre, MovedOwed
<1>10. new.status[t] = "BLOCKED"
  BY <1>2, <1>3, <1>4, SnapIs DEF Moved
<1> QED BY <1>4, <1>6, <1>7, <1>8, <1>9, <1>10 DEF Fit, k, new

\* the caller releases a mutex, if it owns it
LEMMA ReleaseFit ==
  ASSUME NEW h \in Harts, NEW t, Runs(h, t), NEW ex, Fit(Here, {}, Start(ex)), NEW l \in Locks
  PROVE  /\ Fit(do_mutex_lock_release(Here, t, l), {}, Start(ex))
         /\ do_mutex_lock_release(Here, t, l).status[t] = "RUNNING"
<1> DEFINE k == Start(ex)
           new == HandOff(Here, l)
<1>1. CASE owner[l] = t
  <2>1. k.base = Here /\ Here.owner[l] = t /\ do_mutex_lock_release(Here, t, l) = new
    BY <1>1 DEF Start, Here, do_mutex_lock_release
  <2> HIDE DEF k, new
  <2>2. Unowed(Here, {}, k, Here.owner[l])
    BY <2>1 DEF Runs, Unowed
  <2>3. Fit(new, {}, k) /\ Handed(Here, new, l)
    BY <2>2, HandOffFit DEF k, new
  <2>4. t \notin In(Here, LockQ(l)) /\ t \in Tasks /\ Here.status[t] = "RUNNING"
    BY HeadsAre DEF Runs
  <2> QED BY <2>1, <2>3, <2>4 DEF Handed, k
<1>2. CASE owner[l] # t
  <2>1. do_mutex_lock_release(Here, t, l) = Here
    BY <1>2 DEF do_mutex_lock_release, Here
  <2> QED BY <2>1 DEF Runs
<1> QED BY <1>1, <1>2

(***************************************************************************)
(* One lemma per handler.                                                  *)
(***************************************************************************)
LEMMA TimerFit ==
  ASSUME IInv, NEW h \in Harts, Timer(h)
  PROVE  Fit(Here', {}, After)
<1>1. Fit(Here, {}, Start({h})) /\ Reschedule(h, Here)
  BY StartFit DEF Timer
<1>2. Here.status[current[h]] # "READY"
  BY DEF IInv, Fit, Placed, Now
<1> QED BY <1>1, <1>2, RescheduleFit

LEMMA LaunchFit ==
  ASSUME IInv, ~ ReuseOnCPU, NEW j \in Procs, NEW par, Launch(j, par)
  PROVE  Fit(Here', {}, After)
<1> DEFINE new == MakeReady(Here, j)
           k == Start({})
<1>1. /\ status[j] = "EXITED" /\ (\A h \in Harts : current[h] # j)
      /\ Commit(new) /\ UNCHANGED current /\ UNCHANGED mutexIdx
  BY DEF Launch, FreeSlot, OnSomeCPU
<1>2. Fit(Here, {}, k)
  BY <1>1, StartFit
<1>3. k.cur = current /\ k.base = Here /\ Here.status[j] = "EXITED" /\ j \in Tasks
  BY <1>1 DEF Start, Here, Tasks
<1> HIDE DEF k
<1>4. Here \in Snap /\ Linked(Here, {}) /\ Placed(Here, k) /\ Served(Here, k) /\ Owed(Here, {}, k)
  BY <1>2 DEF Fit
<1>5. new \in Snap /\ Moved(Here, new, j, Ready, "READY") /\ Goes(Ready, "READY")
  BY <1>2, <1>3, <1>4, MoveType, FitMoves DEF Goes
<1> HIDE DEF new
<1>6. \A y \in Queues : j \notin In(Here, y)
  BY <1>3, <1>4, HeadsAre DEF Linked
<1>7. Linked(new, {})
  BY <1>3, <1>4, <1>5, MovedLinked
<1>8. Placed(new, k)
  BY <1>1, <1>3, <1>4, <1>5, MovedPlaced
<1>9. Served(new, k)
  BY <1>3, <1>4, <1>5, HeadsDiffer, MovedServed
<1>10. Owed(new, {}, k)
  BY <1>3, <1>4, <1>5, <1>6, HeadsAre, MovedOwed
<1>11. Fit(new, {}, Start({}))
  BY <1>5, <1>7, <1>8, <1>9, <1>10 DEF Fit, k
<1> QED BY <1>1, <1>11, CommitFit DEF new

LEMMA ExitFit ==
  ASSUME IInv, NEW h \in Harts, do_exit(h)
  PROVE  Fit(Here', {}, After)
<1>1. PICK t \in Procs : t = current[h] /\ Reschedule(h, do_kill_all(Here, t)) /\ UNCHANGED mutexIdx
  BY DEF do_exit, Caller
<1>2. Fit(do_kill_all(Here, t), {}, Start({h})) /\ do_kill_all(Here, t).status[t] = "EXITED"
  BY <1>1, StartFit, KillAllIs
<1> QED BY <1>1, <1>2, RescheduleFit

LEMMA SysKillFit ==
  ASSUME IInv, NEW h \in Harts, NEW p \in Procs, sys_kill(h, p)
  PROVE  Fit(Here', {}, After)
<1>1. Commit(do_kill_all(Here, p)) /\ UNCHANGED current /\ UNCHANGED mutexIdx
  BY DEF sys_kill
<1>2. Fit(do_kill_all(Here, p), {}, Start({}))
  BY <1>1, StartFit, KillAllIs
<1> QED BY <1>1, <1>2, CommitFit

LEMMA WaitpidFit ==
  ASSUME IInv, ~ ZombieActs, NEW h \in Harts, NEW p \in Procs, do_waitpid(h, p)
  PROVE  Fit(Here', {}, After)
<1>1. PICK t \in Procs : /\ Caller(h, t) /\ status[p] # "EXITED" /\ UNCHANGED mutexIdx
                         /\ Reschedule(h, do_block(Here, t, WaitQ(p)))
  BY DEF do_waitpid
<1>2. Runs(h, t) /\ Fit(Here, {}, Start({h})) /\ Here.status = status
  BY <1>1, CallerRuns, StartFit DEF Here
<1> DEFINE s == do_block(Here, t, WaitQ(p))
<1>3. WaitQ(p) \in BlockQueues /\ status[t] = "RUNNING" /\ current[h] = t
  BY <1>2, HeadsAre DEF Runs
<1>4. Fit(s, {}, Start({h})) /\ s.status[t] = "BLOCKED"
  BY <1>1, <1>2, <1>3, HeadsDiffer, BlockFit
<1> HIDE DEF s
<1> QED BY <1>1, <1>3, <1>4, RescheduleFit DEF s

LEMMA SleepFit ==
  ASSUME IInv, ~ ZombieActs, NEW h \in Harts, do_sleep(h)
  PROVE  Fit(Here', {}, After)
<1>1. PICK t \in Procs : /\ Caller(h, t) /\ UNCHANGED mutexIdx
                         /\ Reschedule(h, do_block(Here, t, Sleeping))
  BY DEF do_sleep
<1>2. Runs(h, t) /\ Fit(Here, {}, Start({h})) /\ Here.status = status
  BY <1>1, CallerRuns, StartFit DEF Here
<1> DEFINE s == do_block(Here, t, Sleeping)
<1>3. Sleeping \in BlockQueues /\ status[t] = "RUNNING" /\ current[h] = t
  BY <1>2, HeadsAre DEF Runs
<1>4. Fit(s, {}, Start({h})) /\ s.status[t] = "BLOCKED"
  BY <1>2, <1>3, HeadsDiffer, BlockFit
<1> HIDE DEF s
<1> QED BY <1>1, <1>3, <1>4, RescheduleFit DEF s

LEMMA AcquireFit ==
  ASSUME IInv, ~ ZombieActs, NEW h \in Harts, NEW l \in Locks, do_mutex_lock_acquire(h, l)
  PROVE  Fit(Here', {}, After)
<1>1. PICK t \in Procs :
        /\ Caller(h, t) /\ UNCHANGED mutexIdx
        /\ IF locked[l] THEN Reschedule(h, do_mutex_lock_acquire_non_sched(Here, t, l))
                        ELSE Commit(do_mutex_lock_acquire_non_sched(Here, t, l)) /\ UNCHANGED current
  BY DEF do_mutex_lock_acquire
<1>2. Runs(h, t) /\ \A ex : Fit(Here, {}, Start(ex))
  BY <1>1, CallerRuns, StartFit
<1>3. /\ LockQ(l) \in BlockQueues /\ status[t] = "RUNNING" /\ current[h] = t
      /\ Here.status[t] = "RUNNING" /\ Here.locked = locked
  BY <1>2, HeadsAre DEF Runs, Here
<1>4. CASE locked[l]
  <2> DEFINE s == do_block(Here, t, LockQ(l))
  <2>0. /\ \A m \in Locks : LockQ(l) = LockQ(m) => Here.locked[m]
        /\ (\A p \in Procs : LockQ(l) # WaitQ(p)) /\ \A c \in Conds : LockQ(l) # CondQ(c)
    BY <1>3, <1>4, HeadsDiffer
  <2>1. Fit(s, {}, Start({h})) /\ s.status[t] = "BLOCKED"
    BY <1>2, <1>3, <2>0, BlockFit
  <2>2. s = do_mutex_lock_acquire_non_sched(Here, t, l)
    BY <1>3, <1>4 DEF do_mutex_lock_acquire_non_sched
  <2> HIDE DEF s
  <2> QED BY <1>1, <1>3, <1>4, <2>1, <2>2, RescheduleFit
<1>5. CASE ~ locked[l]
  <2> DEFINE s == [Here EXCEPT !.locked[l] = TRUE, !.owner[l] = t]
             k == Start({})
  <2>1. /\ Fit(Here, {}, k) /\ Here \in Snap /\ Linked(Here, {}) /\ Placed(Here, k)
        /\ Served(Here, k) /\ Owed(Here, {}, k)
    BY <1>2 DEF Fit
  <2>2. Taken(Here, s, l, t)
    BY <2>1, TakeIs
  <2>3. s = do_mutex_lock_acquire_non_sched(Here, t, l)
    BY <1>3, <1>5 DEF do_mutex_lock_acquire_non_sched
  <2> HIDE DEF s, k
  <2>4. Linked(s, {}) /\ Placed(s, k)
    BY <2>1, <2>2, SameTasks DEF Taken
  <2>5. Served(s, k)
    BY <1>3, <2>1, <2>2, TakenServed
  <2>6. Owed(s, {}, k)
    BY <1>3, <1>5, <2>1, <2>2, TakenOwed
  <2>7. Fit(s, {}, Start({}))
    BY <2>2, <2>4, <2>5, <2>6 DEF Fit, Taken, k
  <2> QED BY <1>1, <1>5, <2>3, <2>7, CommitFit
<1> QED BY <1>4, <1>5

LEMMA LockReleaseFit ==
  ASSUME IInv, ~ ZombieActs, NEW h \in Harts, NEW l \in Locks, LockRelease(h, l)
  PROVE  Fit(Here', {}, After)
<1>1. PICK t \in Procs : /\ Caller(h, t) /\ Commit(do_mutex_lock_release(Here, t, l))
                         /\ UNCHANGED current /\ UNCHANGED mutexIdx
  BY DEF LockRelease
<1>2. Runs(h, t) /\ Fit(Here, {}, Start({}))
  BY <1>1, CallerRuns, StartFit
<1>3. Fit(do_mutex_lock_release(Here, t, l), {}, Start({}))
  BY <1>2, ReleaseFit
<1> QED BY <1>1, <1>3, CommitFit

LEMMA ConditionWaitFit ==
  ASSUME IInv, ~ ZombieActs, NEW h \in Harts, NEW c \in Conds, NEW l \in Locks, do_condition_wait(h, c, l)
  PROVE  Fit(Here', {}, After)
<1>1. PICK t \in Procs :
        /\ Caller(h, t) /\ mutexIdx' = [mutexIdx EXCEPT ![t] = l]
        /\ Reschedule(h, do_block(do_mutex_lock_release(Here, t, l), t, CondQ(c)))
  BY DEF do_condition_wait
<1>2. mutexIdx'[t] = l /\ \A u \in Procs : mutexIdx'[u] = mutexIdx[u] \/ mutexIdx'[u] \in Locks
  BY <1>1 DEF IInv
<1>3. Runs(h, t) /\ Fit(Here, {}, Start({h}))
  BY <1>1, <1>2, CallerRuns, StartFit
<1> DEFINE r == do_mutex_lock_release(Here, t, l)
           s == do_block(r, t, CondQ(c))
<1>4. Fit(r, {}, Start({h})) /\ r.status[t] = "RUNNING"
  BY <1>3, ReleaseFit
<1> HIDE DEF r
<1>5. CondQ(c) \in BlockQueues /\ current[h] = t
  BY <1>3, HeadsAre DEF Runs
<1>6. Fit(s, {}, Start({h})) /\ s.status[t] = "BLOCKED"
  BY <1>2, <1>3, <1>4, <1>5, HeadsDiffer, BlockFit
<1> HIDE DEF s
<1> QED BY <1>1, <1>5, <1>6, RescheduleFit DEF s, r

LEMMA SignalFit ==
  ASSUME IInv, NEW h \in Harts, NEW c \in Conds, do_condition_signal(h, c)
  PROVE  Fit(Here', {}, After)
<1> DEFINE q == queue[CondQ(c)]
<1>1. q # <<>> /\ Commit(WakeWaiter(Here, Head(q))) /\ UNCHANGED current /\ UNCHANGED mutexIdx
  BY DEF do_condition_signal
<1>2. Fit(Here, {}, Start({})) /\ Start({}).mi = mutexIdx /\ Here.queue[CondQ(c)] = q
  BY <1>1, StartFit DEF Start, Here
<1>3. q \in Seq(Tasks) /\ IsInjective(q)
  BY <1>2, SnapIs, HeadsAre DEF Fit, Linked
<1>4. Head(q) \in In(Here, CondQ(c))
  BY <1>1, <1>2, <1>3, TailIs DEF In
<1> HIDE DEF q
<1>5. Fit(WakeWaiter(Here, Head(q)), {}, Start({}))
  BY <1>2, <1>4, WakeWaiterFit
<1> QED BY <1>1, <1>5, CommitFit

LEMMA ConditionBroadcastFit ==
  ASSUME IInv, NEW h \in Harts, NEW c \in Conds, do_condition_broadcast(h, c)
  PROVE  Fit(Here', {}, After)
<1> DEFINE s == FoldLeft(WakeWaiter, Here, Here.queue[CondQ(c)])
<1>1. Commit(s) /\ UNCHANGED current /\ UNCHANGED mutexIdx
  BY DEF do_condition_broadcast, Here
<1>2. Fit(Here, {}, Start({})) /\ Start({}).mi = mutexIdx
  BY <1>1, StartFit DEF Start
<1>3. Fit(s, {}, Start({}))
  BY <1>2, BroadcastIs
<1> HIDE DEF s
<1> QED BY <1>1, <1>3, CommitFit

LEMMA BarrierWaitFit ==
  ASSUME IInv, ~ ZombieActs, NEW h \in Harts, NEW b \in Bars, do_barrier_wait(h, b)
  PROVE  Fit(Here', {}, After)
<1>1. PICK t \in Procs :
        /\ Caller(h, t) /\ UNCHANGED mutexIdx
        /\ IF Full(b) THEN Commit(UnblockAll(Here, BarQ(b))) /\ UNCHANGED current
                      ELSE Reschedule(h, do_block(Here, t, BarQ(b)))
  BY DEF do_barrier_wait
<1>2. Runs(h, t) /\ \A ex : Fit(Here, {}, Start(ex))
  BY <1>1, CallerRuns, StartFit
<1>3. /\ BarQ(b) \in BlockQueues /\ status[t] = "RUNNING" /\ current[h] = t /\ Here.status[t] = "RUNNING"
      /\ (\A l \in Locks : BarQ(b) # LockQ(l)) /\ (\A c \in Conds : BarQ(b) # CondQ(c))
      /\ \A p \in Procs : BarQ(b) # WaitQ(p)
  BY <1>2, HeadsAre, HeadsDiffer DEF Runs
<1>4. CASE Full(b)
  <2>1. Fit(UnblockAll(Here, BarQ(b)), {}, Start({}))
    BY <1>2, <1>3, UnblockAllFit
  <2> QED BY <1>1, <1>4, <2>1, CommitFit
<1>5. CASE ~ Full(b)
  <2> DEFINE s == do_block(Here, t, BarQ(b))
  <2>1. Fit(s, {}, Start({h})) /\ s.status[t] = "BLOCKED"
    BY <1>2, <1>3, BlockFit
  <2> HIDE DEF s
  <2> QED BY <1>1, <1>3, <1>5, <2>1, RescheduleFit DEF s
<1> QED BY <1>4, <1>5

\* the other steps leave the tasks alone
LEMMA IdleFit ==
  ASSUME IInv, UNCHANGED <<current, status, queue, locked, owner, mutexIdx>>
  PROVE  Fit(Here', {}, After)
<1>1. Fit(Here, {}, Start({}))
  BY StartFit
<1>2. Commit(Here)
  BY DEF Commit, Here
<1> QED BY <1>1, <1>2, CommitFit

(***************************************************************************)
(* Every step, and what it gives.                                          *)
(***************************************************************************)
LEMMA StepFit ==
  ASSUME ~ ZombieActs, ~ ReuseOnCPU, IInv, [Next]_vars
  PROVE  Fit(Here', {}, After)
<1>1. ASSUME NEW h \in Harts, Timer(h) PROVE Fit(Here', {}, After)
  BY <1>1, TimerFit
<1>2. ASSUME NEW h \in Harts, do_exec(h) \/ do_thread_create(h) PROVE Fit(Here', {}, After)
  BY <1>2, LaunchFit DEF do_exec, do_thread_create
<1>3. ASSUME NEW h \in Harts, do_exit(h) \/ do_sleep(h) PROVE Fit(Here', {}, After)
  BY <1>3, ExitFit, SleepFit
<1>4. ASSUME NEW h \in Harts, NEW p \in Procs, sys_kill(h, p) \/ do_waitpid(h, p)
      PROVE  Fit(Here', {}, After)
  BY <1>4, SysKillFit, WaitpidFit
<1>5. ASSUME NEW h \in Harts, NEW l \in Locks, do_mutex_lock_acquire(h, l) \/ LockRelease(h, l)
      PROVE  Fit(Here', {}, After)
  BY <1>5, AcquireFit, LockReleaseFit
<1>6. ASSUME NEW h \in Harts, NEW c \in Conds, \E l \in Locks : do_condition_wait(h, c, l)
      PROVE  Fit(Here', {}, After)
  BY <1>6, ConditionWaitFit
<1>7. ASSUME NEW h \in Harts, NEW c \in Conds, do_condition_signal(h, c) \/ do_condition_broadcast(h, c)
      PROVE  Fit(Here', {}, After)
  BY <1>7, SignalFit, ConditionBroadcastFit
<1>8. ASSUME NEW h \in Harts, NEW b \in Bars,
             (\E g \in Goals : do_barrier_init(h, b, g)) \/ do_barrier_destroy(h, b)
      PROVE  Fit(Here', {}, After)
  BY <1>8, IdleFit DEF do_barrier_init, do_barrier_destroy
<1>9. ASSUME NEW h \in Harts, NEW b \in Bars, do_barrier_wait(h, b) PROVE Fit(Here', {}, After)
  BY <1>9, BarrierWaitFit
<1>10. CASE UNCHANGED vars
  BY <1>10, IdleFit DEF vars
<1> QED BY <1>1, <1>2, <1>3, <1>4, <1>5, <1>6, <1>7, <1>8, <1>9, <1>10 DEF Next, Syscall

LEMMA BaseMoves ==
  ASSUME Fit(Here', {}, After)
  PROVE  Fit(Here, {}, Now({}))'
<1>1. Here' \in Snap /\ Linked(Here', {}) /\ Placed(Here', After) /\ Served(Here', After)
      /\ Owed(Here', {}, After)
  BY DEF Fit
<1> QED BY <1>1 DEF Fit, Linked, Placed, Served, Owed, Now, After, Here

Others == /\ mutexIdx \in [Procs -> Locks \cup {None}] /\ parent \in [Procs -> Procs \cup {None}]
          /\ count \in [Bars -> Nat] /\ goal \in [Bars -> Goals \cup {None}]

LEMMA OthersKept ==
  ASSUME Others, [Next]_vars
  PROVE  Others'
<1> USE DEF Others
<1>1. ASSUME NEW h \in Harts, Timer(h) PROVE Others'
  BY <1>1 DEF Timer
<1>2. ASSUME NEW h \in Harts, do_exec(h) \/ do_thread_create(h) PROVE Others'
  BY <1>2 DEF do_exec, do_thread_create, Launch
<1>3. ASSUME NEW h \in Harts, do_exit(h) \/ do_sleep(h) PROVE Others'
  BY <1>3 DEF do_exit, do_sleep
<1>4. ASSUME NEW h \in Harts, NEW p \in Procs, sys_kill(h, p) \/ do_waitpid(h, p) PROVE Others'
  BY <1>4 DEF sys_kill, do_waitpid
<1>5. ASSUME NEW h \in Harts, NEW l \in Locks, do_mutex_lock_acquire(h, l) \/ LockRelease(h, l)
      PROVE  Others'
  BY <1>5 DEF do_mutex_lock_acquire, LockRelease
<1>6. ASSUME NEW h \in Harts, NEW c \in Conds, NEW l \in Locks, do_condition_wait(h, c, l) PROVE Others'
  BY <1>6 DEF do_condition_wait
<1>7. ASSUME NEW h \in Harts, NEW c \in Conds, do_condition_signal(h, c) \/ do_condition_broadcast(h, c)
      PROVE  Others'
  BY <1>7 DEF do_condition_signal, do_condition_broadcast
<1>8. ASSUME NEW h \in Harts, NEW b \in Bars,
             (\E g \in Goals : do_barrier_init(h, b, g)) \/ do_barrier_destroy(h, b)
      PROVE  Others'
  BY <1>8 DEF do_barrier_init, do_barrier_destroy
<1>9. ASSUME NEW h \in Harts, NEW b \in Bars, do_barrier_wait(h, b) PROVE Others'
  <2>1. Arrived(b) \in Nat
    BY DEF Arrived
  <2> QED BY <1>9, <2>1 DEF do_barrier_wait
<1>10. CASE UNCHANGED vars
  BY <1>10 DEF vars
<1> QED BY <1>1, <1>2, <1>3, <1>4, <1>5, <1>6, <1>7, <1>8, <1>9, <1>10 DEF Next, Syscall

LEMMA InitFit ==
  ASSUME Init
  PROVE  IInv
<1>1. 0 \in Procs /\ 0 \in Tasks /\ Idles \subseteq Tasks /\ Procs \cap Idles = {}
  BY KernelAssumption, TasksAssumption DEF KernelAssumption, TasksAssumption, Tasks
<1> DEFINE s == Here
           k == Now({})
<1>2. /\ s.status = [t \in Tasks |-> IF t \in Idles THEN "RUNNING"
                                     ELSE IF t = 0 THEN "READY" ELSE "EXITED"]
      /\ s.queue = [x \in Queues |-> IF x = Ready THEN <<0>> ELSE <<>>]
      /\ s.locked = [l \in Locks |-> FALSE] /\ s.owner = [l \in Locks |-> 0]
  BY DEF Init, Here
<1>3. k.cur = current /\ k.ex = {} /\ k.base = s /\ k.mi = mutexIdx
  BY DEF Now
<1>4. current \in [Harts -> Idles] /\ \A g, h \in Harts : current[g] = current[h] => g = h
  BY DEF Init, IsInjective
<1>5. s \in Snap
  <2>1. /\ s.status \in [Tasks -> {"BLOCKED", "RUNNING", "READY", "EXITED"}]
        /\ s.queue \in [Queues -> Seq(Tasks)]
        /\ s.locked \in [Locks -> BOOLEAN] /\ s.owner \in [Locks -> Tasks]
    BY <1>1, <1>2
  <2> QED BY <2>1 DEF Snap, Here
<1> HIDE DEF s, k
<1>6. /\ \A x \in Queues : IsInjective(s.queue[x])
      /\ In(s, Ready) = {0} /\ \A x \in BlockQueues : In(s, x) = {}
  <2>1. IsInjective(<<0>>) /\ Range(<<0>>) = {0} /\ IsInjective(<<>>) /\ Range(<<>>) = {}
    BY DEF IsInjective, Range
  <2> QED BY <1>2, <2>1, HeadsAre DEF In
<1>7. Linked(s, {})
  BY <1>1, <1>2, <1>6, HeadsAre DEF Linked
<1>8. Placed(s, k)
  <2>1. \A t \in Tasks : s.status[t] = "RUNNING" => t \in Idles
    BY <1>2
  <2>2. \A t \in Idles : \E g \in Harts : current[g] = t
    <3>1. current \in Injection(Harts, Idles)
      BY <1>4 DEF Injection, IsInjective
    <3>2. current \in Surjection(Harts, Idles)
      BY <3>1, TasksAssumption, FS_Injection DEF TasksAssumption
    <3> QED BY <3>2 DEF Surjection
  <2> QED BY <1>1, <1>2, <1>3, <1>4, <2>1, <2>2 DEF Placed
<1>9. Served(s, k)
  BY <1>1, <1>2, <1>6, HeadsAre DEF Served
<1>10. Owed(s, {}, k)
  BY <1>3, <1>6, HeadsAre DEF Owed
<1>11. Others
  BY DEF Init, Others
<1> QED BY <1>5, <1>7, <1>8, <1>9, <1>10, <1>11 DEF IInv, Fit, Others, s, k

LEMMA Inductive ==
  ASSUME ~ ZombieActs, ~ ReuseOnCPU, IInv, [Next]_vars
  PROVE  IInv'
<1>1. Fit(Here, {}, Now({}))'
  BY StepFit, BaseMoves
<1>2. Others'
  BY OthersKept DEF IInv, Others
<1> QED BY <1>1, <1>2 DEF IInv, Others

\* what IInv says of the variables
LEMMA Unfolded ==
  ASSUME IInv
  PROVE  /\ Here.status = status /\ Here.queue = queue /\ Here.locked = locked /\ Here.owner = owner
         /\ Here \in Snap /\ Linked(Here, {}) /\ Placed(Here, Now({})) /\ Served(Here, Now({}))
         /\ \A x : In(Here, x) = Range(queue[x])
BY DEF IInv, Fit, Here, In

LEMMA Typed ==
  ASSUME IInv
  PROVE  TypeOK
<1>1. /\ status \in [Tasks -> {"BLOCKED", "RUNNING", "READY", "EXITED"}]
      /\ queue \in [Queues -> Seq(Tasks)]
      /\ locked \in [Locks -> BOOLEAN] /\ owner \in [Locks -> Tasks]
      /\ \A x \in Queues : Range(queue[x]) \subseteq Tasks
  BY Unfolded, SnapIs
<1>2. owner \in [Locks -> Procs]
  BY <1>1, Unfolded DEF Served
<1>3. current \in [Harts -> Tasks]
  BY Unfolded DEF Placed, Now
<1> QED BY <1>1, <1>2, <1>3 DEF TypeOK, IInv

LEMMA PlacedOnce ==
  ASSUME IInv
  PROVE  OnePlace
<1>1. /\ \A x \in Queues : IsInjective(queue[x])
      /\ \A t \in Tasks : \A x, y \in Queues : x \in Homes(t) /\ y \in Homes(t) => x = y
  BY Unfolded DEF Linked, Homes
<1>2. ASSUME NEW t \in Tasks
      PROVE  IF status[t] = "EXITED" THEN Homes(t) = {}
             ELSE Cardinality(Homes(t)) + Cardinality(RunsOn(t)) = 1
  <2>1. /\ status[t] \in {"BLOCKED", "RUNNING", "READY", "EXITED"}
        /\ status[t] = "READY" <=> Ready \in Homes(t)
        /\ status[t] = "BLOCKED" <=> \E x \in BlockQueues : x \in Homes(t)
    BY Unfolded, SnapIs, HeadsAre DEF Linked, Homes
  <2>2. /\ current \in [Harts -> Tasks] /\ \A g, h \in Harts : current[g] = current[h] => g = h
        /\ \A g \in Harts : status[current[g]] \in {"RUNNING", "EXITED"}
        /\ status[t] = "RUNNING" => \E g \in Harts : current[g] = t
    BY Unfolded DEF Placed, Now
  <2>3. Homes(t) \subseteq {Ready} \cup BlockQueues
    BY HeadsAre DEF Homes
  <2>4. Cardinality({}) = 0 /\ \A e : Cardinality({e}) = 1
    BY FS_EmptySet, FS_Singleton
  <2>5. CASE status[t] = "EXITED"
    BY <2>1, <2>3, <2>5
  <2>6. CASE status[t] = "RUNNING"
    <3>1. Homes(t) = {}
      BY <2>1, <2>3, <2>6
    <3>2. \E g \in Harts : RunsOn(t) = {g}
      BY <2>2, <2>6 DEF RunsOn
    <3> QED BY <2>4, <2>6, <3>1, <3>2
  <2>7. CASE status[t] \in {"READY", "BLOCKED"}
    <3>1. RunsOn(t) = {}
      BY <2>2, <2>7 DEF RunsOn
    <3>2. \E x : x \in Homes(t)
      BY <2>1, <2>7
    <3>3. \A x \in Homes(t) : x \in Queues
      BY DEF Homes
    <3>4. \E x : Homes(t) = {x}
      BY <1>1, <3>2, <3>3
    <3> QED BY <2>4, <2>7, <3>1, <3>4
  <2> QED BY <2>1, <2>5, <2>6, <2>7
<1> QED BY <1>1, <1>2 DEF OnePlace

LEMMA Running ==
  ASSUME IInv
  PROVE  CPUsRun
<1>1. \A h \in Harts : status[current[h]] \in {"RUNNING", "EXITED"}
  BY Unfolded DEF Placed, Now
<1>2. \A t \in Tasks : /\ status[t] = "READY" <=> t \in Range(queue[Ready])
                       /\ status[t] = "BLOCKED" <=> \E x \in BlockQueues : t \in Range(queue[x])
  BY Unfolded DEF Linked
<1>3. \A t \in Tasks : Homes(t) \cap BlockQueues # {} <=> \E x \in BlockQueues : t \in Range(queue[x])
  BY HeadsAre DEF Homes
<1> QED BY <1>1, <1>2, <1>3 DEF CPUsRun

LEMMA NoOrphans ==
  ASSUME IInv
  PROVE  NoOrphanWaiters
<1>1. ASSUME NEW x \in Queues, queue[x] # <<>> PROVE In(Here, x) # {}
  <2>1. queue[x] \in Seq(Tasks) /\ In(Here, x) = Range(queue[x])
    BY Unfolded, SnapIs
  <2>2. 1 \in DOMAIN queue[x]
    BY <1>1, <2>1
  <2> QED BY <2>1, <2>2 DEF Range
<1> QED BY <1>1, Unfolded, HeadsAre DEF Served, NoOrphanWaiters

(***************************************************************************)
(* The refinement: what the variables of Kernel mean to Dispatch.          *)
(***************************************************************************)
LEMMA PlaceIs ==
  ASSUME NEW s \in Snap, Linked(s, {})
  PROVE  Where(s) = [t \in Tasks |->
           IF s.status[t] = "EXITED" THEN Exited
           ELSE IF s.status[t] = "RUNNING" THEN OnCPU
           ELSE CHOOSE x \in Queues : \E i \in DOMAIN s.queue[x] : s.queue[x][i] = t]
<1> DEFINE On(t, x) == \E i \in DOMAIN s.queue[x] : s.queue[x][i] = t
<1>1. \A t, x : On(t, x) <=> t \in In(s, x)
  BY DEF In, Range
<1> HIDE DEF On
<1>2. ASSUME NEW t \in Tasks, s.status[t] \notin {"EXITED", "RUNNING"}
      PROVE  Where(s)[t] = CHOOSE x \in Queues : On(t, x)
  <2>1. Where(s)[t] \in Queues
    BY <1>2, WhereIs, PlacesDiffer
  <2>2. \A x \in Queues : On(t, x) <=> Where(s)[t] = x
    BY <1>1, WhereIs
  <2> HIDE DEF Where
  <2> QED BY <2>1, <2>2
<1>3. Where(s) = [t \in Tasks |-> IF s.status[t] = "EXITED" THEN Exited
                                  ELSE IF s.status[t] = "RUNNING" THEN OnCPU
                                  ELSE CHOOSE x \in Queues : On(t, x)]
  <2>1. \A t \in Tasks : /\ s.status[t] = "EXITED" => Where(s)[t] = Exited
                         /\ s.status[t] = "RUNNING" => Where(s)[t] = OnCPU
    BY WhereIs
  <2>2. Where(s) = [t \in Tasks |-> Where(s)[t]]
    BY DEF Where
  <2> QED BY <1>2, <2>1, <2>2
<1> QED BY <1>3 DEF On

LEMMA Seen ==
  ASSUME IInv
  PROVE  places = Where(Here) /\ holders = Owners(Here)
<1>1. Here \in Snap /\ Linked(Here, {}) /\ Here.status = status /\ Here.queue = queue
      /\ Here.locked = locked /\ Here.owner = owner
  BY DEF IInv, Fit, Here
<1>2. places = Where(Here)
  BY <1>1, PlaceIs DEF places, Place
<1> QED BY <1>1, <1>2 DEF holders, Owners

LEMMA SeenNext ==
  ASSUME NEW s, Here' = s, s \in Snap, Linked(s, {})
  PROVE  places' = Where(s) /\ holders' = Owners(s)
<1>1. s.status = status' /\ s.queue = queue' /\ s.locked = locked' /\ s.owner = owner'
  BY DEF Here
<1>2. places' = Where(s)
  BY <1>1, PlaceIs DEF places, Place
<1> QED BY <1>1, <1>2 DEF holders, Owners

LEMMA CommitSeen ==
  ASSUME NEW s, NEW ex, Fit(s, {}, Start(ex)), Commit(s)
  PROVE  places' = Where(s) /\ holders' = Owners(s)
BY CommitIs, SeenNext DEF Fit

LEMMA RescheduleSeen ==
  ASSUME NEW h \in Harts, NEW s, Fit(s, {}, Start({h})), s.status[current[h]] # "READY",
         Reschedule(h, s)
  PROVE  D!Reschedule(h, Where(s)) /\ holders' = Owners(s)
<1> DEFINE k == Start({h})
<1>1. k.cur = current /\ k.ex = {h}
  BY DEF Start
<1>2. PICK due : do_scheduler(h, s, due)
  BY DEF Reschedule
<1> HIDE DEF k
<1>3. /\ Here' \in Snap /\ Fit(Here', {}, Done(k, current'))
      /\ Owners(Here') = Owners(s)
      /\ \E set \in SUBSET D!At(Where(s), Sleeping) :
           Switched(h, D!Wake(Where(s), set), Where(Here'))
  BY <1>1, <1>2, SchedulerIs DEF k
<1>4. PICK new : new = Here'
  OBVIOUS
<1>5. places' = Where(new) /\ holders' = Owners(new)
  BY <1>3, <1>4, SeenNext DEF Fit
<1>6. PICK set \in SUBSET D!At(Where(s), Sleeping) : Switched(h, D!Wake(Where(s), set), Where(new))
  BY <1>3, <1>4
<1>7. D!Switch(h, D!Wake(Where(s), set))
  BY <1>5, <1>6, SameNames DEF Switched, D!Switch
<1>8. D!Reschedule(h, Where(s))
  BY <1>7, SameNames DEF D!Reschedule
<1> QED BY <1>3, <1>4, <1>5, <1>8

LEMMA RunsCalls ==
  ASSUME IInv, NEW h \in Harts, NEW t, Runs(h, t)
  PROVE  /\ D!Calls(h) /\ current[h] = t /\ t \in Procs /\ t \in Tasks
         /\ places = Where(Here) /\ holders = Owners(Here)
<1>1. Here \in Snap /\ Linked(Here, {})
  BY DEF IInv, Fit
<1>2. Where(Here)[t] = OnCPU
  BY <1>1, WhereIs DEF Runs
<1> QED BY <1>2, Seen, SameNames DEF D!Calls, Runs

\* the caller blocks at x and the CPU reschedules
LEMMA BlockSeen ==
  ASSUME NEW h \in Harts, NEW t, Runs(h, t), NEW s, Fit(s, {}, Start({h})), s.status[t] = "RUNNING",
         NEW x \in BlockQueues,
         \A l \in Locks : x = LockQ(l) => s.locked[l],
         \A p \in Procs : x = WaitQ(p) => s.status[p] # "EXITED",
         \A c \in Conds : x = CondQ(c) => mutexIdx'[t] \in Locks,
         Reschedule(h, do_block(s, t, x))
  PROVE  D!Reschedule(h, D!Block(h, Where(s), x)) /\ holders' = Owners(s)
<1> DEFINE new == do_block(s, t, x)
<1>1. t \in Tasks /\ current[h] = t
  BY DEF Runs
<1>2. Fit(new, {}, Start({h})) /\ new.status[t] = "BLOCKED"
  BY BlockFit
<1>3. s \in Snap /\ Linked(s, {}) /\ Moved(s, new, t, x, "BLOCKED") /\ Goes(x, "BLOCKED")
  BY <1>1, FitMoves DEF Fit, Goes
<1> HIDE DEF new
<1>4. /\ \A u \in Tasks : Where(new)[u] = IF u = t THEN x ELSE Where(s)[u]
      /\ Owners(new) = Owners(s)
  BY <1>1, <1>3, MovedPlaces
<1>5. Where(new) = [Where(s) EXCEPT ![t] = x]
  <2> DEFINE p == Where(s)
             r == Where(new)
  <2>1. DOMAIN p = Tasks /\ r = [u \in Tasks |-> r[u]] /\ p = [u \in Tasks |-> p[u]]
    BY DEF Where
  <2>2. \A u \in Tasks : r[u] = IF u = t THEN x ELSE p[u]
    BY <1>4
  <2> HIDE DEF p, r
  <2>3. r = [p EXCEPT ![t] = x]
    BY <2>1, <2>2
  <2> QED BY <2>3 DEF p, r
<1>6. D!Reschedule(h, Where(new)) /\ holders' = Owners(new)
  BY <1>1, <1>2, RescheduleSeen DEF new
<1> QED BY <1>1, <1>4, <1>5, <1>6 DEF D!Block

(***************************************************************************)
(* What each handler is to Dispatch.                                       *)
(***************************************************************************)
LEMMA TimerSeen ==
  ASSUME IInv, NEW h \in Harts, Timer(h)
  PROVE  D!Timer(h)
<1>1. Fit(Here, {}, Start({h})) /\ Reschedule(h, Here) /\ UNCHANGED <<parent, mutexIdx>>
  BY StartFit DEF Timer
<1>2. Here.status[current[h]] # "READY"
  BY DEF IInv, Fit, Placed, Now
<1>3. D!Reschedule(h, Where(Here)) /\ holders' = Owners(Here)
  BY <1>1, <1>2, RescheduleSeen
<1> QED BY <1>1, <1>3, Seen DEF D!Timer

LEMMA LaunchSeen ==
  ASSUME IInv, ~ ZombieActs, ~ ReuseOnCPU, NEW h \in Harts, NEW t, Caller(h, t), NEW j \in Procs, NEW par,
         Launch(j, par)
  PROVE  D!Launch(h, j, par)
<1> DEFINE new == MakeReady(Here, j)
<1>1. /\ status[j] = "EXITED" /\ (\A g \in Harts : current[g] # j)
      /\ Commit(new) /\ UNCHANGED <<current, mutexIdx>> /\ parent' = [parent EXCEPT ![j] = par]
  BY DEF Launch, FreeSlot, OnSomeCPU
<1>2. j \in Tasks /\ Here \in Snap /\ Linked(Here, {}) /\ Here.status[j] = "EXITED"
  BY <1>1 DEF Tasks, IInv, Fit, Here
<1>3. new \in Snap /\ Moved(Here, new, j, Ready, "READY") /\ Goes(Ready, "READY")
  BY <1>2, MoveType, FitMoves DEF IInv, Goes
<1> HIDE DEF new
<1>4. Linked(new, {})
  BY <1>2, <1>3, MovedLinked
<1>5. /\ \A u \in Tasks : Where(new)[u] = IF u = j THEN Ready ELSE Where(Here)[u]
      /\ Owners(new) = Owners(Here)
  BY <1>2, <1>3, MovedPlaces
<1>6. places' = Where(new) /\ holders' = Owners(new)
  BY <1>1, <1>3, <1>4, CommitIs, SeenNext
<1>7. D!Calls(h) /\ places = Where(Here) /\ holders = Owners(Here)
  BY CallerRuns, RunsCalls
<1>8. places[j] = Exited
  BY <1>2, <1>7, WhereIs
<1>9. places' = [places EXCEPT ![j] = Ready]
  <2>1. DOMAIN places = Tasks /\ places' = [u \in Tasks |-> places'[u]] /\ places = [u \in Tasks |-> places[u]]
    BY <1>6, <1>7 DEF Where
  <2>2. \A u \in Tasks : places'[u] = IF u = j THEN Ready ELSE places[u]
    BY <1>5, <1>6, <1>7
  <2> QED BY <2>1, <2>2
<1> QED BY <1>1, <1>5, <1>6, <1>7, <1>8, <1>9, SameNames DEF D!Launch

LEMMA OwnersType ==
  ASSUME NEW s, NEW off, NEW k, Fit(s, off, k)
  PROVE  Owners(s) \in [Locks -> Procs \cup {None}]
BY DEF Owners, Fit, Served

LEMMA ExecSeen ==
  ASSUME IInv, ~ ZombieActs, ~ ReuseOnCPU, NEW h \in Harts, do_exec(h) \/ do_thread_create(h)
  PROVE  \E p \in Procs : D!Launch(h, p, None) \/ D!Launch(h, p, current[h])
<1>1. CASE do_exec(h)
  <2>1. PICK t \in Procs, j \in Procs : Caller(h, t) /\ Launch(j, None)
    BY <1>1 DEF do_exec
  <2>2. D!Launch(h, j, None)
    BY <2>1, LaunchSeen
  <2> QED BY <2>2
<1>2. CASE do_thread_create(h)
  <2>1. PICK t \in Procs, j \in Procs : Caller(h, t) /\ Launch(j, t)
    BY <1>2 DEF do_thread_create
  <2>2. D!Launch(h, j, t) /\ t = current[h]
    BY <2>1, LaunchSeen DEF Caller
  <2> QED BY <2>2
<1> QED BY <1>1, <1>2

\* the family of p in Kernel and in Dispatch, and how it ends
LEMMA EndedSeen ==
  ASSUME IInv, NEW p \in Procs, NEW new, NEW k, Fit(new, {}, k), Ended(Here, new, Children(p) \cup {p})
  PROVE  /\ Owners(new) \in [Locks -> Procs \cup {None}]
         /\ D!Inherits(D!Family(p), Owners(new))
         /\ Where(new) = D!Killed(D!Family(p), Owners(new))
<1> DEFINE K == Children(p) \cup {p}
           own == Owners(new)
<1>1. /\ places = Where(Here) /\ holders = Owners(Here)
      /\ Here \in Snap /\ Linked(Here, {}) /\ Here.status = status
  BY Seen, Unfolded
<1>2. D!Family(p) = K
  <2>1. \A c \in Procs : status[c] = "EXITED" <=> places[c] = Exited
    BY <1>1, WhereIs DEF Tasks
  <2> QED BY <2>1, SameNames DEF D!Family, Children
<1>3. own \in [Locks -> Procs \cup {None}]
  BY OwnersType
<1>4. /\ \A l \in Locks : IF holders[l] \in K THEN own[l] \in D!Heirs(In(Here, LockQ(l)) \ K)
                                              ELSE own[l] = holders[l]
      /\ \A u \in K : Where(new)[u] = Exited
      /\ \A u \in Tasks \ K : Where(new)[u] = IF FreedBy(Here, new, K, u) THEN Ready ELSE places[u]
  BY <1>1 DEF Ended
<1>5. \A u \in Tasks : FreedBy(Here, new, K, u) <=> \/ \E r \in K : places[u] = WaitQ(r)
                                                     \/ \E l \in Locks : holders[l] \in K /\ own[l] = u
  <2>1. K \subseteq Procs
    BY DEF Children
  <2>2. ASSUME NEW u \in Tasks, NEW r \in K PROVE u \in In(Here, WaitQ(r)) <=> places[u] = WaitQ(r)
    BY <1>1, <2>1, WhereIs, HeadsAre
  <2> HIDE DEF K
  <2> QED BY <1>1, <2>2 DEF FreedBy
<1>6. \A l \in Locks : D!At(places, LockQ(l)) = In(Here, LockQ(l))
  BY <1>1, AtIs, HeadsAre
<1>7. Where(new) = [u \in Tasks |-> Where(new)[u]]
  BY DEF Where
<1>8. K \subseteq Tasks
  BY DEF Children, Tasks
<1> HIDE DEF K, own, Where
<1>9. D!Inherits(K, own)
  BY <1>4, <1>6, SameNames DEF D!Inherits
<1>10. Where(new) = D!Killed(K, own)
  BY <1>4, <1>5, <1>7, <1>8, SameNames DEF D!Killed
<1> QED BY <1>2, <1>3, <1>9, <1>10 DEF K, own

LEMMA ExitSeen ==
  ASSUME IInv, ~ ZombieActs, NEW h \in Harts, do_exit(h)
  PROVE  D!Exit(h)
<1>1. PICK t \in Procs : Caller(h, t) /\ Reschedule(h, do_kill_all(Here, t)) /\ UNCHANGED <<parent, mutexIdx>>
  BY DEF do_exit
<1> DEFINE s == do_kill_all(Here, t)
           own == Owners(s)
<1>2. Fit(s, {}, Start({h})) /\ s.status[t] = "EXITED" /\ Ended(Here, s, Children(t) \cup {t})
  BY <1>1, StartFit, KillAllIs
<1>3. D!Calls(h) /\ current[h] = t
  BY <1>1, CallerRuns, RunsCalls
<1> HIDE DEF s
<1>4. D!Reschedule(h, Where(s)) /\ holders' = own
  BY <1>1, <1>2, <1>3, RescheduleSeen DEF s
<1>5. /\ own \in [Locks -> Procs \cup {None}] /\ D!Inherits(D!Family(t), own)
      /\ Where(s) = D!Killed(D!Family(t), own)
  BY <1>2, EndedSeen
<1> HIDE DEF own
<1>6. D!Reschedule(h, D!Killed(D!Family(t), own))
  BY <1>4, <1>5
<1> QED BY <1>1, <1>3, <1>4, <1>5, <1>6 DEF D!Exit

LEMMA KillSeen ==
  ASSUME IInv, ~ ZombieActs, NEW h \in Harts, NEW p \in Procs, sys_kill(h, p)
  PROVE  D!Kill(h, p)
<1>1. PICK t \in Procs : /\ Caller(h, t) /\ status[p] # "EXITED" /\ Commit(do_kill_all(Here, p))
                         /\ UNCHANGED <<current, parent, mutexIdx>>
  BY DEF sys_kill
<1> DEFINE s == do_kill_all(Here, p)
           own == Owners(s)
<1>2. Fit(s, {}, Start({})) /\ Ended(Here, s, Children(p) \cup {p})
  BY <1>1, StartFit, KillAllIs
<1>3. D!Calls(h) /\ places[p] # Exited
  <2>1. D!Calls(h) /\ places = Where(Here)
    BY <1>1, CallerRuns, RunsCalls
  <2> QED BY <1>1, <2>1, Unfolded, WhereIs DEF Tasks
<1> HIDE DEF s
<1>4. places' = Where(s) /\ holders' = own
  BY <1>1, <1>2, CommitSeen DEF s
<1>5. /\ own \in [Locks -> Procs \cup {None}] /\ D!Inherits(D!Family(p), own)
      /\ Where(s) = D!Killed(D!Family(p), own)
  BY <1>2, EndedSeen
<1> HIDE DEF own
<1> QED BY <1>1, <1>3, <1>4, <1>5, SameNames DEF D!Kill

LEMMA WaitpidSeen ==
  ASSUME IInv, ~ ZombieActs, NEW h \in Harts, NEW p \in Procs, do_waitpid(h, p)
  PROVE  D!Waitpid(h, p)
<1>1. PICK t \in Procs : /\ Caller(h, t) /\ status[p] # "EXITED" /\ UNCHANGED <<parent, mutexIdx>>
                         /\ Reschedule(h, do_block(Here, t, WaitQ(p)))
  BY DEF do_waitpid
<1>2. Runs(h, t) /\ Fit(Here, {}, Start({h})) /\ Here.status = status
  BY <1>1, CallerRuns, StartFit DEF Here
<1>3. D!Calls(h) /\ places = Where(Here) /\ holders = Owners(Here)
  BY <1>2, RunsCalls
<1>4. WaitQ(p) \in BlockQueues /\ Here.status[t] = "RUNNING"
  BY <1>2, HeadsAre DEF Runs
<1>5. D!Reschedule(h, D!Block(h, Where(Here), WaitQ(p))) /\ holders' = Owners(Here)
  BY <1>1, <1>2, <1>4, HeadsDiffer, BlockSeen
<1>6. places[p] # Exited
  BY <1>1, <1>3, Unfolded, WhereIs DEF Tasks
<1> QED BY <1>1, <1>3, <1>5, <1>6, SameNames DEF D!Waitpid

LEMMA SleepSeen ==
  ASSUME IInv, ~ ZombieActs, NEW h \in Harts, do_sleep(h)
  PROVE  D!Sleep(h)
<1>1. PICK t \in Procs : /\ Caller(h, t) /\ UNCHANGED <<parent, mutexIdx>>
                         /\ Reschedule(h, do_block(Here, t, Sleeping))
  BY DEF do_sleep
<1>2. Runs(h, t) /\ Fit(Here, {}, Start({h}))
  BY <1>1, CallerRuns, StartFit
<1>3. D!Calls(h) /\ places = Where(Here) /\ holders = Owners(Here)
  BY <1>2, RunsCalls
<1>4. Sleeping \in BlockQueues /\ Here.status[t] = "RUNNING"
  BY <1>2, HeadsAre DEF Runs
<1>5. D!Reschedule(h, D!Block(h, Where(Here), Sleeping)) /\ holders' = Owners(Here)
  BY <1>1, <1>2, <1>4, HeadsDiffer, BlockSeen
<1> QED BY <1>1, <1>3, <1>5, SameNames DEF D!Sleep

LEMMA AcquireSeen ==
  ASSUME IInv, ~ ZombieActs, NEW h \in Harts, NEW l \in Locks, do_mutex_lock_acquire(h, l)
  PROVE  D!Acquire(h, l)
<1>1. PICK t \in Procs :
        /\ Caller(h, t) /\ UNCHANGED <<parent, mutexIdx>>
        /\ IF locked[l] THEN Reschedule(h, do_mutex_lock_acquire_non_sched(Here, t, l))
                        ELSE Commit(do_mutex_lock_acquire_non_sched(Here, t, l)) /\ UNCHANGED current
  BY DEF do_mutex_lock_acquire
<1>2. Runs(h, t) /\ Fit(Here, {}, Start({h}))
  BY <1>1, CallerRuns, StartFit
<1>3. /\ D!Calls(h) /\ places = Where(Here) /\ holders = Owners(Here) /\ current[h] = t
      /\ Here \in Snap /\ Linked(Here, {}) /\ Here.locked = locked /\ Here.owner = owner
  BY <1>2, RunsCalls, Unfolded
<1>4. LockQ(l) \in BlockQueues /\ Here.status[t] = "RUNNING" /\ None \notin Procs
  BY <1>2, HeadsAre, TasksAssumption DEF Runs, TasksAssumption
<1>5. CASE locked[l]
  <2>1. /\ \A m \in Locks : LockQ(l) = LockQ(m) => Here.locked[m]
        /\ (\A p \in Procs : LockQ(l) # WaitQ(p)) /\ \A c \in Conds : LockQ(l) # CondQ(c)
    BY <1>3, <1>5, HeadsDiffer
  <2>2. Reschedule(h, do_block(Here, t, LockQ(l)))
    BY <1>1, <1>3, <1>5 DEF do_mutex_lock_acquire_non_sched
  <2>3. D!Reschedule(h, D!Block(h, Where(Here), LockQ(l))) /\ holders' = Owners(Here)
    BY <1>2, <1>4, <2>1, <2>2, BlockSeen
  <2>4. holders[l] # None
    BY <1>3, <1>4, <1>5, Unfolded DEF Owners, Served
  <2> QED BY <1>1, <1>3, <2>3, <2>4, SameNames DEF D!Acquire
<1>6. CASE ~ locked[l]
  <2> DEFINE s == [Here EXCEPT !.locked[l] = TRUE, !.owner[l] = t]
  <2>1. Taken(Here, s, l, t)
    BY <1>3, TakeIs
  <2>2. Commit(s) /\ UNCHANGED current
    BY <1>1, <1>3, <1>6 DEF do_mutex_lock_acquire_non_sched
  <2> HIDE DEF s
  <2>3. s \in Snap /\ Linked(s, {})
    BY <1>3, <2>1, SameTasks DEF Taken
  <2>4. places' = Where(s) /\ holders' = Owners(s)
    BY <2>2, <2>3, CommitIs, SeenNext
  <2>5. Where(s) = Where(Here)
    BY <2>1 DEF Where, Taken, In
  <2>6. holders[l] = None /\ holders' = [holders EXCEPT ![l] = t]
    BY <1>3, <1>6, <2>1, <2>4 DEF Owners, Taken
  <2> QED BY <1>1, <1>3, <2>2, <2>4, <2>5, <2>6 DEF D!Acquire
<1> QED BY <1>5, <1>6

\* what Dispatch sees of do_mutex_lock_release
LEMMA ReleaseIs ==
  ASSUME IInv, NEW h \in Harts, NEW t, Runs(h, t), NEW ex, Fit(Here, {}, Start(ex)), NEW l \in Locks
  PROVE  \E o \in D!Successors(h, l) :
           /\ Owners(do_mutex_lock_release(Here, t, l)) = [holders EXCEPT ![l] = o]
           /\ Where(do_mutex_lock_release(Here, t, l)) = D!Released(h, l, o)
<1> DEFINE k == Start(ex)
           new == HandOff(Here, l)
<1>1. /\ places = Where(Here) /\ holders = Owners(Here) /\ current[h] = t
      /\ Here \in Snap /\ Linked(Here, {}) /\ Here.locked = locked /\ Here.owner = owner
  BY RunsCalls, Unfolded
<1>2. None \notin Tasks /\ t \in Tasks
  BY TasksAssumption DEF Tasks, TasksAssumption, Runs
<1>3. D!At(places, LockQ(l)) = In(Here, LockQ(l))
  BY <1>1, AtIs, HeadsAre
<1>4. holders = [m \in Locks |-> holders[m]] /\ places = [u \in Tasks |-> places[u]]
      /\ holders[l] = IF locked[l] THEN owner[l] ELSE None
  BY <1>1 DEF Owners, Where
<1>5. CASE owner[l] = t
  <2>1. k.base = Here /\ Here.owner[l] = t /\ do_mutex_lock_release(Here, t, l) = new
    BY <1>1, <1>5 DEF Start, do_mutex_lock_release
  <2> HIDE DEF k, new
  <2>2. Unowed(Here, {}, k, Here.owner[l])
    BY <2>1 DEF Runs, Unowed
  <2>3. Fit(new, {}, k) /\ Handed(Here, new, l)
    BY <2>2, HandOffFit DEF k, new
  <2> DEFINE o == Owners(new)[l]
  <2>4. /\ \A u \in Tasks : Where(new)[u] = IF o = u THEN Ready ELSE places[u]
        /\ o \in D!Heirs(In(Here, LockQ(l)))
        /\ \A m \in Locks \ {l} : Owners(new)[m] = holders[m]
    BY <1>1, <2>3, HandedPlaces DEF k
  <2>5. /\ Owners(new) = [m \in Locks |-> Owners(new)[m]]
        /\ Where(new) = [u \in Tasks |-> Where(new)[u]]
    BY DEF Owners, Where
  <2>6. Owners(new) = [holders EXCEPT ![l] = o]
    <3> DEFINE r == Owners(new)
    <3>1. r = [m \in Locks |-> r[m]] /\ \A m \in Locks \ {l} : r[m] = holders[m]
      BY <2>4, <2>5
    <3> HIDE DEF r
    <3>2. r = [holders EXCEPT ![l] = r[l]]
      BY <1>4, <3>1
    <3> QED BY <3>2 DEF r
  <2>7. Where(new) = D!Wake(places, {o})
    <3> HIDE DEF o, Where
    <3> QED BY <2>4, <2>5, SameNames DEF D!Wake
  <2>8. CASE locked[l]
    <3>1. holders[l] = current[h]
      BY <1>1, <1>4, <1>5, <2>8
    <3>2. o \in D!Successors(h, l) /\ Where(new) = D!Released(h, l, o)
      BY <1>3, <2>4, <2>7, <3>1, SameNames DEF D!Successors, D!Released
    <3> QED BY <2>1, <2>6, <3>2
  <2>9. CASE ~ locked[l]
    <3>1. In(Here, LockQ(l)) = {} /\ holders[l] = None /\ holders[l] # current[h]
      BY <1>1, <1>2, <1>4, <2>9, Unfolded DEF Served
    <3>2. o = None
      BY <2>4, <3>1 DEF D!Heirs
    <3>3. Where(new) = places
      <4> HIDE DEF o, Where
      <4>1. \A u \in Tasks : Where(new)[u] = places[u]
        BY <1>2, <2>4, <3>2
      <4> QED BY <1>4, <2>5, <4>1
    <3>4. o \in D!Successors(h, l) /\ Where(new) = D!Released(h, l, o)
      BY <3>1, <3>2, <3>3 DEF D!Successors, D!Released
    <3> QED BY <2>1, <2>6, <3>4
  <2> QED BY <2>8, <2>9
<1>6. CASE owner[l] # t
  <2>1. do_mutex_lock_release(Here, t, l) = Here
    BY <1>1, <1>6 DEF do_mutex_lock_release
  <2>2. holders[l] # current[h]
    BY <1>1, <1>2, <1>4, <1>6
  <2>3. holders = [holders EXCEPT ![l] = holders[l]]
    BY <1>4
  <2> QED BY <1>1, <2>1, <2>2, <2>3 DEF D!Successors, D!Released
<1> QED BY <1>5, <1>6

LEMMA LockReleaseSeen ==
  ASSUME IInv, ~ ZombieActs, NEW h \in Harts, NEW l \in Locks, LockRelease(h, l)
  PROVE  D!Release(h, l)
<1>1. PICK t \in Procs : /\ Caller(h, t) /\ Commit(do_mutex_lock_release(Here, t, l))
                         /\ UNCHANGED <<current, parent, mutexIdx>>
  BY DEF LockRelease
<1>2. Runs(h, t) /\ Fit(Here, {}, Start({}))
  BY <1>1, CallerRuns, StartFit
<1> DEFINE r == do_mutex_lock_release(Here, t, l)
<1>3. D!Calls(h) /\ Fit(r, {}, Start({}))
  BY <1>2, RunsCalls, ReleaseFit
<1>4. PICK o \in D!Successors(h, l) : Owners(r) = [holders EXCEPT ![l] = o] /\ Where(r) = D!Released(h, l, o)
  BY <1>2, ReleaseIs
<1> HIDE DEF r
<1>5. places' = Where(r) /\ holders' = Owners(r)
  BY <1>1, <1>3, CommitSeen DEF r
<1> QED BY <1>1, <1>3, <1>4, <1>5 DEF D!Release

LEMMA ConditionWaitSeen ==
  ASSUME IInv, ~ ZombieActs, NEW h \in Harts, NEW c \in Conds, NEW l \in Locks, do_condition_wait(h, c, l)
  PROVE  D!CondWait(h, c, l)
<1>1. PICK t \in Procs :
        /\ Caller(h, t) /\ mutexIdx' = [mutexIdx EXCEPT ![t] = l] /\ UNCHANGED parent
        /\ Reschedule(h, do_block(do_mutex_lock_release(Here, t, l), t, CondQ(c)))
  BY DEF do_condition_wait
<1>2. mutexIdx'[t] = l /\ \A u \in Procs : mutexIdx'[u] = mutexIdx[u] \/ mutexIdx'[u] \in Locks
  BY <1>1 DEF IInv
<1>3. Runs(h, t) /\ Fit(Here, {}, Start({h}))
  BY <1>1, <1>2, CallerRuns, StartFit
<1> DEFINE r == do_mutex_lock_release(Here, t, l)
<1>4. Fit(r, {}, Start({h})) /\ r.status[t] = "RUNNING" /\ D!Calls(h) /\ current[h] = t
  BY <1>3, RunsCalls, ReleaseFit
<1>5. PICK o \in D!Successors(h, l) : Owners(r) = [holders EXCEPT ![l] = o] /\ Where(r) = D!Released(h, l, o)
  BY <1>3, ReleaseIs
<1> HIDE DEF r
<1>6. CondQ(c) \in BlockQueues
  BY HeadsAre
<1>7. D!Reschedule(h, D!Block(h, Where(r), CondQ(c))) /\ holders' = Owners(r)
  BY <1>1, <1>2, <1>3, <1>4, <1>6, HeadsDiffer, BlockSeen DEF r
<1>8. D!Reschedule(h, D!Block(h, D!Released(h, l, o), CondQ(c)))
  BY <1>5, <1>7
<1> QED BY <1>1, <1>4, <1>5, <1>7, <1>8, SameNames DEF D!CondWait

\* what Dispatch sees when the waiters W of a condition are woken
LEMMA ReacquireSeen ==
  ASSUME IInv, NEW new, NEW k, Fit(new, {}, k), NEW W \in SUBSET Tasks, Reacquired(Here, new, W),
         Commit(new), UNCHANGED <<current, parent, mutexIdx>>
  PROVE  D!Reacquire(W)
<1>1. /\ places = Where(Here) /\ holders = Owners(Here)
      /\ new \in Snap /\ Linked(new, {})
  BY Seen DEF Fit
<1>2. places' = Where(new) /\ holders' = Owners(new)
  BY <1>1, CommitIs, SeenNext
<1>3. Where(new) = [u \in Tasks |-> Where(new)[u]]
  BY DEF Where
<1>4. PICK own : own = Owners(new)
  OBVIOUS
<1>5. own \in [Locks -> Procs \cup {None}]
  BY <1>4, OwnersType
<1> HIDE DEF Where, Owners
<1>6. \A m \in Locks : own[m] \in IF holders[m] = None THEN D!Heirs(D!Wants(W, m)) ELSE {holders[m]}
  BY <1>1, <1>4 DEF Reacquired, D!Wants
<1>7. places' = [t \in Tasks |-> IF t \notin W THEN places[t]
                                 ELSE IF holders[mutexIdx[t]] = None /\ own[mutexIdx[t]] = t THEN Ready
                                 ELSE LockQ(mutexIdx[t])]
  BY <1>1, <1>2, <1>3, <1>4 DEF Reacquired
<1> QED BY <1>2, <1>4, <1>5, <1>6, <1>7, SameNames DEF D!Reacquire

LEMMA SignalSeen ==
  ASSUME IInv, ~ ZombieActs, NEW h \in Harts, NEW c \in Conds, do_condition_signal(h, c)
  PROVE  D!Signal(h, c)
<1> DEFINE q == queue[CondQ(c)]
<1>1. PICK t \in Procs : /\ Caller(h, t) /\ q # <<>> /\ Commit(WakeWaiter(Here, Head(q)))
                         /\ UNCHANGED <<current, parent, mutexIdx>>
  BY DEF do_condition_signal
<1>2. Fit(Here, {}, Start({})) /\ Start({}).mi = mutexIdx /\ Here.queue[CondQ(c)] = q
  BY <1>1, StartFit DEF Start, Here
<1>3. q \in Seq(Tasks) /\ IsInjective(q)
  BY <1>2, SnapIs, HeadsAre DEF Fit, Linked
<1>4. Head(q) \in In(Here, CondQ(c))
  BY <1>1, <1>2, <1>3, TailIs DEF In
<1> HIDE DEF q
<1> DEFINE u == Head(q)
           s == WakeWaiter(Here, u)
<1>5. Fit(s, {}, Start({})) /\ Reacquired(Here, s, {u}) /\ {u} \in SUBSET Tasks
  BY <1>2, <1>4, WakeWaiterFit, WakeWaiterIs DEF Tasks
<1>6. D!Calls(h) /\ u \in D!At(places, CondQ(c))
  BY <1>1, <1>4, CallerRuns, RunsCalls, AtIs, HeadsAre, Unfolded
<1> HIDE DEF u
<1>7. D!Reacquire({u})
  BY <1>1, <1>5, ReacquireSeen DEF u
<1> QED BY <1>6, <1>7, SameNames DEF D!Signal

LEMMA ConditionBroadcastSeen ==
  ASSUME IInv, ~ ZombieActs, NEW h \in Harts, NEW c \in Conds, do_condition_broadcast(h, c)
  PROVE  D!Broadcast(h, c)
<1> DEFINE s == FoldLeft(WakeWaiter, Here, Here.queue[CondQ(c)])
           W == In(Here, CondQ(c))
<1>1. PICK t \in Procs : Caller(h, t) /\ Commit(s) /\ UNCHANGED <<current, parent, mutexIdx>>
  BY DEF do_condition_broadcast, Here
<1>2. Fit(Here, {}, Start({})) /\ Start({}).mi = mutexIdx
  BY <1>1, StartFit DEF Start
<1>3. Fit(s, {}, Start({})) /\ Reacquired(Here, s, W)
  BY <1>2, BroadcastIs
<1>4. D!Calls(h) /\ D!At(places, CondQ(c)) = W /\ W \in SUBSET Tasks
  BY <1>1, CallerRuns, RunsCalls, AtIs, HeadsAre, SnapIs, Unfolded
<1> HIDE DEF s, W
<1>5. D!Reacquire(W)
  BY <1>1, <1>3, <1>4, ReacquireSeen
<1> QED BY <1>4, <1>5, SameNames DEF D!Broadcast

\* a full barrier lets all who wait there go, another one holds the caller back
LEMMA BarrierWaitIs ==
  ASSUME IInv, ~ ZombieActs, NEW h \in Harts, NEW b \in Bars, do_barrier_wait(h, b)
  PROVE  /\ D!Calls(h) /\ holders' = holders /\ UNCHANGED <<parent, mutexIdx>>
         /\ IF Full(b) THEN places' = D!Wake(places, D!At(places, BarQ(b))) /\ UNCHANGED current
                       ELSE D!Reschedule(h, D!Block(h, places, BarQ(b)))
<1>1. PICK t \in Procs :
        /\ Caller(h, t) /\ UNCHANGED <<parent, mutexIdx>>
        /\ IF Full(b) THEN Commit(UnblockAll(Here, BarQ(b))) /\ UNCHANGED current
                      ELSE Reschedule(h, do_block(Here, t, BarQ(b)))
  BY DEF do_barrier_wait
<1>2. Runs(h, t) /\ \A ex : Fit(Here, {}, Start(ex))
  BY <1>1, CallerRuns, StartFit
<1>3. /\ BarQ(b) \in BlockQueues /\ BarQ(b) \in Queues /\ Here.status[t] = "RUNNING"
      /\ (\A l \in Locks : BarQ(b) # LockQ(l)) /\ (\A c \in Conds : BarQ(b) # CondQ(c))
      /\ \A p \in Procs : BarQ(b) # WaitQ(p)
  BY <1>2, HeadsAre, HeadsDiffer DEF Runs
<1>4. D!Calls(h) /\ places = Where(Here) /\ holders = Owners(Here)
  BY <1>2, RunsCalls
<1>5. CASE Full(b)
  <2> DEFINE s == UnblockAll(Here, BarQ(b))
  <2>1. Fit(s, {}, Start({})) /\ Woken(Here, s, BarQ(b)) /\ In(s, BarQ(b)) = {}
    BY <1>2, <1>3, UnblockAllFit
  <2> HIDE DEF s
  <2>2. places' = Where(s) /\ holders' = Owners(s)
    BY <1>1, <1>5, <2>1, CommitSeen DEF s
  <2>3. /\ \A u \in Tasks : Where(s)[u] = IF u \in In(Here, BarQ(b)) THEN Ready ELSE places[u]
        /\ Owners(s) = holders
    BY <1>2, <1>3, <1>4, <2>1, WokenPlaces
  <2>4. D!At(places, BarQ(b)) = In(Here, BarQ(b))
    BY <1>3, <1>4, AtIs, Unfolded
  <2>5. Where(s) = [u \in Tasks |-> Where(s)[u]]
    BY DEF Where
  <2> HIDE DEF Where
  <2>6. places' = D!Wake(places, D!At(places, BarQ(b)))
    BY <2>2, <2>3, <2>4, <2>5, SameNames DEF D!Wake
  <2> QED BY <1>1, <1>4, <1>5, <2>2, <2>3, <2>6
<1>6. CASE ~ Full(b)
  <2>1. D!Reschedule(h, D!Block(h, Where(Here), BarQ(b))) /\ holders' = Owners(Here)
    BY <1>1, <1>2, <1>3, <1>6, BlockSeen
  <2> QED BY <1>1, <1>4, <1>6, <2>1
<1> QED BY <1>5, <1>6

LEMMA BarrierWaitSeen ==
  ASSUME IInv, ~ ZombieActs, NEW h \in Harts, NEW b \in Bars, do_barrier_wait(h, b)
  PROVE  D!BarrierWait(h, b)
BY BarrierWaitIs, SameNames DEF D!BarrierWait

\* a step that leaves the tasks and the mutexes alone is no step of Dispatch
LEMMA QuietSeen ==
  ASSUME UNCHANGED <<current, status, queue, parent, locked, owner, mutexIdx>>
  PROVE  UNCHANGED D!vars
<1>1. places' = places
  BY DEF places, Place
<1>2. holders' = holders
  BY DEF holders
<1> QED BY <1>1, <1>2 DEF D!vars

LEMMA StepSeen ==
  ASSUME ~ ZombieActs, ~ ReuseOnCPU, IInv, [Next]_vars
  PROVE  [D!Next]_(D!vars)
<1>1. ASSUME NEW h \in Harts, Timer(h) PROVE D!Next
  BY <1>1, TimerSeen DEF D!Next
<1>2. ASSUME NEW h \in Harts, do_exec(h) \/ do_thread_create(h) PROVE D!Next
  BY <1>2, ExecSeen DEF D!Next
<1>3. ASSUME NEW h \in Harts, do_exit(h) \/ do_sleep(h) PROVE D!Next
  BY <1>3, ExitSeen, SleepSeen DEF D!Next
<1>4. ASSUME NEW h \in Harts, NEW p \in Procs, sys_kill(h, p) \/ do_waitpid(h, p) PROVE D!Next
  BY <1>4, KillSeen, WaitpidSeen DEF D!Next
<1>5. ASSUME NEW h \in Harts, NEW l \in Locks, do_mutex_lock_acquire(h, l) \/ LockRelease(h, l) PROVE D!Next
  BY <1>5, AcquireSeen, LockReleaseSeen DEF D!Next
<1>6. ASSUME NEW h \in Harts, NEW c \in Conds, NEW l \in Locks, do_condition_wait(h, c, l) PROVE D!Next
  BY <1>6, ConditionWaitSeen DEF D!Next
<1>7. ASSUME NEW h \in Harts, NEW c \in Conds, do_condition_signal(h, c) \/ do_condition_broadcast(h, c)
      PROVE  D!Next
  BY <1>7, SignalSeen, ConditionBroadcastSeen DEF D!Next
<1>8. ASSUME NEW h \in Harts, NEW b \in Bars,
             (\E g \in Goals : do_barrier_init(h, b, g)) \/ do_barrier_destroy(h, b)
      PROVE  UNCHANGED D!vars
  BY <1>8, QuietSeen DEF do_barrier_init, do_barrier_destroy
<1>9. ASSUME NEW h \in Harts, NEW b \in Bars, do_barrier_wait(h, b) PROVE D!Next
  BY <1>9, BarrierWaitSeen DEF D!Next
<1>10. CASE UNCHANGED vars
  BY <1>10, QuietSeen DEF vars
<1> QED BY <1>1, <1>2, <1>3, <1>4, <1>5, <1>6, <1>7, <1>8, <1>9, <1>10 DEF Next, Syscall

LEMMA InitSeen ==
  ASSUME Init
  PROVE  D!Init
<1>1. 0 \in Procs /\ Procs \cap Idles = {}
  BY KernelAssumption, TasksAssumption DEF KernelAssumption, TasksAssumption
<1>2. current \in [Harts -> Idles] /\ \A g, h \in Harts : current[g] = current[h] => g = h
  BY DEF Init, IsInjective
<1>3. /\ places = Where(Here) /\ holders = Owners(Here)
      /\ Here \in Snap /\ Linked(Here, {}) /\ Here.status = status
  BY InitFit, Seen, Unfolded
<1>4. \A t \in Tasks : status[t] = IF t \in Idles THEN "RUNNING" ELSE IF t = 0 THEN "READY" ELSE "EXITED"
  BY DEF Init
<1>5. \A t \in Tasks : places[t] = IF t \in Idles THEN OnCPU ELSE IF t = 0 THEN Ready ELSE Exited
  BY <1>3, <1>4, WhereIs
<1>6. places = [t \in Tasks |-> IF t \in Idles THEN OnCPU ELSE IF t = 0 THEN Ready ELSE Exited]
  <2>1. places = [t \in Tasks |-> places[t]]
    BY <1>3 DEF Where
  <2> HIDE DEF places
  <2> QED BY <1>5, <2>1
<1>7. holders = [l \in Locks |-> None]
  BY DEF Init, holders
<1>8. parent = [p \in Procs |-> None] /\ mutexIdx = [p \in Procs |-> None]
  BY DEF Init
<1>9. \E shell \in Procs :
        places = [t \in Tasks |-> IF t \in Idles THEN OnCPU ELSE IF t = shell THEN Ready ELSE Exited]
  BY <1>1, <1>6
<1> QED BY <1>2, <1>7, <1>8, <1>9, SameNames DEF D!Init

\* the mutex_idx of a task is its own to change
LEMMA MutexIdxStays ==
  ASSUME IInv, ~ ZombieActs, [Next]_vars, NEW t \in Procs, status[t] = "BLOCKED"
  PROVE  mutexIdx'[t] = mutexIdx[t]
<1>1. ASSUME NEW h \in Harts, NEW c \in Conds, NEW l \in Locks, do_condition_wait(h, c, l)
      PROVE  mutexIdx'[t] = mutexIdx[t]
  <2>1. PICK u \in Procs : Caller(h, u) /\ mutexIdx' = [mutexIdx EXCEPT ![u] = l]
    BY <1>1 DEF do_condition_wait
  <2>2. u # t
    BY <2>1, CallerRuns DEF Runs
  <2> QED BY <2>1, <2>2 DEF IInv
<1>2. CASE UNCHANGED mutexIdx
  BY <1>2
<1> QED
  BY <1>1, <1>2
  DEF Next, Syscall, vars, Timer, do_exec, do_thread_create, Launch, do_exit, do_sleep, sys_kill, do_waitpid,
      do_mutex_lock_acquire, LockRelease, do_condition_signal, do_condition_broadcast,
      do_barrier_init, do_barrier_wait, do_barrier_destroy

(***************************************************************************)
(* Barriers.  NotBar: a place that is no barrier.  Stays: a task that      *)
(* moves neither comes from a barrier nor goes to one.                     *)
(***************************************************************************)
NotBar(x) == \A b \in Bars : x # BarQ(b)

Stays(pl, pl2) == \A u \in Tasks : pl2[u] = pl[u] \/ (NotBar(pl[u]) /\ NotBar(pl2[u]))

LEMMA NotBars ==
  /\ NotBar(Exited) /\ NotBar(OnCPU) /\ NotBar(Ready) /\ NotBar(Sleeping)
  /\ \A x : NotBar(LockQ(x)) /\ NotBar(CondQ(x)) /\ NotBar(WaitQ(x))
  /\ \A a, b : BarQ(a) = BarQ(b) => a = b
BY DEF NotBar, Exited, OnCPU, Ready, Sleeping, LockQ, CondQ, WaitQ, BarQ

LEMMA StaysTwice ==
  ASSUME NEW p, NEW q, NEW r, Stays(p, q), Stays(q, r)
  PROVE  Stays(p, r)
BY DEF Stays

LEMMA StaysAt ==
  ASSUME NEW p, NEW q, Stays(p, q), NEW b \in Bars
  PROVE  D!At(q, BarQ(b)) = D!At(p, BarQ(b))
BY SameNames DEF D!At, Stays, NotBar

LEMMA WakeStays ==
  ASSUME NEW pl, NEW W, \A u \in Tasks \cap W : NotBar(pl[u])
  PROVE  Stays(pl, D!Wake(pl, W))
<1>1. \A u \in Tasks : D!Wake(pl, W)[u] = IF u \in W THEN Ready ELSE pl[u]
  BY SameNames DEF D!Wake
<1> QED BY <1>1, NotBars DEF Stays

LEMMA RescheduleStays ==
  ASSUME current \in [Harts -> Tasks], NEW h \in Harts, NEW pl, DOMAIN pl = Tasks, D!Reschedule(h, pl)
  PROVE  Stays(pl, places')
<1>1. PICK due \in SUBSET D!At(pl, Sleeping) : D!Switch(h, D!Wake(pl, due))
  BY SameNames DEF D!Reschedule
<1>2. PICK p : p = D!Wake(pl, due)
  OBVIOUS
<1>3. Stays(pl, p)
  BY <1>1, <1>2, NotBars, WakeStays, SameNames DEF D!At
<1>4. DOMAIN p = Tasks
  BY <1>2, SameNames DEF D!Wake
<1>5. Stays(p, places')
  <2>1. CASE places' = p
    BY <2>1 DEF Stays
  <2>2. ASSUME NEW next \in D!Candidates(h, p), places' = D!Dispatched(h, p, next)
        PROVE  Stays(p, places')
    <3>1. next \in Tasks /\ p[next] = Ready
      BY SameNames DEF D!Candidates, D!At
    <3> DEFINE me == current[h]
               c == [p EXCEPT ![next] = OnCPU]
    <3>2. PICK r : r = places'
      OBVIOUS
    <3>3. r = [c EXCEPT ![me] = IF c[me] = OnCPU THEN Ready ELSE c[me]]
      BY <2>2, <3>2, SameNames DEF D!Dispatched
    <3>4. \A u \in Tasks : r[u] = c[u] \/ (c[u] = OnCPU /\ r[u] = Ready)
      BY <1>4, <3>3
    <3>5. \A u \in Tasks : c[u] = p[u] \/ (p[u] = Ready /\ c[u] = OnCPU)
      BY <1>4, <3>1
    <3> HIDE DEF c
    <3>6. Stays(p, c) /\ Stays(c, r)
      BY <3>4, <3>5, NotBars DEF Stays
    <3> QED BY <3>2, <3>6, StaysTwice
  <2> QED BY <1>1, <1>2, <2>1, <2>2 DEF D!Switch
<1> QED BY <1>3, <1>5, StaysTwice

\* the caller comes from a CPU
LEMMA BlockStays ==
  ASSUME NEW h \in Harts, NEW pl, DOMAIN pl = Tasks, current[h] \in Tasks, NotBar(pl[current[h]]),
         NEW x, NotBar(x)
  PROVE  Stays(pl, D!Block(h, pl, x)) /\ DOMAIN D!Block(h, pl, x) = Tasks
BY DEF D!Block, Stays

LEMMA PlacesAre ==
  ASSUME IInv
  PROVE  /\ DOMAIN places = Tasks /\ current \in [Harts -> Tasks]
         /\ \A x \in Queues : D!At(places, x) = Range(queue[x])
<1>1. places = Where(Here) /\ \A x \in Queues : D!At(places, x) = In(Here, x)
  BY Seen, Unfolded, AtIs
<1> QED BY <1>1, Unfolded DEF Where, Placed, Now

\* a caller that blocks where no barrier is, whatever was done before it blocks
LEMMA BlockedStays ==
  ASSUME IInv, NEW h \in Harts, D!Calls(h), NEW pl, DOMAIN pl = Tasks, Stays(places, pl), NEW x, NotBar(x),
         D!Reschedule(h, D!Block(h, pl, x))
  PROVE  Stays(places, places')
<1>1. current \in [Harts -> Tasks] /\ places[current[h]] = OnCPU
  BY PlacesAre, SameNames DEF D!Calls
<1>2. NotBar(pl[current[h]])
  BY <1>1, NotBars DEF Stays
<1>3. PICK p : p = D!Block(h, pl, x)
  OBVIOUS
<1>4. Stays(pl, p) /\ DOMAIN p = Tasks
  BY <1>1, <1>2, <1>3, BlockStays
<1>5. Stays(p, places')
  BY <1>1, <1>3, <1>4, RescheduleStays
<1> QED BY <1>4, <1>5, StaysTwice

LEMMA ReleasedStays ==
  ASSUME IInv, NEW h \in Harts, NEW l \in Locks, NEW o \in D!Successors(h, l)
  PROVE  Stays(places, D!Released(h, l, o)) /\ DOMAIN D!Released(h, l, o) = Tasks
<1>1. CASE holders[l] = current[h]
  <2>1. o \in Tasks => places[o] = LockQ(l)
    <3>1. o \in D!Heirs(D!At(places, LockQ(l)))
      BY <1>1, SameNames DEF D!Successors
    <3>2. o = None \/ o \in D!At(places, LockQ(l))
      BY <3>1 DEF D!Heirs
    <3>3. None \notin Tasks
      BY TasksAssumption DEF Tasks, TasksAssumption
    <3> QED BY <3>2, <3>3 DEF D!At
  <2>2. D!Released(h, l, o) = D!Wake(places, {o})
    BY <1>1 DEF D!Released
  <2>3. Stays(places, D!Wake(places, {o}))
    BY <2>1, NotBars, WakeStays
  <2>4. DOMAIN D!Wake(places, {o}) = Tasks
    BY SameNames DEF D!Wake
  <2> QED BY <2>2, <2>3, <2>4
<1>2. CASE holders[l] # current[h]
  BY <1>2, PlacesAre DEF D!Released, Stays
<1> QED BY <1>1, <1>2

LEMMA KilledStays ==
  ASSUME IInv, NEW K, \A u \in K : NotBar(places[u]), NEW heir, D!Inherits(K, heir)
  PROVE  Stays(places, D!Killed(K, heir)) /\ DOMAIN D!Killed(K, heir) = Tasks
<1> DEFINE r == D!Killed(K, heir)
<1>1. DOMAIN r = Tasks /\ \A u \in Tasks : r[u] =
        IF u \in K THEN Exited
        ELSE IF \/ \E k \in K : places[u] = WaitQ(k)
                \/ \E l \in Locks : holders[l] \in K /\ heir[l] = u
          THEN Ready ELSE places[u]
  BY SameNames DEF D!Killed
<1>2. ASSUME NEW u \in Tasks, NEW l \in Locks, holders[l] \in K, heir[l] = u PROVE places[u] = LockQ(l)
  <2>1. heir[l] \in D!Heirs(D!At(places, LockQ(l)) \ K)
    BY <1>2, SameNames DEF D!Inherits
  <2>2. None \notin Tasks
    BY TasksAssumption DEF Tasks, TasksAssumption
  <2> QED BY <1>2, <2>1, <2>2 DEF D!Heirs, D!At
<1> HIDE DEF r
<1>3. ASSUME NEW u \in Tasks, r[u] # places[u] PROVE NotBar(places[u]) /\ NotBar(r[u])
  BY <1>1, <1>2, <1>3, NotBars
<1>4. Stays(places, r)
  BY <1>3 DEF Stays
<1> QED BY <1>1, <1>4 DEF r

LEMMA ReacquireStays ==
  ASSUME IInv, NEW W, \A u \in Tasks \cap W : NotBar(places[u]), D!Reacquire(W)
  PROVE  Stays(places, places')
<1>1. \A u \in Tasks : places'[u] = places[u] \/ (u \in W /\ (places'[u] = Ready \/ places'[u] = LockQ(mutexIdx[u])))
  BY SameNames DEF D!Reacquire
<1> QED BY <1>1, NotBars DEF Stays

\* no other handler moves a task to a barrier or from one
LEMMA OthersStay ==
  ASSUME IInv, ~ ZombieActs, ~ ReuseOnCPU, ~ KillAtBarrier, [Next]_vars,
         ~ \E h \in Harts : \E b \in Bars : do_barrier_wait(h, b)
  PROVE  Stays(places, places')
<1>0. /\ DOMAIN places = Tasks /\ current \in [Harts -> Tasks] /\ Stays(places, places)
      /\ \A x \in Queues : D!At(places, x) = Range(queue[x])
  BY PlacesAre DEF Stays
<1>1. ASSUME NEW h \in Harts, Timer(h) PROVE Stays(places, places')
  BY <1>0, <1>1, TimerSeen, RescheduleStays DEF D!Timer
<1>2. ASSUME NEW h \in Harts, do_exec(h) \/ do_thread_create(h) PROVE Stays(places, places')
  <2>1. PICK j, par : D!Launch(h, j, par)
    BY <1>2, ExecSeen
  <2>2. places[j] = Exited /\ \A u \in Tasks : places'[u] = IF u = j THEN Ready ELSE places[u]
    BY <1>0, <2>1, SameNames DEF D!Launch
  <2> QED BY <2>2, NotBars DEF Stays
<1>3. ASSUME NEW p \in Procs, NEW S \in SUBSET Procs, D!Family(p) = S \cup {p}, MayKill(S), NotBar(places[p])
      PROVE  \A u \in D!Family(p) : NotBar(places[u])
  <2>1. ASSUME NEW u \in S, NEW b \in Bars PROVE places[u] # BarQ(b)
    <3>1. u \notin Range(queue[BarQ(b)]) /\ u \in Tasks
      BY <1>3 DEF MayKill, Tasks
    <3> QED BY <1>0, <3>1, HeadsAre, SameNames DEF D!At
  <2> QED BY <1>3, <2>1 DEF NotBar
<1>4. ASSUME NEW p \in Procs PROVE D!Family(p) = Children(p) \cup {p}
  <2>1. places = Where(Here) /\ Here \in Snap /\ Linked(Here, {}) /\ Here.status = status
    BY Seen, Unfolded
  <2>2. \A c \in Procs : status[c] = "EXITED" <=> places[c] = Exited
    BY <2>1, WhereIs DEF Tasks
  <2> QED BY <2>2, SameNames DEF D!Family, Children
<1>5. ASSUME NEW h \in Harts, do_exit(h) PROVE Stays(places, places')
  <2>1. D!Calls(h) /\ MayKill(Children(current[h])) /\ current[h] \in Procs
    BY <1>5, ExitSeen DEF do_exit, Caller, D!Exit
  <2>2. PICK heir : /\ D!Inherits(D!Family(current[h]), heir)
                    /\ D!Reschedule(h, D!Killed(D!Family(current[h]), heir))
    BY <1>5, ExitSeen DEF D!Exit
  <2>3. NotBar(places[current[h]])
    BY <2>1, NotBars, SameNames DEF D!Calls
  <2>4. \A u \in D!Family(current[h]) : NotBar(places[u])
    <3>1. Children(current[h]) \in SUBSET Procs
      BY DEF Children
    <3> QED BY <1>3, <1>4, <2>1, <2>3, <3>1
  <2>5. PICK p : p = D!Killed(D!Family(current[h]), heir)
    OBVIOUS
  <2>6. Stays(places, p) /\ DOMAIN p = Tasks
    BY <2>2, <2>4, <2>5, KilledStays
  <2>7. Stays(p, places')
    BY <1>0, <2>2, <2>5, <2>6, RescheduleStays
  <2> QED BY <2>6, <2>7, StaysTwice
<1>6. ASSUME NEW h \in Harts, NEW p \in Procs, sys_kill(h, p) PROVE Stays(places, places')
  <2>1. MayKill(Children(p) \cup {p})
    BY <1>6 DEF sys_kill
  <2>2. PICK heir : /\ D!Inherits(D!Family(p), heir) /\ places' = D!Killed(D!Family(p), heir)
    BY <1>6, KillSeen DEF D!Kill
  <2>3. MayKill(Children(p)) /\ NotBar(places[p])
    <3>1. \A b \in Bars : p \notin Range(queue[BarQ(b)])
      BY <2>1 DEF MayKill
    <3>2. NotBar(places[p])
      BY <1>0, <3>1, HeadsAre, SameNames DEF NotBar, D!At, Tasks
    <3> QED BY <2>1, <3>2 DEF MayKill
  <2>4. \A u \in D!Family(p) : NotBar(places[u])
    <3>1. Children(p) \in SUBSET Procs
      BY DEF Children
    <3> QED BY <1>3, <1>4, <2>3, <3>1
  <2> QED BY <2>2, <2>4, KilledStays
<1>7. ASSUME NEW h \in Harts, NEW p \in Procs, do_waitpid(h, p) PROVE Stays(places, places')
  BY <1>0, <1>7, WaitpidSeen, NotBars, BlockedStays, SameNames DEF D!Waitpid
<1>8. ASSUME NEW h \in Harts, do_sleep(h) PROVE Stays(places, places')
  BY <1>0, <1>8, SleepSeen, NotBars, BlockedStays, SameNames DEF D!Sleep
<1>9. ASSUME NEW h \in Harts, NEW l \in Locks, do_mutex_lock_acquire(h, l) PROVE Stays(places, places')
  <2>1. D!Calls(h) /\ (places' = places \/ D!Reschedule(h, D!Block(h, places, LockQ(l))))
    BY <1>9, AcquireSeen, SameNames DEF D!Acquire
  <2> QED BY <1>0, <2>1, NotBars, BlockedStays
<1>10. ASSUME NEW h \in Harts, NEW l \in Locks, LockRelease(h, l) PROVE Stays(places, places')
  BY <1>10, LockReleaseSeen, ReleasedStays DEF D!Release
<1>11. ASSUME NEW h \in Harts, NEW c \in Conds, NEW l \in Locks, do_condition_wait(h, c, l)
       PROVE  Stays(places, places')
  <2>1. PICK o \in D!Successors(h, l) : D!Calls(h) /\ D!Reschedule(h, D!Block(h, D!Released(h, l, o), CondQ(c)))
    BY <1>11, ConditionWaitSeen, SameNames DEF D!CondWait
  <2>2. PICK p : p = D!Released(h, l, o)
    OBVIOUS
  <2>3. Stays(places, p) /\ DOMAIN p = Tasks
    BY <2>2, ReleasedStays
  <2> QED BY <2>1, <2>2, <2>3, NotBars, BlockedStays
<1>12. ASSUME NEW h \in Harts, NEW c \in Conds, do_condition_signal(h, c) \/ do_condition_broadcast(h, c)
       PROVE  Stays(places, places')
  <2>1. PICK W \in SUBSET D!At(places, CondQ(c)) : D!Reacquire(W)
    BY <1>12, SignalSeen, ConditionBroadcastSeen, SameNames DEF D!Signal, D!Broadcast
  <2> QED BY <2>1, NotBars, ReacquireStays DEF D!At
<1>13. ASSUME UNCHANGED places PROVE Stays(places, places')
  BY <1>13 DEF Stays
<1>14. ASSUME NEW h \in Harts, NEW b \in Bars,
              (\E g \in Goals : do_barrier_init(h, b, g)) \/ do_barrier_destroy(h, b)
       PROVE  UNCHANGED places
  BY <1>14, QuietSeen DEF do_barrier_init, do_barrier_destroy, D!vars
<1>15. CASE UNCHANGED vars
  BY <1>13, <1>15, QuietSeen DEF vars, D!vars
<1> QED BY <1>1, <1>2, <1>5, <1>6, <1>7, <1>8, <1>9, <1>10, <1>11, <1>12, <1>13, <1>14, <1>15 DEF Next, Syscall

LEMMA BarrierStep ==
  ASSUME IInv, ~ ZombieActs, NEW h \in Harts, NEW b \in Bars, do_barrier_wait(h, b)
  PROVE  /\ current[h] \notin D!At(places, BarQ(b))
         /\ \A a \in Bars : D!At(places', BarQ(a)) =
              IF a # b THEN D!At(places, BarQ(a))
              ELSE IF Full(b) THEN {} ELSE D!At(places, BarQ(b)) \cup {current[h]}
<1>1. /\ D!Calls(h)
      /\ IF Full(b) THEN places' = D!Wake(places, D!At(places, BarQ(b)))
                    ELSE D!Reschedule(h, D!Block(h, places, BarQ(b)))
  BY BarrierWaitIs
<1>2. /\ DOMAIN places = Tasks /\ current \in [Harts -> Tasks] /\ places[current[h]] = OnCPU
      /\ NotBar(places[current[h]])
  BY <1>1, PlacesAre, NotBars, SameNames DEF D!Calls
<1>3. CASE Full(b)
  <2>1. \A u \in Tasks : places'[u] = IF places[u] = BarQ(b) THEN Ready ELSE places[u]
    BY <1>1, <1>3, SameNames DEF D!Wake, D!At
  <2>2. \A a \in Bars : D!At(places', BarQ(a)) = IF a # b THEN D!At(places, BarQ(a)) ELSE {}
    BY <2>1, NotBars, SameNames DEF D!At, NotBar
  <2> QED BY <1>2, <1>3, <2>2 DEF D!At, NotBar
<1>4. CASE ~ Full(b)
  <2>1. PICK p : p = D!Block(h, places, BarQ(b))
    OBVIOUS
  <2>2. DOMAIN p = Tasks /\ \A u \in Tasks : p[u] = IF u = current[h] THEN BarQ(b) ELSE places[u]
    BY <1>2, <2>1 DEF D!Block
  <2>3. Stays(p, places')
    BY <1>1, <1>2, <1>4, <2>1, <2>2, RescheduleStays
  <2>4. \A a \in Bars : D!At(places', BarQ(a)) = D!At(p, BarQ(a))
    BY <2>3, StaysAt
  <2>5. \A a \in Bars : D!At(p, BarQ(a)) = IF a # b THEN D!At(places, BarQ(a))
                                           ELSE D!At(places, BarQ(b)) \cup {current[h]}
    BY <1>2, <2>2, NotBars, SameNames DEF D!At, NotBar
  <2> QED BY <1>2, <1>4, <2>4, <2>5 DEF D!At, NotBar
<1> QED BY <1>3, <1>4

(***************************************************************************)
(* The inductive invariant of the barriers: a barrier counts who waits at  *)
(* it, and one that is set up waits for more.                              *)
(***************************************************************************)
Waiters(b) == Range(queue[BarQ(b)])

Counted ==
  \A b \in Bars : /\ count[b] = Cardinality(Waiters(b))
                  /\ IF goal[b] = None THEN count[b] = 0 ELSE count[b] < goal[b]

LEMMA WaitersAre ==
  ASSUME IInv, NEW b \in Bars
  PROVE  /\ D!At(places, BarQ(b)) = Waiters(b) /\ IsFiniteSet(Waiters(b))
         /\ Len(queue[BarQ(b)]) = Cardinality(Waiters(b))
         /\ queue[BarQ(b)] = <<>> <=> Waiters(b) = {}
<1> DEFINE q == queue[BarQ(b)]
           n == Len(q)
<1>1. q \in Seq(Tasks) /\ IsInjective(q) /\ D!At(places, BarQ(b)) = Waiters(b)
  BY Unfolded, SnapIs, HeadsAre, PlacesAre DEF Linked, Waiters
<1>2. Range(q) = Waiters(b)
  BY DEF Waiters
<1> HIDE DEF q
<1>3. DOMAIN q = 1 .. n /\ n \in Nat
  BY <1>1
<1>4. q \in Bijection(1 .. n, Range(q))
  BY <1>1, <1>3 DEF Bijection, Injection, Surjection, IsInjective, Range
<1>5. ExistsBijection(1 .. n, Range(q))
  BY <1>4 DEF ExistsBijection
<1>6. Cardinality(Range(q)) = n
  BY <1>3, <1>5, FS_CountingElements
<1>7. IsFiniteSet(Range(q))
  BY <1>3, <1>5, FS_NatSurjection, FS_Bijection, FS_Interval
<1>8. q = <<>> <=> Range(q) = {}
  <2>1. q = <<>> => Range(q) = {}
    BY DEF Range
  <2>2. q # <<>> => 1 \in DOMAIN q
    BY <1>1
  <2> QED BY <2>1, <2>2 DEF Range
<1> QED BY <1>1, <1>2, <1>6, <1>7, <1>8 DEF q

\* what a step does to the waiters of all barriers
LEMMA WaitersStep ==
  ASSUME IInv, ~ ZombieActs, ~ ReuseOnCPU, ~ KillAtBarrier, [Next]_vars
  PROVE  \/ /\ \A a \in Bars : Waiters(a)' = Waiters(a)
            /\ ~ \E h \in Harts : \E b \in Bars : do_barrier_wait(h, b)
         \/ \E h \in Harts, b \in Bars :
              /\ do_barrier_wait(h, b) /\ current[h] \notin Waiters(b)
              /\ \A a \in Bars : Waiters(a)' = IF a # b THEN Waiters(a)
                                               ELSE IF Full(b) THEN {} ELSE Waiters(b) \cup {current[h]}
<1>1. \A a \in Bars : D!At(places, BarQ(a)) = Waiters(a)
  BY WaitersAre
<1>2. \A a \in Bars : D!At(places', BarQ(a)) = Waiters(a)'
  <2>1. PICK s : s = Here'
    OBVIOUS
  <2>2. s \in Snap /\ Linked(s, {})
    BY <2>1, StepFit DEF Fit
  <2>3. places' = Where(s)
    BY <2>1, <2>2, SeenNext
  <2>4. s.queue = queue'
    BY <2>1 DEF Here
  <2> QED BY <2>2, <2>3, <2>4, AtIs, HeadsAre DEF In, Waiters
<1>3. CASE ~ \E h \in Harts : \E b \in Bars : do_barrier_wait(h, b)
  <2>1. Stays(places, places')
    BY <1>3, OthersStay
  <2> QED BY <1>1, <1>2, <1>3, <2>1, StaysAt
<1>4. ASSUME NEW h \in Harts, NEW b \in Bars, do_barrier_wait(h, b)
      PROVE  /\ current[h] \notin Waiters(b)
             /\ \A a \in Bars : Waiters(a)' = IF a # b THEN Waiters(a)
                                              ELSE IF Full(b) THEN {} ELSE Waiters(b) \cup {current[h]}
  BY <1>1, <1>2, <1>4, BarrierStep
<1> QED BY <1>3, <1>4

LEMMA CountsStep ==
  ASSUME IInv, [Next]_vars, ~ \E h \in Harts : \E b \in Bars : do_barrier_wait(h, b), NEW a \in Bars
  PROVE  \/ count'[a] = count[a] /\ goal'[a] = goal[a]
         \/ count'[a] = count[a] /\ goal[a] = None /\ goal'[a] \in Goals
         \/ count'[a] = 0 /\ goal'[a] = None /\ Waiters(a) = {}
<1>1. ASSUME NEW h \in Harts, NEW b \in Bars, NEW g \in Goals, do_barrier_init(h, b, g)
      PROVE  count' = count /\ goal[b] = None /\ goal'[b] = g /\ (a # b => goal'[a] = goal[a])
  BY <1>1 DEF do_barrier_init, IInv
<1>2. ASSUME NEW h \in Harts, NEW b \in Bars, do_barrier_destroy(h, b)
      PROVE  \/ a # b /\ count'[a] = count[a] /\ goal'[a] = goal[a]
             \/ a = b /\ count'[a] = 0 /\ goal'[a] = None /\ Waiters(a) = {}
  BY <1>2, WaitersAre DEF do_barrier_destroy, IInv
<1>3. CASE UNCHANGED <<count, goal>>
  BY <1>3
<1> QED
  BY <1>1, <1>2, <1>3
  DEF Next, Syscall, vars, Timer, do_exec, do_thread_create, Launch, do_exit, do_sleep, sys_kill, do_waitpid,
      do_mutex_lock_acquire, LockRelease, do_condition_wait, do_condition_signal, do_condition_broadcast

LEMMA CountedStep ==
  ASSUME IInv, Counted, ~ ZombieActs, ~ ReuseOnCPU, ~ KillAtBarrier, [Next]_vars
  PROVE  Counted'
<1>0. Cardinality({}) = 0 /\ Goals \subseteq Nat \ {0}
  BY FS_EmptySet, KernelAssumption DEF KernelAssumption
<1>1. \A a \in Bars : /\ count[a] = Cardinality(Waiters(a)) /\ count[a] \in Nat
                      /\ goal[a] = None => count[a] = 0
                      /\ goal[a] # None => goal[a] \in Nat /\ 0 < goal[a] /\ count[a] < goal[a]
  <2>1. \A g \in Goals : g \in Nat /\ 0 < g
    BY <1>0
  <2> QED BY <2>1 DEF Counted, IInv
<1>2. CASE ~ \E h \in Harts : \E b \in Bars : do_barrier_wait(h, b)
  <2> SUFFICES ASSUME NEW a \in Bars
               PROVE  /\ count'[a] = Cardinality(Waiters(a)')
                      /\ IF goal'[a] = None THEN count'[a] = 0 ELSE count'[a] < goal'[a]
    BY DEF Counted
  <2>1. Waiters(a)' = Waiters(a)
    BY <1>2, WaitersStep
  <2>2. \/ count'[a] = count[a] /\ goal'[a] = goal[a]
        \/ count'[a] = count[a] /\ goal[a] = None /\ goal'[a] \in Goals
        \/ count'[a] = 0 /\ goal'[a] = None /\ Waiters(a) = {}
    BY <1>2, CountsStep
  <2>3. PICK c, g, d, e, n : c = count[a] /\ g = goal[a] /\ d = count'[a] /\ e = goal'[a] /\ n = Cardinality(Waiters(a))
    OBVIOUS
  <2>4. d = n
    BY <1>0, <1>1, <2>2, <2>3
  <2>5. IF e = None THEN d = 0 ELSE d < e
    <3>1. /\ g = None => c = 0
          /\ g # None => c < g
      BY <1>1, <2>3
    <3>2. g = None /\ e \in Goals => c = 0 /\ 0 < e
      <4>1. \A x \in Goals : 0 < x
        BY <1>0
      <4> QED BY <3>1, <4>1
    <3>3. (d = c /\ e = g) \/ (d = c /\ g = None /\ e \in Goals) \/ (d = 0 /\ e = None)
      BY <2>2, <2>3
    <3> QED BY <3>1, <3>2, <3>3
  <2> QED BY <2>1, <2>3, <2>4, <2>5
<1>3. ASSUME NEW h \in Harts, NEW b \in Bars, do_barrier_wait(h, b), current[h] \notin Waiters(b),
             \A a \in Bars : Waiters(a)' = IF a # b THEN Waiters(a)
                                           ELSE IF Full(b) THEN {} ELSE Waiters(b) \cup {current[h]}
      PROVE  Counted'
  <2>1. \A a \in Bars : count'[a] = (IF a = b THEN Arrived(b) ELSE count[a]) /\ goal'[a] = goal[a]
    BY <1>3 DEF do_barrier_wait, IInv
  <2>2. Cardinality(Waiters(b) \cup {current[h]}) = Cardinality(Waiters(b)) + 1
    BY <1>3, WaitersAre, FS_AddElement
  <2>3. ASSUME NEW a \in Bars, a # b
        PROVE  /\ count'[a] = Cardinality(Waiters(a)')
               /\ IF goal'[a] = None THEN count'[a] = 0 ELSE count'[a] < goal'[a]
    BY <1>1, <1>3, <2>1, <2>3
  <2>4. /\ count'[b] = Cardinality(Waiters(b)')
        /\ IF goal'[b] = None THEN count'[b] = 0 ELSE count'[b] < goal'[b]
    <3>1. CASE Full(b)
      <4>1. count'[b] = 0 /\ goal'[b] = goal[b] /\ Waiters(b)' = {}
        BY <1>3, <2>1, <3>1 DEF Arrived
      <4>2. goal[b] # None => 0 < goal[b]
        BY <1>0, <1>1
      <4> QED BY <1>0, <4>1, <4>2
    <3>2. CASE ~ Full(b)
      <4>1. goal[b] # None /\ ~ (count[b] + 1 >= goal[b]) /\ count'[b] = count[b] + 1
        BY <2>1, <3>2 DEF Full, Arrived
      <4>2. Waiters(b)' = Waiters(b) \cup {current[h]} /\ goal'[b] = goal[b]
        BY <1>3, <2>1, <3>2
      <4>3. goal[b] \in Nat /\ count[b] + 1 < goal[b]
        BY <1>0, <1>1, <4>1
      <4> QED BY <1>1, <2>2, <4>1, <4>2, <4>3
    <3> QED BY <3>1, <3>2
  <2> QED BY <2>3, <2>4 DEF Counted
<1> QED BY <1>2, <1>3, WaitersStep

LEMMA InitCounted ==
  ASSUME Init
  PROVE  Counted
<1>1. \A b \in Bars : Waiters(b) = {}
  <2>1. \A b \in Bars : queue[BarQ(b)] = <<>>
    BY HeadsAre DEF Init
  <2> QED BY <2>1 DEF Waiters, Range
<1> QED BY <1>1, FS_EmptySet DEF Init, Counted

(***************************************************************************)
(* The order of the waiters.  Order: q2 is q without some of its members.  *)
(***************************************************************************)
Order(q2, q) == Range(q2) \subseteq Range(q) /\ \A t, u : Before(q2, t, u) => Before(q, t, u)

LEMMA OrderTwice ==
  ASSUME NEW p, NEW q, NEW r, Order(p, q), Order(q, r)
  PROVE  Order(p, r)
BY DEF Order

\* in a list without doubles a task is before another one or behind it
LEMMA BeforeIs ==
  ASSUME NEW q \in Seq(Tasks), IsInjective(q)
  PROVE  \A t, u \in Range(q) : Before(q, t, u) <=> t # u /\ ~ Before(q, u, t)
<1> DEFINE n == Len(q)
<1>1. n \in Nat /\ DOMAIN q = 1 .. n /\ \A i, j \in 1 .. n : q[i] = q[j] => i = j
  BY DEF IsInjective
<1> HIDE DEF n
<1>2. SUFFICES ASSUME NEW i \in 1 .. n, NEW j \in 1 .. n
               PROVE  Before(q, q[i], q[j]) <=> q[i] # q[j] /\ ~ Before(q, q[j], q[i])
  BY <1>1 DEF Range
<1>3. Before(q, q[i], q[j]) <=> i < j
  BY <1>1 DEF Before
<1>4. Before(q, q[j], q[i]) <=> j < i
  BY <1>1 DEF Before
<1>5. q[i] # q[j] <=> i # j
  BY <1>1
<1> QED BY <1>1, <1>3, <1>4, <1>5

LEMMA RemoveOrder ==
  ASSUME NEW q \in Seq(Tasks), NEW t
  PROVE  /\ Order(RemoveFirst(q, t), q)
         /\ q # <<>> /\ t = Head(q) => \A u \in Range(RemoveFirst(q, t)) : Before(q, t, u)
<1> DEFINE r == RemoveFirst(q, t)
           n == Len(q)
<1>1. n \in Nat /\ DOMAIN q = 1 .. n /\ (q # <<>> => 1 \in 1 .. n /\ Head(q) = q[1])
  OBVIOUS
<1>2. CASE t \notin Range(q) /\ r = q
  <2>1. q # <<>> => Head(q) \in Range(q)
    BY <1>1 DEF Range
  <2> QED BY <1>2, <2>1 DEF Order
<1>3. ASSUME NEW i \in 1 .. n, q[i] = t, r \in Seq(Tasks), Len(r) = n - 1,
             \A k \in 1 .. (n - 1) : r[k] = IF k < i THEN q[k] ELSE q[k + 1]
      PROVE  Order(r, q) /\ (q # <<>> /\ t = Head(q) => \A u \in Range(r) : Before(q, t, u))
  <2> HIDE DEF n
  <2>1. DOMAIN r = 1 .. (n - 1)
    BY <1>3
  <2> HIDE DEF r
  <2> DEFINE to(k) == IF k < i THEN k ELSE k + 1
  <2>2. \A k \in 1 .. (n - 1) : to(k) \in 1 .. n /\ r[k] = q[to(k)]
    BY <1>1, <1>3
  <2>3. \A k, m \in 1 .. (n - 1) : k < m => to(k) < to(m)
    BY <1>1
  <2>4. \A k \in 1 .. (n - 1) : to(k) = 1 => 1 < i
    BY <1>1
  <2> HIDE DEF to
  <2>5. Range(r) \subseteq Range(q)
    BY <1>1, <2>1, <2>2 DEF Range
  <2>6. ASSUME NEW a, NEW c, Before(r, a, c) PROVE Before(q, a, c)
    <3>1. PICK k \in 1 .. (n - 1), m \in 1 .. (n - 1) : k < m /\ r[k] = a /\ r[m] = c
      BY <2>1, <2>6 DEF Before
    <3>2. to(k) \in DOMAIN q /\ to(m) \in DOMAIN q /\ q[to(k)] = a /\ q[to(m)] = c /\ to(k) < to(m)
      BY <1>1, <2>2, <2>3, <3>1
    <3> QED BY <3>2 DEF Before
  <2>7. ASSUME q # <<>>, t = Head(q), NEW u \in Range(r) PROVE Before(q, t, u)
    <3>1. PICK k \in 1 .. (n - 1) : u = r[k]
      BY <2>1 DEF Range
    <3>2. 1 \in DOMAIN q /\ q[1] = t /\ to(k) \in 1 .. n /\ u = q[to(k)]
      BY <1>1, <2>2, <2>7, <3>1
    <3>3. CASE to(k) = 1
      <4>1. 1 < i /\ i \in DOMAIN q /\ u = q[i]
        BY <1>1, <1>3, <2>4, <3>2, <3>3
      <4> QED BY <3>2, <4>1, <1>3 DEF Before
    <3>4. CASE to(k) # 1
      <4>1. 1 < to(k) /\ to(k) \in DOMAIN q
        BY <1>1, <3>2, <3>4
      <4> QED BY <3>2, <4>1 DEF Before
    <3> QED BY <3>3, <3>4
  <2> QED BY <2>5, <2>6, <2>7 DEF Order
<1> HIDE DEF r, n
<1>4. \/ t \notin Range(q) /\ r = q
      \/ \E i \in 1 .. n : /\ q[i] = t /\ r \in Seq(Tasks) /\ Len(r) = n - 1
                           /\ \A k \in 1 .. (n - 1) : r[k] = IF k < i THEN q[k] ELSE q[k + 1]
  BY RemoveFirstIs DEF r, n
<1>5. CASE t \notin Range(q) /\ r = q
  BY <1>2, <1>5 DEF r
<1>6. ASSUME NEW i \in 1 .. n, q[i] = t, r \in Seq(Tasks), Len(r) = n - 1,
             \A k \in 1 .. (n - 1) : r[k] = IF k < i THEN q[k] ELSE q[k + 1]
      PROVE  Order(r, q) /\ (q # <<>> /\ t = Head(q) => \A u \in Range(r) : Before(q, t, u))
  BY <1>3, <1>6
<1> QED BY <1>4, <1>5, <1>6 DEF r

\* nobody joins the queue of a mutex, overtakes there or becomes an owner
Quiet(s, new) ==
  new.owner = s.owner /\ \A l \in Locks : Order(new.queue[LockQ(l)], s.queue[LockQ(l)])

(***************************************************************************)
(* Since b the queues of mutexes have only lost members, and a new owner   *)
(* was in the queue, ahead of all who are still there.                     *)
(***************************************************************************)
Lined(b, s) ==
  /\ s \in Snap
  /\ \A l \in Locks :
       /\ Order(s.queue[LockQ(l)], b.queue[LockQ(l)])
       /\ s.owner[l] # b.owner[l] =>
            /\ s.owner[l] \in Range(b.queue[LockQ(l)])
            /\ \A t \in Range(s.queue[LockQ(l)]) : Before(b.queue[LockQ(l)], s.owner[l], t)

LEMMA QuietLined ==
  ASSUME NEW b, NEW s, NEW new \in Snap, Lined(b, s), Quiet(s, new)
  PROVE  Lined(b, new)
<1> SUFFICES ASSUME NEW l \in Locks
             PROVE  /\ Order(new.queue[LockQ(l)], b.queue[LockQ(l)])
                    /\ new.owner[l] # b.owner[l] =>
                         /\ new.owner[l] \in Range(b.queue[LockQ(l)])
                         /\ \A t \in Range(new.queue[LockQ(l)]) : Before(b.queue[LockQ(l)], new.owner[l], t)
  BY DEF Lined
<1>1. Order(new.queue[LockQ(l)], s.queue[LockQ(l)]) /\ new.owner[l] = s.owner[l]
  BY DEF Quiet
<1>2. Order(new.queue[LockQ(l)], b.queue[LockQ(l)])
  BY <1>1, OrderTwice DEF Lined
<1>3. Range(new.queue[LockQ(l)]) \subseteq Range(s.queue[LockQ(l)])
  BY <1>1 DEF Order
<1> QED BY <1>1, <1>2, <1>3 DEF Lined

LEMMA RemovedQuiet ==
  ASSUME NEW s \in Snap, NEW t
  PROVE  \A l \in Locks : /\ Order(LIST_REMOVE(s.queue, t)[LockQ(l)], s.queue[LockQ(l)])
                          /\ LIST_REMOVE(s.queue, t)[LockQ(l)] = RemoveFirst(s.queue[LockQ(l)], t)
<1> TAKE l \in Locks
<1>1. s.queue[LockQ(l)] \in Seq(Tasks) /\ LIST_REMOVE(s.queue, t)[LockQ(l)] = RemoveFirst(s.queue[LockQ(l)], t)
  BY SnapIs, HeadsAre DEF LIST_REMOVE
<1> QED BY <1>1, RemoveOrder

LEMMA MoveQuiet ==
  ASSUME NEW s \in Snap, NEW t \in Tasks
  PROVE  /\ Quiet(s, do_unblock(s, t)) /\ Quiet(s, MakeReady(s, t))
         /\ \A c : Quiet(s, do_block(s, t, CondQ(c)))
         /\ \A l \in Locks : do_unblock(s, t).queue[LockQ(l)] = RemoveFirst(s.queue[LockQ(l)], t)
<1> DEFINE r == LIST_REMOVE(s.queue, t)
<1>1. \A l \in Locks : Order(r[LockQ(l)], s.queue[LockQ(l)]) /\ r[LockQ(l)] = RemoveFirst(s.queue[LockQ(l)], t)
  BY RemovedQuiet
<1>2. \A l \in Locks : /\ AddHead(s.queue, Ready, t)[LockQ(l)] = r[LockQ(l)]
                       /\ AddTail(s.queue, Ready, t)[LockQ(l)] = r[LockQ(l)]
                       /\ \A c : AddTail(s.queue, CondQ(c), t)[LockQ(l)] = r[LockQ(l)]
  BY HeadsAre, HeadsDiffer DEF AddHead, AddTail
<1> HIDE DEF r
<1>3. /\ do_unblock(s, t).queue = AddHead(s.queue, Ready, t) /\ do_unblock(s, t).owner = s.owner
      /\ MakeReady(s, t).queue = AddTail(s.queue, Ready, t) /\ MakeReady(s, t).owner = s.owner
      /\ \A c : /\ do_block(s, t, CondQ(c)).queue = AddTail(s.queue, CondQ(c), t)
                /\ do_block(s, t, CondQ(c)).owner = s.owner
  BY DEF Snap, do_unblock, MakeReady, do_block
<1> QED BY <1>1, <1>2, <1>3 DEF Quiet

LEMMA HandOffLined ==
  ASSUME NEW b, NEW s, Lined(b, s), NEW m \in Locks
  PROVE  Lined(b, HandOff(s, m))
<1> DEFINE q == s.queue[LockQ(m)]
           w == Head(q)
           mid == do_unblock(s, w)
           new == HandOff(s, m)
<1>1. s \in Snap /\ q \in Seq(Tasks) /\ new \in Snap
  BY SnapIs, HeadsAre, HandOffType DEF Lined
<1>2. CASE q = <<>>
  <2>1. new.queue = s.queue /\ new.owner = s.owner
    BY <1>2 DEF HandOff, Snap
  <2> QED BY <1>1, <2>1 DEF Lined
<1>3. CASE q # <<>>
  <2>1. w \in Tasks /\ w \in Range(q)
    BY <1>1, <1>3 DEF Range
  <2>2. new = [mid EXCEPT !.owner[m] = w]
    BY <1>3 DEF HandOff
  <2>3. mid \in Snap /\ Quiet(s, mid) /\ mid.queue[LockQ(m)] = RemoveFirst(q, w)
    BY <1>1, <2>1, MoveType, MoveQuiet
  <2>4. Lined(b, mid)
    BY <2>3, QuietLined
  <2>5. \A u \in Range(mid.queue[LockQ(m)]) : Before(q, w, u)
    BY <1>1, <1>3, <2>3, RemoveOrder
  <2>6. Order(q, b.queue[LockQ(m)])
    BY DEF Lined
  <2> HIDE DEF mid, w, new, q
  <2>7. new.queue = mid.queue /\ new.owner[m] = w /\ \A l \in Locks \ {m} : new.owner[l] = mid.owner[l]
    BY <2>2, <2>3 DEF Snap
  <2>8. w \in Range(b.queue[LockQ(m)])
        /\ \A u \in Range(new.queue[LockQ(m)]) : Before(b.queue[LockQ(m)], w, u)
    BY <2>1, <2>5, <2>6, <2>7 DEF Order
  <2>9. Lined(b, new)
    BY <1>1, <2>4, <2>7, <2>8 DEF Lined
  <2> QED BY <2>9 DEF new
<1> QED BY <1>2, <1>3

LEMMA UnblockAllLined ==
  ASSUME NEW b, NEW s, Lined(b, s), NEW x \in Queues
  PROVE  Lined(b, UnblockAll(s, x))
<1> DEFINE q == s.queue[x]
           P == [i \in 0 .. Len(q) |-> {a \in Snap : Lined(b, a)}]
<1>1. s \in Snap /\ q \in Seq(Tasks)
  BY SnapIs DEF Lined
<1>2. UnblockAll(s, x) = FoldLeft(do_unblock, s, q)
  BY DEF UnblockAll
<1> HIDE DEF q
<1>3. PICK w \in [0 .. Len(q) -> Snap] :
        /\ w[0] = s /\ w[Len(q)] = FoldLeft(do_unblock, s, q)
        /\ \A i \in 1 .. Len(q) : w[i] = do_unblock(w[i - 1], q[i])
  BY <1>1, UnblockLoop
<1>4. Len(q) \in Nat /\ 0 \in 0 .. Len(q) /\ Len(q) \in 0 .. Len(q) /\ \A i \in 1 .. Len(q) : q[i] \in Tasks
  BY <1>1
<1>5. w[0] \in P[0]
  BY <1>3, <1>4
<1>6. ASSUME NEW i \in 1 .. Len(q), w[i - 1] \in P[i - 1] PROVE w[i] \in P[i]
  <2>1. i - 1 \in 0 .. Len(q) /\ i \in 0 .. Len(q)
    BY <1>4
  <2>2. w[i - 1] \in Snap /\ Lined(b, w[i - 1]) /\ w[i] \in Snap /\ q[i] \in Tasks
    BY <1>3, <1>4, <1>6, <2>1
  <2>3. Lined(b, w[i])
    BY <1>3, <2>2, MoveQuiet, QuietLined
  <2> QED BY <2>1, <2>2, <2>3
<1> HIDE DEF P
<1>7. w[Len(q)] \in P[Len(q)]
  BY <1>4, <1>5, <1>6, LoopKeeps
<1> QED BY <1>2, <1>3, <1>4, <1>7 DEF P

LEMMA CheckSleepingLined ==
  ASSUME NEW b, NEW s, Lined(b, s), NEW due
  PROVE  Lined(b, check_sleeping(s, due))
<1> DEFINE q == s.queue[Sleeping]
           P == [i \in 0 .. Len(q) |-> {a \in Snap : Lined(b, a)}]
<1>1. s \in Snap /\ q \in Seq(Tasks)
  BY SnapIs, HeadsAre DEF Lined
<1>3. PICK w \in [0 .. Len(q) -> Snap] :
        /\ w[0] = s /\ w[Len(q)] = check_sleeping(s, due)
        /\ \A i \in 1 .. Len(q) : w[i] = Sleeper(w[i - 1], q[i], due)
  BY <1>1, SleepersLoop
<1> HIDE DEF q
<1>4. Len(q) \in Nat /\ 0 \in 0 .. Len(q) /\ Len(q) \in 0 .. Len(q) /\ \A i \in 1 .. Len(q) : q[i] \in Tasks
  BY <1>1
<1>5. w[0] \in P[0]
  BY <1>3, <1>4
<1>6. ASSUME NEW i \in 1 .. Len(q), w[i - 1] \in P[i - 1] PROVE w[i] \in P[i]
  <2>1. i - 1 \in 0 .. Len(q) /\ i \in 0 .. Len(q)
    BY <1>4
  <2>2. w[i - 1] \in Snap /\ Lined(b, w[i - 1]) /\ w[i] \in Snap /\ q[i] \in Tasks
    BY <1>3, <1>4, <1>6, <2>1
  <2>3. Lined(b, w[i])
    BY <1>3, <2>2, MoveQuiet, QuietLined DEF Sleeper
  <2> QED BY <2>1, <2>2, <2>3
<1> HIDE DEF P
<1>7. w[Len(q)] \in P[Len(q)]
  BY <1>4, <1>5, <1>6, LoopKeeps
<1> QED BY <1>3, <1>4, <1>7 DEF P

LEMMA ReleaseLocksLined ==
  ASSUME NEW b, NEW s, Lined(b, s), NEW p
  PROVE  Lined(b, do_release_locks(s, p))
<1> DEFINE q == InOrder(Locks)
           P == [i \in 0 .. Len(q) |-> {a \in Snap : Lined(b, a)}]
<1>1. s \in Snap /\ q \in Seq(Locks) /\ q = InOrder(Locks)
  BY KernelAssumption, InOrderIs DEF KernelAssumption, Lined
<1> HIDE DEF q
<1>3. PICK w \in [0 .. Len(q) -> Snap] :
        /\ w[0] = s /\ w[Len(q)] = do_release_locks(s, p)
        /\ \A i \in 1 .. Len(q) : w[i] = GiveUp(w[i - 1], q[i], p)
  BY <1>1, ReleaseLoop
<1>4. Len(q) \in Nat /\ 0 \in 0 .. Len(q) /\ Len(q) \in 0 .. Len(q) /\ \A i \in 1 .. Len(q) : q[i] \in Locks
  BY <1>1
<1>5. w[0] \in P[0]
  BY <1>3, <1>4
<1>6. ASSUME NEW i \in 1 .. Len(q), w[i - 1] \in P[i - 1] PROVE w[i] \in P[i]
  <2>1. i - 1 \in 0 .. Len(q) /\ i \in 0 .. Len(q)
    BY <1>4
  <2>2. w[i - 1] \in Snap /\ Lined(b, w[i - 1]) /\ w[i] \in Snap /\ q[i] \in Locks
    BY <1>3, <1>4, <1>6, <2>1
  <2>3. Lined(b, w[i])
    BY <1>3, <2>2, HandOffLined DEF GiveUp
  <2> QED BY <2>1, <2>2, <2>3
<1> HIDE DEF P
<1>7. w[Len(q)] \in P[Len(q)]
  BY <1>4, <1>5, <1>6, LoopKeeps
<1> QED BY <1>3, <1>4, <1>7 DEF P

LEMMA KillLined ==
  ASSUME NEW b, NEW s, Lined(b, s), NEW p \in Procs
  PROVE  Lined(b, do_kill(s, p))
<1> DEFINE gone  == [s EXCEPT !.queue = LIST_REMOVE(s.queue, p)]
           freed == do_release_locks(gone, p)
           woken == UnblockAll(freed, WaitQ(p))
<1>0. s \in Snap
  BY DEF Lined
<1>1. Lined(b, gone)
  <2>1. gone.queue = LIST_REMOVE(s.queue, p) /\ gone.owner = s.owner
    BY <1>0 DEF Snap
  <2>2. gone \in Snap
    <3>1. LIST_REMOVE(s.queue, p) \in [Queues -> Seq(Tasks)]
      BY <1>0, SnapIs, RemoveType
    <3> QED BY <1>0, <3>1 DEF Snap
  <2> HIDE DEF gone
  <2>3. Quiet(s, gone)
    BY <1>0, <2>1, RemovedQuiet DEF Quiet
  <2> QED BY <2>2, <2>3, QuietLined
<1> HIDE DEF gone
<1>2. Lined(b, freed)
  BY <1>1, ReleaseLocksLined
<1> HIDE DEF freed
<1>3. Lined(b, woken)
  BY <1>2, UnblockAllLined, HeadsAre
<1> HIDE DEF woken
<1>4. do_kill(s, p) = [woken EXCEPT !.status[p] = "EXITED"]
  BY DEF do_kill, woken, freed, gone
<1>5. do_kill(s, p).queue = woken.queue /\ do_kill(s, p).owner = woken.owner
  BY <1>3, <1>4 DEF Snap, Lined
<1> QED BY <1>0, <1>3, <1>5, KillType DEF Lined

LEMMA KillAllLined ==
  ASSUME NEW b, NEW s, Lined(b, s), NEW p \in Procs
  PROVE  Lined(b, do_kill_all(s, p))
<1> DEFINE q == InOrder(Children(p))
           P == [i \in 0 .. Len(q) |-> {a \in Snap : Lined(b, a)}]
<1>1. q \in Seq(Procs)
  <2>1. Children(p) \in SUBSET Nat /\ IsFiniteSet(Children(p)) /\ Children(p) \subseteq Procs
    BY KernelAssumption, FS_Subset DEF KernelAssumption, Children
  <2>2. q \in Seq(Children(p))
    BY <2>1, InOrderIs
  <2> HIDE DEF q
  <2> QED BY <2>1, <2>2
<1>0. s \in Snap
  BY DEF Lined
<1>2. do_kill_all(s, p) = do_kill(FoldLeft(do_kill, s, q), p)
  BY DEF do_kill_all
<1> HIDE DEF q
<1>3. PICK w \in [0 .. Len(q) -> Snap] :
        /\ w[0] = s /\ w[Len(q)] = FoldLeft(do_kill, s, q)
        /\ \A i \in 1 .. Len(q) : w[i] = do_kill(w[i - 1], q[i])
  BY <1>0, <1>1, KillLoop
<1>4. Len(q) \in Nat /\ 0 \in 0 .. Len(q) /\ Len(q) \in 0 .. Len(q) /\ \A i \in 1 .. Len(q) : q[i] \in Procs
  BY <1>1
<1>5. w[0] \in P[0]
  BY <1>3, <1>4
<1>6. ASSUME NEW i \in 1 .. Len(q), w[i - 1] \in P[i - 1] PROVE w[i] \in P[i]
  <2>1. i - 1 \in 0 .. Len(q) /\ i \in 0 .. Len(q)
    BY <1>4
  <2>2. w[i - 1] \in Snap /\ Lined(b, w[i - 1]) /\ q[i] \in Procs
    BY <1>4, <1>6, <2>1
  <2>3. w[i] \in Snap /\ Lined(b, w[i])
    BY <1>3, <2>2, KillLined
  <2> QED BY <2>1, <2>3
<1> HIDE DEF P
<1>7. w[Len(q)] \in P[Len(q)]
  BY <1>4, <1>5, <1>6, LoopKeeps
<1>8. w[Len(q)] \in Snap /\ Lined(b, w[Len(q)])
  BY <1>4, <1>7 DEF P
<1> QED BY <1>2, <1>3, <1>8, KillLined

LEMMA ReleaseLined ==
  ASSUME NEW b, NEW s, Lined(b, s), NEW t, NEW l \in Locks
  PROVE  Lined(b, do_mutex_lock_release(s, t, l))
BY HandOffLined DEF do_mutex_lock_release

LEMMA RescheduleLined ==
  ASSUME NEW b, NEW s, Lined(b, s), NEW h \in Harts, current[h] \in Tasks, Reschedule(h, s)
  PROVE  Lined(b, Here')
<1>1. PICK due : do_scheduler(h, s, due)
  BY DEF Reschedule
<1> DEFINE a == check_sleeping(s, due)
           me == current[h]
           next == Head(a.queue[Ready])
           picked == [a EXCEPT !.status[next] = "RUNNING", !.queue[Ready] = Tail(@)]
<1>2. IF a.queue[Ready] = <<>> THEN Commit(a) ELSE Commit(PutBack(picked, me))
  BY <1>1 DEF do_scheduler
<1>3. Lined(b, a)
  BY CheckSleepingLined
<1> HIDE DEF a
<1>4. a \in Snap /\ a.queue[Ready] \in Seq(Tasks)
  BY <1>3, SnapIs, HeadsAre DEF Lined
<1>5. CASE a.queue[Ready] = <<>>
  BY <1>2, <1>3, <1>4, <1>5, CommitIs
<1>6. CASE a.queue[Ready] # <<>>
  <2>1. Tail(a.queue[Ready]) \in Seq(Tasks) /\ next \in Tasks
    BY <1>4, <1>6
  <2> HIDE DEF next
  <2>2. /\ picked \in Snap /\ picked.owner = a.owner
        /\ picked.queue = [a.queue EXCEPT ![Ready] = Tail(a.queue[Ready])]
    BY <1>4, <2>1 DEF Snap
  <2> HIDE DEF picked
  <2>3. Lined(b, picked)
    <3>1. \A l \in Locks : picked.queue[LockQ(l)] = a.queue[LockQ(l)]
      BY <1>4, <2>2, HeadsAre, HeadsDiffer, SnapIs
    <3> QED BY <1>3, <2>2, <3>1 DEF Lined
  <2>4. Lined(b, MakeReady(picked, me)) /\ MakeReady(picked, me) \in Snap
    BY <2>2, <2>3, MoveQuiet, MoveType, QuietLined
  <2>5. Lined(b, PutBack(picked, me)) /\ PutBack(picked, me) \in Snap
    BY <2>2, <2>3, <2>4 DEF PutBack
  <2> QED BY <1>2, <1>6, <2>5, CommitIs
<1> QED BY <1>5, <1>6

\* where each handler that releases mutexes ends up
LEMMA StepLined ==
  ASSUME IInv, ~ ZombieActs, NEW h \in Harts,
         \/ do_exit(h) \/ \E p \in Procs : sys_kill(h, p)
         \/ \E l \in Locks : LockRelease(h, l) \/ \E c \in Conds : do_condition_wait(h, c, l)
  PROVE  Lined(Here, Here')
<1>1. Here \in Snap /\ Lined(Here, Here) /\ \A t : Caller(h, t) => t \in Tasks /\ current[h] \in Tasks
  BY Unfolded, CallerRuns DEF Lined, Order, Runs
<1>2. ASSUME NEW t \in Procs, Caller(h, t), Reschedule(h, do_kill_all(Here, t)) PROVE Lined(Here, Here')
  BY <1>1, <1>2, KillAllLined, RescheduleLined
<1>3. ASSUME NEW p \in Procs, Commit(do_kill_all(Here, p)) PROVE Lined(Here, Here')
  <2>1. Lined(Here, do_kill_all(Here, p))
    BY <1>1, KillAllLined
  <2>2. do_kill_all(Here, p) \in Snap
    BY <2>1 DEF Lined
  <2> QED BY <1>3, <2>1, <2>2, CommitIs
<1>4. ASSUME NEW t \in Procs, NEW l \in Locks, Commit(do_mutex_lock_release(Here, t, l))
      PROVE  Lined(Here, Here')
  <2>1. Lined(Here, do_mutex_lock_release(Here, t, l))
    BY <1>1, ReleaseLined
  <2>2. do_mutex_lock_release(Here, t, l) \in Snap
    BY <2>1 DEF Lined
  <2> QED BY <1>4, <2>1, <2>2, CommitIs
<1>5. ASSUME NEW t \in Procs, NEW l \in Locks, NEW c \in Conds, Caller(h, t),
             Reschedule(h, do_block(do_mutex_lock_release(Here, t, l), t, CondQ(c)))
      PROVE  Lined(Here, Here')
  <2> DEFINE r == do_mutex_lock_release(Here, t, l)
             s == do_block(r, t, CondQ(c))
  <2>1. Lined(Here, r)
    BY <1>1, ReleaseLined
  <2>2. r \in Snap /\ t \in Tasks /\ current[h] \in Tasks
    BY <1>1, <1>5, <2>1 DEF Lined
  <2> HIDE DEF r
  <2>3. s \in Snap /\ Quiet(r, s)
    BY <2>2, MoveQuiet, MoveType
  <2>4. Lined(Here, s)
    BY <2>1, <2>3, QuietLined
  <2> HIDE DEF s
  <2> QED BY <1>5, <2>2, <2>4, RescheduleLined DEF s, r
<1> QED BY <1>2, <1>3, <1>4, <1>5 DEF do_exit, sys_kill, LockRelease, do_condition_wait

\* no other handler takes a mutex from its owner
LEMMA OwnersStay ==
  ASSUME IInv, ~ ZombieActs, ~ ReuseOnCPU, [Next]_vars,
         ~ \E h \in Harts : \/ do_exit(h) \/ \E p \in Procs : sys_kill(h, p)
                            \/ \E l \in Locks : LockRelease(h, l) \/ \E c \in Conds : do_condition_wait(h, c, l)
  PROVE  \A l \in Locks : holders[l] # None => holders'[l] = holders[l]
<1>0. DOMAIN holders = Locks
  BY DEF holders
<1>1. ASSUME NEW h \in Harts, Timer(h) PROVE holders' = holders
  BY <1>1, TimerSeen DEF D!Timer
<1>2. ASSUME NEW h \in Harts, do_exec(h) \/ do_thread_create(h) PROVE holders' = holders
  BY <1>2, ExecSeen DEF D!Launch
<1>3. ASSUME NEW h \in Harts, NEW p \in Procs, do_waitpid(h, p) PROVE holders' = holders
  BY <1>3, WaitpidSeen DEF D!Waitpid
<1>4. ASSUME NEW h \in Harts, do_sleep(h) PROVE holders' = holders
  BY <1>4, SleepSeen DEF D!Sleep
<1>5. ASSUME NEW h \in Harts, NEW m \in Locks, do_mutex_lock_acquire(h, m)
      PROVE  \A l \in Locks : holders[l] # None => holders'[l] = holders[l]
  <2>1. holders' = holders \/ (holders[m] = None /\ holders' = [holders EXCEPT ![m] = current[h]])
    BY <1>5, AcquireSeen, SameNames DEF D!Acquire
  <2> QED BY <1>0, <2>1
<1>6. ASSUME NEW h \in Harts, NEW c \in Conds, do_condition_signal(h, c) \/ do_condition_broadcast(h, c)
      PROVE  \A l \in Locks : holders[l] # None => holders'[l] = holders[l]
  <2>1. PICK W : D!Reacquire(W)
    BY <1>6, SignalSeen, ConditionBroadcastSeen DEF D!Signal, D!Broadcast
  <2> QED BY <2>1, SameNames DEF D!Reacquire
<1>7. ASSUME NEW h \in Harts, NEW b \in Bars, do_barrier_wait(h, b) PROVE holders' = holders
  BY <1>7, BarrierWaitSeen DEF D!BarrierWait
<1>8. ASSUME NEW h \in Harts, NEW b \in Bars,
              (\E g \in Goals : do_barrier_init(h, b, g)) \/ do_barrier_destroy(h, b)
       PROVE  holders' = holders
  BY <1>8, QuietSeen DEF do_barrier_init, do_barrier_destroy, D!vars
<1>9. CASE UNCHANGED vars
  BY <1>9, QuietSeen DEF vars, D!vars
<1> QED BY <1>1, <1>2, <1>3, <1>4, <1>5, <1>6, <1>7, <1>8, <1>9 DEF Next, Syscall

(***************************************************************************)
(* The theorems.  They hold for any number of CPUs with as many idle       *)
(* tasks, and for any slots, mutexes, condition variables, barriers and    *)
(* goals, under two assumptions on what goes on around a kill: a process   *)
(* killed while it is on a CPU makes no system call and its slot is not    *)
(* handed out before that CPU has rescheduled.  The code ensures neither,  *)
(* and without them the properties fail.  Whether tasks are killed at a    *)
(* barrier is left open, except where a barrier is what a theorem is       *)
(* about: its count still has the dead.                                    *)
(***************************************************************************)

\* The invariant that relates status, lists, CPUs and mutexes is kept by
\* every handler, through all the changes it makes (sched.c, lock.c).
THEOREM KeepsInvariant ==
  ASSUME ~ ZombieActs, ~ ReuseOnCPU
  PROVE  Spec => []IInv
<1>1. Init => IInv
  BY InitFit
<1>2. IInv /\ [Next]_vars => IInv'
  BY Inductive
<1> QED BY <1>1, <1>2, PTL DEF Spec

\* Every reachable state is well typed.
THEOREM TypeCorrect ==
  ASSUME ~ ZombieActs, ~ ReuseOnCPU
  PROVE  Spec => []TypeOK
<1>1. Spec => []IInv
  BY KeepsInvariant
<1>2. IInv => TypeOK
  BY Typed
<1> QED BY <1>1, <1>2, PTL

\* No task is lost or doubled by the list operations of do_block, do_unblock,
\* check_sleeping, do_kill and do_scheduler.
THEOREM TasksInOnePlace ==
  ASSUME ~ ZombieActs, ~ ReuseOnCPU
  PROVE  Spec => []OnePlace
<1>1. Spec => []IInv
  BY KeepsInvariant
<1>2. IInv => OnePlace
  BY PlacedOnce
<1> QED BY <1>1, <1>2, PTL

\* do_scheduler never leaves a blocked or ready task on a CPU: when the
\* current task has stopped, an idle task is ready.
THEOREM CPUsRunRunners ==
  ASSUME ~ ZombieActs, ~ ReuseOnCPU
  PROVE  Spec => []CPUsRun
<1>1. Spec => []IInv
  BY KeepsInvariant
<1>2. IInv => CPUsRun
  BY Running
<1> QED BY <1>1, <1>2, PTL

\* A mutex with waiters has a live owner and a process waited for is alive,
\* whoever is killed: do_kill releases every lock and wakes every waiter.
THEOREM NobodyForgotten ==
  ASSUME ~ ZombieActs, ~ ReuseOnCPU
  PROVE  Spec => []NoOrphanWaiters
<1>1. Spec => []IInv
  BY KeepsInvariant
<1>2. IInv => NoOrphanWaiters
  BY NoOrphans
<1> QED BY <1>1, <1>2, PTL

\* No task runs on two CPUs.
THEOREM OneCPUEach ==
  ASSUME ~ ZombieActs, ~ ReuseOnCPU
  PROVE  Spec => []OneCPU
<1>1. Spec => []IInv
  BY KeepsInvariant
<1>2. IInv => OneCPU
  BY DEF IInv, Fit, Placed, Now, OneCPU, IsInjective
<1> QED BY <1>1, <1>2, PTL

\* No step of any handler blocks a killed process again: its slot only
\* comes back as a new process.
THEOREM TheDeadStayDead ==
  ASSUME ~ ZombieActs, ~ ReuseOnCPU
  PROVE  Spec => KilledStaysDead
<1> DEFINE StaysDead == \A p \in Procs : status[p] = "EXITED" => status'[p] \in {"EXITED", "READY", "RUNNING"}
<1>1. Spec => []IInv
  BY KeepsInvariant
<1>2. ASSUME IInv, [Next]_vars PROVE StaysDead
  <2>1. Here' \in Snap /\ Placed(Here', After)
    BY <1>2, StepFit DEF Fit
  <2>2. Here'.status = status' /\ After.base.status = status
    BY DEF Here, After
  <2>3. \A p \in Procs : p \in Tasks
    BY DEF Tasks
  <2>4. \A p \in Procs : status'[p] \in {"BLOCKED", "RUNNING", "READY", "EXITED"}
    BY <2>1, <2>2, <2>3, SnapIs
  <2> QED BY <2>1, <2>2, <2>3, <2>4 DEF Placed
<1>3. IInv /\ [Next]_vars => [StaysDead]_vars
  BY <1>2
<1> HIDE DEF StaysDead
<1>4. Spec => [][StaysDead]_vars
  BY <1>1, <1>3, PTL DEF Spec
<1> QED BY <1>4 DEF KilledStaysDead, StaysDead

\* Whoever leaves the block queue of a mutex alive owns the mutex, and whoever
\* leaves a condition has its mutex or queues for it: do_mutex_lock_acquire
\* and do_condition_wait may return without looking at the lock again.
THEOREM WokenWithTheMutex ==
  ASSUME ~ ZombieActs, ~ ReuseOnCPU
  PROVE  Spec => WakesOwning
<1> DEFINE Owns ==
      \A t \in Procs :
        /\ \A l \in Locks : t \in Range(queue[LockQ(l)]) \ Range(queue'[LockQ(l)]) /\ Survives(t)
                              => locked'[l] /\ owner'[l] = t
        /\ \A c \in Conds : t \in Range(queue[CondQ(c)]) \ Range(queue'[CondQ(c)]) /\ Survives(t)
                              => LET m == mutexIdx[t]
                                 IN  \/ locked'[m] /\ owner'[m] = t
                                     \/ t \in Range(queue'[LockQ(m)])
<1>1. Spec => []IInv
  BY KeepsInvariant
<1>2. ASSUME IInv, [Next]_vars PROVE Owns
  <2>1. Owed(Here', {}, After)
    BY <1>2, StepFit DEF Fit
  <2>2. /\ Here'.status = status' /\ Here'.locked = locked' /\ Here'.owner = owner'
        /\ After.mi = mutexIdx' /\ \A x : In(Here', x) = Range(queue'[x]) /\ In(After.base, x) = Range(queue[x])
    BY DEF Here, After, In
  <2>3. ASSUME NEW c \in Conds, NEW t \in Procs, t \in Range(queue[CondQ(c)])
        PROVE  mutexIdx'[t] = mutexIdx[t]
    <3>1. status[t] = "BLOCKED"
      BY <1>2, <2>3, Unfolded, HeadsAre DEF Linked, Tasks
    <3> QED BY <1>2, <3>1, MutexIdxStays
  <2>4. ASSUME NEW t \in Procs, NEW l \in Locks, Survives(t),
               t \in Range(queue[LockQ(l)]) \ Range(queue'[LockQ(l)])
        PROVE  locked'[l] /\ owner'[l] = t
    BY <2>1, <2>2, <2>4 DEF Owed, Survives
  <2>5. ASSUME NEW t \in Procs, NEW c \in Conds, Survives(t),
               t \in Range(queue[CondQ(c)]) \ Range(queue'[CondQ(c)])
        PROVE  \/ locked'[mutexIdx[t]] /\ owner'[mutexIdx[t]] = t
               \/ t \in Range(queue'[LockQ(mutexIdx[t])])
    BY <2>1, <2>2, <2>3, <2>5 DEF Owed, Survives
  <2> QED BY <2>4, <2>5
<1>3. IInv /\ [Next]_vars => [Owns]_vars
  BY <1>2
<1> HIDE DEF Owns
<1>4. Spec => [][Owns]_vars
  BY <1>1, <1>3, PTL DEF Spec
<1> QED BY <1>4 DEF WakesOwning, Owns

\* Mutexes are handed over first come first served, although a kill may take
\* waiters out of the middle of the queue, give the mutex to a thread it is
\* about to kill and pass it on (do_mutex_lock_release, do_kill).
THEOREM FirstComeFirstServed ==
  ASSUME ~ ZombieActs, ~ ReuseOnCPU
  PROVE  Spec => HandOffFIFO
<1> DEFINE Hands == \A l \in Locks : locked[l] /\ locked'[l] /\ owner'[l] # owner[l]
                      => HandsOver(owner'[l], queue[LockQ(l)], queue'[LockQ(l)])
<1>1. Spec => []IInv
  BY KeepsInvariant
<1>2. ASSUME IInv, [Next]_vars PROVE Hands
  <2> SUFFICES ASSUME NEW l \in Locks, locked[l], locked'[l], owner'[l] # owner[l]
               PROVE  HandsOver(owner'[l], queue[LockQ(l)], queue'[LockQ(l)])
    OBVIOUS
  <2> DEFINE o == owner'[l]
             q == queue[LockQ(l)]
             r == queue'[LockQ(l)]
  <2>1. LockQ(l) \in Queues /\ LockQ(l) \in BlockQueues
    BY HeadsAre
  <2>2. q \in Seq(Tasks) /\ IsInjective(q) /\ Range(q) \subseteq Tasks
    BY <1>2, <2>1, Unfolded, SnapIs DEF Linked, In
  <2>9. /\ Linked(Here', {}) /\ Served(Here', After) /\ Owed(Here', {}, After)
        /\ Here'.status = status' /\ Here'.locked = locked' /\ Here'.owner = owner'
        /\ \A x : In(Here', x) = Range(queue'[x]) /\ In(After.base, x) = Range(queue[x])
    BY <1>2, StepFit DEF Fit, Here, After, In
  <2>3. holders[l] # None /\ holders'[l] # holders[l]
    <3>1. owner[l] \in Procs /\ owner'[l] \in Procs
      BY <1>2, <2>9, Unfolded DEF Served
    <3> QED BY <3>1, TasksAssumption DEF holders, TasksAssumption
  <2>4. Lined(Here, Here')
    BY <1>2, <2>3, OwnersStay, StepLined
  <2>5. /\ Order(r, q) /\ o \in Range(q) /\ \A t \in Range(r) : Before(q, o, t)
    BY <2>4 DEF Lined, Here
  <2>6. \A t \in Range(r) : Survives(t)
    <3>1. \A t \in Tasks : t \in In(Here', LockQ(l)) => Here'.status[t] = "BLOCKED"
      BY <2>1, <2>9 DEF Linked
    <3> QED BY <2>2, <2>5, <2>9, <3>1 DEF Survives, Order
  <2>7. \A t \in Range(q) : Survives(t) => t \in Range(r) \/ t = o
    <3>1. \A t \in Range(q) : t \in Procs
      <4>1. \A t \in Range(q) : t \in Tasks /\ status[t] = "BLOCKED"
        BY <1>2, <2>1, <2>2, Unfolded DEF Linked
      <4> QED BY <1>2, <4>1, Unfolded DEF Placed, Tasks
    <3> QED BY <2>9, <3>1 DEF Owed, Survives
  <2> HIDE DEF o, q, r
  <2> QED BY <2>2, <2>5, <2>6, <2>7, BeforeIs DEF HandsOver, Order, o, q, r
<1>3. IInv /\ [Next]_vars => [Hands]_vars
  BY <1>2
<1> HIDE DEF Hands
<1>4. Spec => [][Hands]_vars
  BY <1>1, <1>3, PTL DEF Spec
<1> QED BY <1>4 DEF HandOffFIFO, Hands

\* The queues, loops and wake-up orders of sched.c and lock.c implement
\* Dispatch: every handler moves the tasks that Dispatch moves and no other,
\* and passes a mutex to a task that may have it.
THEOREM RefinesDispatch ==
  ASSUME ~ ZombieActs, ~ ReuseOnCPU
  PROVE  Spec => ImplementsDispatch
<1>1. Spec => []IInv
  BY KeepsInvariant
<1>2. Init => D!Init
  BY InitSeen
<1>3. IInv /\ [Next]_vars => [D!Next]_(D!vars)
  BY StepSeen
<1> QED BY <1>1, <1>2, <1>3, PTL DEF Spec, ImplementsDispatch, D!Spec

\* A barrier opens exactly when the task that makes it full arrives, round
\* after round (do_barrier_wait), as long as nobody is killed at a barrier.
THEOREM BarriersOpenFull ==
  ASSUME ~ ZombieActs, ~ ReuseOnCPU, ~ KillAtBarrier
  PROVE  Spec => BarrierOpensFull
<1> DEFINE Opens == \A b \in Bars : queue[BarQ(b)] # <<>> /\ queue'[BarQ(b)] = <<>>
                         /\ (\A t \in Range(queue[BarQ(b)]) : Survives(t))
                       => Len(queue[BarQ(b)]) + 1 = goal[b]
<1>1. Spec => []IInv
  BY KeepsInvariant
<1>2. Init => Counted
  BY InitCounted
<1>3. IInv /\ Counted /\ [Next]_vars => Counted'
  BY CountedStep
<1>4. ASSUME IInv, Counted, [Next]_vars PROVE Opens
  <2> SUFFICES ASSUME NEW b \in Bars, queue[BarQ(b)] # <<>>, queue'[BarQ(b)] = <<>>
               PROVE  Len(queue[BarQ(b)]) + 1 = goal[b]
    OBVIOUS
  <2>1. /\ Len(queue[BarQ(b)]) = count[b] /\ count[b] \in Nat /\ Waiters(b) # {}
        /\ goal[b] \in Goals \cup {None} /\ Goals \subseteq Nat
        /\ IF goal[b] = None THEN count[b] = 0 ELSE count[b] < goal[b]
    BY <1>4, WaitersAre, KernelAssumption DEF Counted, IInv, KernelAssumption
  <2>2. Waiters(b)' = {}
    BY DEF Waiters, Range
  <2>3. Full(b)
    BY <1>4, <2>1, <2>2, WaitersStep
  <2>4. count[b] # 0
    BY <1>4, <2>1, WaitersAre, FS_EmptySet
  <2>5. goal[b] # None /\ count[b] < goal[b] /\ count[b] + 1 >= goal[b] /\ goal[b] \in Nat
    BY <2>1, <2>3, <2>4 DEF Full
  <2> QED BY <2>1, <2>5
<1>5. IInv /\ Counted /\ [Next]_vars => [Opens]_vars
  BY <1>4
<1> HIDE DEF Opens
<1>6. Spec => [][Opens]_vars
  BY <1>1, <1>2, <1>3, <1>5, PTL DEF Spec
<1> QED BY <1>6 DEF BarrierOpensFull, Opens
=============================================================================
