------------------------------ MODULE ListRing ------------------------------
(***************************************************************************)
(* The doubly linked lists of include/os/list.h, pointer by pointer, under *)
(* the moves that the scheduler and the locks make with pcb.list.  Kernel  *)
(* treats a list as the sequence of its nodes; queue is that sequence, and *)
(* Rings says that the pointers agree with it.  home, the list a node is   *)
(* on, is what the pointers alone should determine: no code reads it.      *)
(*                                                                         *)
(* An operator X_y that precedes X is X with a bug.                        *)
(***************************************************************************)
EXTENDS Naturals, SequencesExt

CONSTANTS
  Heads, Nodes,
  ready,        \* ready_queue, one of the heads
  Running,      \* home of a node whose task is on a CPU
  Dead,         \* home of a node whose slot is TASK_EXITED
  KillDead      \* may do_kill be called for a slot that has exited?

ASSUME ListAssumption ==
  /\ Heads \cap Nodes = {} /\ ready \in Heads
  /\ {Running, Dead} \cap (Heads \cup Nodes) = {} /\ Running # Dead
  /\ KillDead \in BOOLEAN

VARIABLES
  next, prev,  \* the two pointers of every head and node
  home, queue

vars == <<next, prev, home, queue>>

Cells == Heads \cup Nodes

TypeOK ==
  /\ next \in [Cells -> Cells] /\ prev \in [Cells -> Cells]
  /\ home \in [Nodes -> Heads \cup {Running, Dead}]

\* init_pcb and the init_* functions: every head and node points to itself.
\* The idle tasks are running, all other slots are free.
Init ==
  /\ next = [c \in Cells |-> c] /\ prev = [c \in Cells |-> c]
  /\ home \in [Nodes -> {Running, Dead}]
  /\ queue = [h \in Heads |-> <<>>]

-----------------------------------------------------------------------------
\* The macros, as changes to the pair L = [next, prev].
Links == [next |-> next, prev |-> prev]

LIST_REMOVE_oneWay(L, n) == [L EXCEPT !.next[L.prev[n]] = L.next[n]]

LIST_REMOVE(L, n) ==
  [next |-> [L.next EXCEPT ![L.prev[n]] = L.next[n]],
   prev |-> [L.prev EXCEPT ![L.next[n]] = L.prev[n]]]

LIST_ADD_HEAD(L, h, n) ==
  [next |-> [L.next EXCEPT ![n] = L.next[h], ![h] = n],
   prev |-> [L.prev EXCEPT ![n] = h, ![L.next[h]] = n]]

LIST_ADD_TAIL_stale(L, h, n) ==
  [next |-> [L.next EXCEPT ![n] = h, ![L.prev[h]] = n],
   prev |-> [L.prev EXCEPT ![h] = n]]

LIST_ADD_TAIL(L, h, n) ==
  [next |-> [L.next EXCEPT ![n] = h, ![L.prev[h]] = n],
   prev |-> [L.prev EXCEPT ![n] = L.prev[h], ![h] = n]]

NODE_REFRESH(L, n) == [next |-> [L.next EXCEPT ![n] = n], prev |-> [L.prev EXCEPT ![n] = n]]

LIST_IS_EMPTY(h) == next[h] = h

\* Links becomes L and the node n is now at home x
Move(L, n, x) == /\ next' = L.next /\ prev' = L.prev
                 /\ home' = [home EXCEPT ![n] = x]

Without(n) == [h \in Heads |-> RemoveFirst(queue[h], n)]
ToHead(n, h) == [Without(n) EXCEPT ![h] = <<n>> \o Without(n)[h]]
ToTail(n, h) == [Without(n) EXCEPT ![h] = Append(Without(n)[h], n)]

-----------------------------------------------------------------------------
\* do_exec, do_thread_create: the node of a free slot is not unlinked first
Launch(n) == /\ home[n] = Dead
             /\ Move(LIST_ADD_TAIL(Links, ready, n), n, ready)
             /\ queue' = ToTail(n, ready)

\* do_scheduler: the first ready task goes on a CPU ...
Pick ==
  LET n == next[ready]
  IN  /\ ~LIST_IS_EMPTY(ready)
      /\ Move(NODE_REFRESH(LIST_REMOVE(Links, n), n), n, Running)
      /\ queue' = Without(n)

\* ... and the task it replaces to the tail, again without LIST_REMOVE
PutBack(n) == /\ home[n] = Running
              /\ Move(LIST_ADD_TAIL(Links, ready, n), n, ready)
              /\ queue' = ToTail(n, ready)

\* a running task blocks; a condition waiter moves on to the mutex
do_block(n, h) == /\ home[n] \notin {Dead, h}
                  /\ Move(LIST_ADD_TAIL(LIST_REMOVE(Links, n), h, n), n, h)
                  /\ queue' = ToTail(n, h)

do_unblock(n) == /\ home[n] \in Heads \ {ready}
                 /\ Move(LIST_ADD_HEAD(LIST_REMOVE(Links, n), ready, n), n, ready)
                 /\ queue' = ToHead(n, ready)

\* do_kill leaves the pointers of the node as they were
do_kill(n) == /\ home[n] # Dead \/ KillDead
              /\ Move(LIST_REMOVE(Links, n), n, Dead)
              /\ queue' = Without(n)

Next == \/ Pick
        \/ \E n \in Nodes : \/ Launch(n) \/ PutBack(n) \/ do_unblock(n) \/ do_kill(n)
                            \/ \E h \in Heads : do_block(n, h)

Spec == Init /\ [][Next]_vars

-----------------------------------------------------------------------------
(***************************************************************************)
(* The pointers of every list spell its sequence of nodes, forwards and    *)
(* backwards.  This is what lets Kernel use sequences, whatever stale      *)
(* links do_kill leaves in nodes that are on no list.                      *)
(***************************************************************************)
Ring(h) == <<h>> \o queue[h]

Rings == \A h \in Heads : \A i \in 1..Len(Ring(h)) :
  LET c == Ring(h)[i]
      d == Ring(h)[1 + (i % Len(Ring(h)))]
  IN  next[c] = d /\ prev[d] = c

(***************************************************************************)
(* The inductive part of it: next and prev are inverse to each other on    *)
(* the cells of the lists and stay within one list, and the node of a      *)
(* running task points to itself, so that LIST_REMOVE on it (do_block,     *)
(* do_kill) touches no list.                                               *)
(***************************************************************************)
On(H, c) == c \in Heads \/ H[c] \in Heads
HomeOf(H, c) == IF c \in Heads THEN c ELSE H[c]

LinkedAs(N, P, H) ==
  /\ \A c \in Cells : On(H, c) =>
       /\ On(H, N[c]) /\ P[N[c]] = c /\ HomeOf(H, N[c]) = HomeOf(H, c)
       /\ On(H, P[c]) /\ N[P[c]] = c /\ HomeOf(H, P[c]) = HomeOf(H, c)
  /\ \A n \in Nodes : H[n] = Running => N[n] = n /\ P[n] = n

Linked == LinkedAs(next, prev, home)
=============================================================================
