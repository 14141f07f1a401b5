--------------------------- MODULE ListRingProofs ---------------------------
(***************************************************************************)
(* The list macros keep all lists of the kernel well formed, for any       *)
(* number of lists and nodes, provided no exited slot is killed again.     *)
(***************************************************************************)
EXTENDS ListRing, Recursion

Typed(N, P, H) == /\ N \in [Cells -> Cells] /\ P \in [Cells -> Cells]
                  /\ H \in [Nodes -> Heads \cup {Running, Dead}]

Good(N, P, H) == Typed(N, P, H) /\ LinkedAs(N, P, H)

Pair(N, P) == [next |-> N, prev |-> P]

(***************************************************************************)
(* Unlinking a node that is on a list, or that points to itself, leaves    *)
(* every list well formed; nothing is known of the node any more.          *)
(***************************************************************************)
LEMMA RemoveGood ==
  ASSUME NEW N, NEW P, NEW H, Good(N, P, H), NEW n \in Nodes, H[n] # Dead
  PROVE  LET L == LIST_REMOVE(Pair(N, P), n)
         IN  Good(L.next, L.prev, [H EXCEPT ![n] = Dead])
<1> DEFINE N2 == [N EXCEPT ![P[n]] = N[n]]
           P2 == [P EXCEPT ![N[n]] = P[n]]
           H2 == [H EXCEPT ![n] = Dead]
<1>1. Typed(N2, P2, H2)
  BY ListAssumption DEF Good, Typed, Cells
<1>2. LinkedAs(N2, P2, H2)
  BY ListAssumption DEF Good, Typed, Cells, LinkedAs, On, HomeOf
<1> QED BY <1>1, <1>2 DEF Good, LIST_REMOVE, Pair

(***************************************************************************)
(* Linking a node nothing points to behind a head or in front of it.       *)
(***************************************************************************)
LEMMA AddTailGood ==
  ASSUME NEW N, NEW P, NEW H, Good(N, P, H), NEW n \in Nodes, H[n] = Dead, NEW h \in Heads
  PROVE  LET L == LIST_ADD_TAIL(Pair(N, P), h, n)
         IN  Good(L.next, L.prev, [H EXCEPT ![n] = h])
<1> DEFINE N2 == [N EXCEPT ![n] = h, ![P[h]] = n]
           P2 == [P EXCEPT ![n] = P[h], ![h] = n]
           H2 == [H EXCEPT ![n] = h]
<1>1. Typed(N2, P2, H2)
  BY ListAssumption DEF Good, Typed, Cells
<1>2. LinkedAs(N2, P2, H2)
  BY ListAssumption DEF Good, Typed, Cells, LinkedAs, On, HomeOf
<1> QED BY <1>1, <1>2 DEF Good, LIST_ADD_TAIL, Pair

LEMMA AddHeadGood ==
  ASSUME NEW N, NEW P, NEW H, Good(N, P, H), NEW n \in Nodes, H[n] = Dead, NEW h \in Heads
  PROVE  LET L == LIST_ADD_HEAD(Pair(N, P), h, n)
         IN  Good(L.next, L.prev, [H EXCEPT ![n] = h])
<1> DEFINE N2 == [N EXCEPT ![n] = N[h], ![h] = n]
           P2 == [P EXCEPT ![n] = h, ![N[h]] = n]
           H2 == [H EXCEPT ![n] = h]
<1>1. Typed(N2, P2, H2)
  BY ListAssumption DEF Good, Typed, Cells
<1>2. LinkedAs(N2, P2, H2)
  BY ListAssumption DEF Good, Typed, Cells, LinkedAs, On, HomeOf
<1> QED BY <1>1, <1>2 DEF Good, LIST_ADD_HEAD, Pair

(***************************************************************************)
(* A running task's node points to itself: it may be linked anew without   *)
(* LIST_REMOVE (do_scheduler), and NODE_REFRESH makes a node such a one.   *)
(***************************************************************************)
LEMMA ForgetGood ==
  ASSUME NEW N, NEW P, NEW H, Good(N, P, H), NEW n \in Nodes, H[n] = Running
  PROVE  Good(N, P, [H EXCEPT ![n] = Dead])
BY ListAssumption DEF Good, Typed, Cells, LinkedAs, On, HomeOf

LEMMA RefreshGood ==
  ASSUME NEW N, NEW P, NEW H, Good(N, P, H), NEW n \in Nodes, H[n] = Dead
  PROVE  LET L == NODE_REFRESH(Pair(N, P), n)
         IN  Good(L.next, L.prev, [H EXCEPT ![n] = Running])
<1> DEFINE N2 == [N EXCEPT ![n] = n]
           P2 == [P EXCEPT ![n] = n]
           H2 == [H EXCEPT ![n] = Running]
<1>1. Typed(N2, P2, H2)
  BY ListAssumption DEF Good, Typed, Cells
<1>2. LinkedAs(N2, P2, H2)
  BY ListAssumption DEF Good, Typed, Cells, LinkedAs, On, HomeOf
<1> QED BY <1>1, <1>2 DEF Good, NODE_REFRESH, Pair

-----------------------------------------------------------------------------
IInv == Good(next, prev, home)

LEMMA InitGood == Init => IInv
BY ListAssumption DEF Init, IInv, Good, Typed, Cells, LinkedAs, On, HomeOf

(***************************************************************************)
(* LIST_REMOVE, then an insertion at head h: the node has changed lists.   *)
(***************************************************************************)
LEMMA TailGood ==
  ASSUME IInv, NEW n \in Nodes, home[n] # Dead, NEW h \in Heads,
         Move(LIST_ADD_TAIL(LIST_REMOVE(Links, n), h, n), n, h)
  PROVE  IInv'
<1> DEFINE L == LIST_REMOVE(Links, n)
           H2 == [home EXCEPT ![n] = Dead]
<1>1. Good(L.next, L.prev, H2)
  BY RemoveGood DEF IInv, Pair, Links
<1>2. H2[n] = Dead /\ [H2 EXCEPT ![n] = h] = [home EXCEPT ![n] = h]
  BY DEF IInv, Good, Typed
<1>3. L = Pair(L.next, L.prev)
  BY DEF LIST_REMOVE, Pair
<1> HIDE DEF L, H2
<1> QED BY <1>1, <1>2, <1>3, AddTailGood DEF Move, IInv, L

LEMMA HeadGood ==
  ASSUME IInv, NEW n \in Nodes, home[n] # Dead, NEW h \in Heads,
         Move(LIST_ADD_HEAD(LIST_REMOVE(Links, n), h, n), n, h)
  PROVE  IInv'
<1> DEFINE L == LIST_REMOVE(Links, n)
           H2 == [home EXCEPT ![n] = Dead]
<1>1. Good(L.next, L.prev, H2)
  BY RemoveGood DEF IInv, Pair, Links
<1>2. H2[n] = Dead /\ [H2 EXCEPT ![n] = h] = [home EXCEPT ![n] = h]
  BY DEF IInv, Good, Typed
<1>3. L = Pair(L.next, L.prev)
  BY DEF LIST_REMOVE, Pair
<1> HIDE DEF L, H2
<1> QED BY <1>1, <1>2, <1>3, AddHeadGood DEF Move, IInv, L

(***************************************************************************)
(* The first cell of a ready queue that is not empty is a node on it, not  *)
(* the head of another list.                                               *)
(***************************************************************************)
LEMMA FirstIsNode ==
  ASSUME IInv, ~LIST_IS_EMPTY(ready)
  PROVE  next[ready] \in Nodes /\ home[next[ready]] = ready
BY ListAssumption DEF IInv, Good, Typed, Cells, LinkedAs, On, HomeOf, LIST_IS_EMPTY

LEMMA PickGood == ASSUME IInv, Pick PROVE IInv'
<1> DEFINE n == next[ready]
           L == LIST_REMOVE(Links, n)
           H2 == [home EXCEPT ![n] = Dead]
<1>1. n \in Nodes /\ home[n] = ready /\ home[n] # Dead
  BY FirstIsNode, ListAssumption DEF Pick
<1>2. Good(L.next, L.prev, H2)
  BY <1>1, RemoveGood DEF IInv, Pair, Links
<1>3. H2[n] = Dead /\ [H2 EXCEPT ![n] = Running] = [home EXCEPT ![n] = Running]
  BY <1>1 DEF IInv, Good, Typed
<1>4. L = Pair(L.next, L.prev)
  BY DEF LIST_REMOVE, Pair
<1>5. Move(NODE_REFRESH(L, n), n, Running)
  BY DEF Pick
<1> HIDE DEF L, H2, n
<1> QED BY <1>1, <1>2, <1>3, <1>4, <1>5, RefreshGood DEF Move, IInv

LEMMA StepGood ==
  ASSUME IInv, [Next]_vars, KillDead = FALSE
  PROVE  IInv'
<1>1. CASE Pick
  BY <1>1, PickGood
<1>2. ASSUME NEW n \in Nodes, Launch(n) PROVE IInv'
  <2>1. Links = Pair(next, prev)  BY DEF Links, Pair
  <2> QED BY <1>2, <2>1, AddTailGood, ListAssumption DEF Launch, Move, IInv
<1>3. ASSUME NEW n \in Nodes, PutBack(n) PROVE IInv'
  <2> DEFINE H2 == [home EXCEPT ![n] = Dead]
  <2>1. Good(next, prev, H2)
    BY <1>3, ForgetGood DEF PutBack, IInv
  <2>2. H2[n] = Dead /\ [H2 EXCEPT ![n] = ready] = [home EXCEPT ![n] = ready]
    BY DEF IInv, Good, Typed
  <2>3. Links = Pair(next, prev)  BY DEF Links, Pair
  <2> HIDE DEF H2
  <2> QED BY <1>3, <2>1, <2>2, <2>3, AddTailGood, ListAssumption DEF PutBack, Move, IInv
<1>4. ASSUME NEW n \in Nodes, do_unblock(n) PROVE IInv'
  BY <1>4, HeadGood, ListAssumption DEF do_unblock
<1>5. ASSUME NEW n \in Nodes, do_kill(n) PROVE IInv'
  <2>1. Links = Pair(next, prev)  BY DEF Links, Pair
  <2> QED BY <1>5, <2>1, RemoveGood DEF do_kill, Move, IInv
<1>6. ASSUME NEW n \in Nodes, NEW h \in Heads, do_block(n, h) PROVE IInv'
  BY <1>6, TailGood DEF do_block
<1>7. CASE UNCHANGED vars
  BY <1>7 DEF vars, IInv
<1> QED BY <1>1, <1>2, <1>3, <1>4, <1>5, <1>6, <1>7 DEF Next

-----------------------------------------------------------------------------
(***************************************************************************)
(* As long as no exited slot is killed again, next and prev are inverse on *)
(* every list of the kernel, no list runs into another, and the node of a  *)
(* running task is on none.                                                *)
(***************************************************************************)
THEOREM ListsStayLinked == KillDead = FALSE => (Spec => []Linked)
<1> SUFFICES ASSUME KillDead = FALSE PROVE Spec => []Linked
  OBVIOUS
<1>1. IInv /\ [Next]_vars => IInv'
  BY StepGood
<1>2. IInv => Linked
  BY DEF IInv, Good, Linked
<1> QED BY InitGood, <1>1, <1>2, PTL DEF Spec

(***************************************************************************)
(* Type correctness.                                                       *)
(***************************************************************************)
THEOREM ListTypes == KillDead = FALSE => (Spec => []TypeOK)
<1> SUFFICES ASSUME KillDead = FALSE PROVE Spec => []TypeOK
  OBVIOUS
<1>1. IInv /\ [Next]_vars => IInv'
  BY StepGood
<1>2. IInv => TypeOK
  BY DEF IInv, Good, Typed, TypeOK
<1> QED BY InitGood, <1>1, <1>2, PTL DEF Spec
-----------------------------------------------------------------------------
(***************************************************************************)
(* Rings: the pointers spell the sequences.  Cell 0 of a ring is the head, *)
(* then come the nodes of its sequence, and after the last one the head    *)
(* again.                                                                  *)
(***************************************************************************)
CellOf(h, q, i) == IF i \in 1 .. Len(q) THEN q[i] ELSE h

Spells(N, P, h, q) ==
  \A i \in 0 .. Len(q) : N[CellOf(h, q, i)] = CellOf(h, q, i + 1) /\ P[CellOf(h, q, i + 1)] = CellOf(h, q, i)

\* the sequence of a head holds the nodes that are at home there, once
Lists(H, Q) ==
  \A h \in Heads : /\ Q[h] \in Seq(Nodes) /\ IsInjective(Q[h])
                   /\ \A n \in Nodes : n \in Range(Q[h]) <=> H[n] = h

Spelt(N, P, H, Q) == Good(N, P, H) /\ Lists(H, Q) /\ \A h \in Heads : Spells(N, P, h, Q[h])

\* the cells of a ring are cells of one list, and all different
LEMMA CellsAre ==
  ASSUME NEW H, NEW Q, Lists(H, Q), NEW h \in Heads
  PROVE  /\ \A i \in Int : CellOf(h, Q[h], i) \in Cells /\ On(H, CellOf(h, Q[h], i))
                           /\ HomeOf(H, CellOf(h, Q[h], i)) = h
         /\ \A i, j \in 0 .. Len(Q[h]) : CellOf(h, Q[h], i) = CellOf(h, Q[h], j) => i = j
         /\ \A i, j \in 1 .. Len(Q[h]) + 1 : CellOf(h, Q[h], i) = CellOf(h, Q[h], j) => i = j
<1> DEFINE q == Q[h]
<1>1. q \in Seq(Nodes) /\ IsInjective(q) /\ \A n \in Nodes : n \in Range(q) <=> H[n] = h
  BY DEF Lists
<1> HIDE DEF q
<1>2. DOMAIN q = 1 .. Len(q) /\ Len(q) \in Nat /\ \A i \in 1 .. Len(q) : q[i] \in Nodes /\ H[q[i]] = h
  BY <1>1 DEF Range
<1>3. \A i, j \in 1 .. Len(q) : q[i] = q[j] => i = j
  BY <1>1, <1>2 DEF IsInjective
<1>4. \A i \in Int : CellOf(h, q, i) \in Cells /\ On(H, CellOf(h, q, i)) /\ HomeOf(H, CellOf(h, q, i)) = h
  BY <1>2, ListAssumption DEF CellOf, Cells, On, HomeOf
<1>5. \A i, j \in 0 .. Len(q) : CellOf(h, q, i) = CellOf(h, q, j) => i = j
  <2> TAKE i, j \in 0 .. Len(q)
  <2>1. (i \in 1 .. Len(q) \/ i = 0) /\ (j \in 1 .. Len(q) \/ j = 0) /\ 0 \notin 1 .. Len(q)
    BY <1>2
  <2> QED BY <1>2, <1>3, <2>1, ListAssumption DEF CellOf
<1>6. \A i, j \in 1 .. Len(q) + 1 : CellOf(h, q, i) = CellOf(h, q, j) => i = j
  <2> TAKE i, j \in 1 .. Len(q) + 1
  <2>1. /\ i \in 1 .. Len(q) \/ i = Len(q) + 1
        /\ j \in 1 .. Len(q) \/ j = Len(q) + 1
        /\ Len(q) + 1 \notin 1 .. Len(q)
    BY <1>2
  <2> QED BY <1>2, <1>3, <2>1, ListAssumption DEF CellOf
<1> QED BY <1>4, <1>5, <1>6 DEF q

\* a list whose cells a change leaves alone is still spelt
LEMMA OthersSpelt ==
  ASSUME NEW H, NEW Q, Lists(H, Q), NEW h \in Heads, NEW N, NEW P, Spells(N, P, h, Q[h]),
         NEW N2, NEW P2,
         \A c \in Cells : On(H, c) /\ HomeOf(H, c) = h => N2[c] = N[c] /\ P2[c] = P[c]
  PROVE  Spells(N2, P2, h, Q[h])
<1> DEFINE q == Q[h]
<1>1. Len(q) \in Nat
  BY DEF Lists
<1>2. \A i \in 0 .. Len(q) : i \in Int /\ i + 1 \in Int
  BY <1>1
<1>3. \A i \in Int : /\ N2[CellOf(h, q, i)] = N[CellOf(h, q, i)]
                     /\ P2[CellOf(h, q, i)] = P[CellOf(h, q, i)]
  BY CellsAre
<1> HIDE DEF q
<1>4. Spells(N, P, h, q)
  BY DEF q
<1>5. Spells(N2, P2, h, q)
  BY <1>2, <1>3, <1>4 DEF Spells
<1> QED BY <1>5 DEF q

\* how the cells are numbered when the node at j is taken out
LEMMA CellsWithout ==
  ASSUME NEW q \in Seq(Nodes), NEW h, NEW j \in 1 .. Len(q), NEW r \in Seq(Nodes),
         Len(r) = Len(q) - 1, \A k \in 1 .. (Len(q) - 1) : r[k] = IF k < j THEN q[k] ELSE q[k + 1]
  PROVE  \A i \in 0 .. Len(r) + 1 : CellOf(h, r, i) = IF i < j THEN CellOf(h, q, i) ELSE CellOf(h, q, i + 1)
<1> TAKE i \in 0 .. Len(r) + 1
<1>1. CASE i \in 1 .. Len(r)
  <2>1. i \in 1 .. Len(q) /\ i + 1 \in 1 .. Len(q)
    BY <1>1
  <2> QED BY <1>1, <2>1 DEF CellOf
<1>2. CASE i = 0
  <2>1. i \notin 1 .. Len(q) /\ i \notin 1 .. Len(r) /\ i < j
    BY <1>2
  <2> QED BY <2>1 DEF CellOf
<1>3. CASE i = Len(r) + 1
  <2>1. i + 1 \notin 1 .. Len(q) /\ i \notin 1 .. Len(r) /\ ~ (i < j)
    BY <1>3
  <2> QED BY <2>1 DEF CellOf
<1> QED BY <1>1, <1>2, <1>3

\* RemoveFirst, case by case
LEMMA NotTaken ==
  ASSUME NEW q \in Seq(Nodes), NEW n, n \notin Range(q)
  PROVE  RemoveFirst(q, n) = q
<1>1. \A i \in 1 .. Len(q) : q[i] # n
  BY DEF Range
<1> QED BY <1>1, RemoveFirstIs

LEMMA TakenOut ==
  ASSUME NEW q \in Seq(Nodes), NEW n \in Range(q)
  PROVE  \E j \in 1 .. Len(q) :
           /\ q[j] = n /\ RemoveFirst(q, n) \in Seq(Nodes) /\ Len(RemoveFirst(q, n)) = Len(q) - 1
           /\ \A k \in 1 .. (Len(q) - 1) : RemoveFirst(q, n)[k] = IF k < j THEN q[k] ELSE q[k + 1]
BY RemoveFirstIs

LEMMA RemoveSpelt ==
  ASSUME NEW N, NEW P, NEW H, NEW Q, Spelt(N, P, H, Q), NEW n \in Nodes, H[n] # Dead
  PROVE  LET L == LIST_REMOVE(Pair(N, P), n)
         IN  Spelt(L.next, L.prev, [H EXCEPT ![n] = Dead], [g \in Heads |-> RemoveFirst(Q[g], n)])
<1> DEFINE N2 == [N EXCEPT ![P[n]] = N[n]]
           P2 == [P EXCEPT ![N[n]] = P[n]]
           H2 == [H EXCEPT ![n] = Dead]
           Q2 == [g \in Heads |-> RemoveFirst(Q[g], n)]
<1>1. /\ Good(N, P, H) /\ Lists(H, Q) /\ \A h \in Heads : Spells(N, P, h, Q[h])
      /\ N \in [Cells -> Cells] /\ P \in [Cells -> Cells] /\ H \in [Nodes -> Heads \cup {Running, Dead}]
      /\ n \in Cells
  BY DEF Spelt, Good, Typed, Cells
<1>2. Good(N2, P2, H2)
  BY <1>1, RemoveGood DEF LIST_REMOVE, Pair
<1>3. \A g \in Heads : Q2[g] = RemoveFirst(Q[g], n)
  OBVIOUS
<1>4. /\ \A m \in Nodes : H2[m] = IF m = n THEN Dead ELSE H[m]
      /\ \A c \in Cells : (c # P[n] => N2[c] = N[c]) /\ (c # N[n] => P2[c] = P[c])
      /\ N2[P[n]] = N[n] /\ P2[N[n]] = P[n] /\ P[n] \in Cells /\ N[n] \in Cells
  BY <1>1
<1> HIDE DEF N2, P2, H2, Q2
<1>5. Lists(H2, Q2)
  <2> SUFFICES ASSUME NEW h \in Heads
               PROVE  /\ Q2[h] \in Seq(Nodes) /\ IsInjective(Q2[h])
                      /\ \A m \in Nodes : m \in Range(Q2[h]) <=> H2[m] = h
    BY DEF Lists
  <2>1. /\ Q2[h] \in Seq(Nodes) /\ IsInjective(Q2[h]) /\ Range(Q2[h]) = Range(Q[h]) \ {n}
    BY <1>1, <1>3, RemoveFirstRange DEF Lists
  <2> QED BY <1>1, <1>4, <2>1, ListAssumption DEF Lists
<1>6. ASSUME NEW h \in Heads PROVE Spells(N2, P2, h, Q2[h])
  <2> DEFINE q == Q[h]
             r == Q2[h]
  <2>1. /\ q \in Seq(Nodes) /\ Len(q) \in Nat /\ (n \in Range(q) <=> H[n] = h) /\ r = RemoveFirst(q, n)
        /\ Spells(N, P, h, q)
    BY <1>1, <1>3 DEF Lists
  <2> HIDE DEF r
  <2>2. CASE H[n] # h
    <3>1. r = q
      <4> HIDE DEF q
      <4>1. q \in Seq(Nodes) /\ n \notin Range(q)
        BY <2>1, <2>2
      <4>2. RemoveFirst(q, n) = q
        BY ONLY <4>1, NotTaken
      <4> QED BY <2>1, <4>2
    <3>2. CASE H[n] = Running
      <4>1. N[n] = n /\ P[n] = n
        BY <1>1, <3>2 DEF Good, LinkedAs
      <4>2. \A c \in Cells : N2[c] = N[c] /\ P2[c] = P[c]
        BY <1>4, <4>1
      <4> QED BY <1>1, <2>1, <3>1, <4>2, OthersSpelt DEF r
    <3>3. CASE H[n] \in Heads
      <4>1. HomeOf(H, N[n]) # h /\ HomeOf(H, P[n]) # h
        <5>1. On(H, n) /\ HomeOf(H, n) = H[n]
          BY <3>3, ListAssumption DEF On, HomeOf
        <5> QED BY <1>1, <2>2, <5>1 DEF Good, LinkedAs
      <4>2. \A c \in Cells : On(H, c) /\ HomeOf(H, c) = h => N2[c] = N[c] /\ P2[c] = P[c]
        BY <1>4, <4>1
      <4> QED BY <1>1, <2>1, <3>1, <4>2, OthersSpelt DEF r
    <3> QED BY <1>1, <3>2, <3>3
  <2>3. CASE H[n] = h
    <3>1. PICK j \in 1 .. Len(q) :
            /\ q[j] = n /\ r \in Seq(Nodes) /\ Len(r) = Len(q) - 1
            /\ \A k \in 1 .. (Len(q) - 1) : r[k] = IF k < j THEN q[k] ELSE q[k + 1]
      <4> HIDE DEF q
      <4>1. q \in Seq(Nodes) /\ n \in Range(q)
        BY <2>1, <2>3
      <4> QED BY ONLY <2>1, <4>1, TakenOut
    <3> DEFINE c(i) == CellOf(h, q, i)
    <3>2. \A i \in 0 .. Len(r) + 1 : CellOf(h, r, i) = IF i < j THEN c(i) ELSE c(i + 1)
      <4> HIDE DEF q, r
      <4>1. q \in Seq(Nodes) /\ r \in Seq(Nodes) /\ j \in 1 .. Len(q)
        BY <2>1, <3>1
      <4> QED BY ONLY <3>1, <4>1, CellsWithout DEF c
    <3>3. /\ \A i \in Int : c(i) \in Cells
          /\ \A i, k \in 0 .. Len(q) : c(i) = c(k) => i = k
          /\ \A i, k \in 1 .. Len(q) + 1 : c(i) = c(k) => i = k
      BY <1>1, CellsAre
    <3>4. \A i \in 0 .. Len(q) : N[c(i)] = c(i + 1) /\ P[c(i + 1)] = c(i)
      BY <2>1 DEF Spells
    <3>5. c(j) = n
      BY <3>1 DEF CellOf
    <3> HIDE DEF c, q
    <3>6. N[n] = c(j + 1) /\ P[n] = c(j - 1)
      <4>1. j \in 0 .. Len(q) /\ j - 1 \in 0 .. Len(q) /\ (j - 1) + 1 = j
        BY <2>1
      <4> QED BY <3>4, <3>5, <4>1
    <3>7. ASSUME NEW i \in 0 .. Len(r)
          PROVE  N2[CellOf(h, r, i)] = CellOf(h, r, i + 1) /\ P2[CellOf(h, r, i + 1)] = CellOf(h, r, i)
      <4>1. i \in 0 .. Len(r) + 1 /\ i + 1 \in 0 .. Len(r) + 1 /\ Len(r) = Len(q) - 1
        BY <2>1, <3>1
      <4>2. CASE i + 1 < j
        <5>1. CellOf(h, r, i) = c(i) /\ CellOf(h, r, i + 1) = c(i + 1)
          BY <2>1, <3>2, <4>1, <4>2
        <5>2. /\ i \in 0 .. Len(q) /\ j - 1 \in 0 .. Len(q) /\ i # j - 1
              /\ i + 1 \in 1 .. Len(q) + 1 /\ j + 1 \in 1 .. Len(q) + 1 /\ i + 1 # j + 1
          BY <2>1, <4>1, <4>2
        <5>3. c(i) # P[n] /\ c(i + 1) # N[n]
          BY <3>3, <3>6, <5>2
        <5>4. c(i) \in Cells /\ c(i + 1) \in Cells
          BY <3>3
        <5> QED BY <1>4, <3>4, <5>1, <5>2, <5>3, <5>4
      <4>3. CASE i + 1 = j
        <5>1. CellOf(h, r, i) = c(j - 1) /\ CellOf(h, r, i + 1) = c(j + 1)
          <6>1. i < j /\ ~ (i + 1 < j) /\ i = j - 1 /\ (i + 1) + 1 = j + 1
            BY <4>3
          <6> QED BY <3>2, <4>1, <6>1
        <5> QED BY <1>4, <3>6, <5>1
      <4>4. CASE j < i + 1
        <5>1. CellOf(h, r, i) = c(i + 1) /\ CellOf(h, r, i + 1) = c(i + 1 + 1)
          BY <2>1, <3>2, <4>1, <4>4
        <5>2. /\ i + 1 \in 0 .. Len(q) /\ j - 1 \in 0 .. Len(q) /\ i + 1 # j - 1
              /\ i + 1 + 1 \in 1 .. Len(q) + 1 /\ j + 1 \in 1 .. Len(q) + 1 /\ i + 1 + 1 # j + 1
          BY <2>1, <4>1, <4>4
        <5>3. c(i + 1) # P[n] /\ c(i + 1 + 1) # N[n]
          BY <3>3, <3>6, <5>2
        <5>4. c(i + 1) \in Cells /\ c(i + 1 + 1) \in Cells
          BY <3>3, <5>2
        <5> QED BY <1>4, <3>4, <5>1, <5>2, <5>3, <5>4
      <4>5. i + 1 < j \/ i + 1 = j \/ j < i + 1
        BY <2>1
      <4> QED BY <4>2, <4>3, <4>4, <4>5
    <3> QED BY <3>7 DEF Spells, r
  <2> QED BY <2>2, <2>3
<1>7. Spelt(N2, P2, H2, Q2)
  BY <1>2, <1>5, <1>6 DEF Spelt
<1> QED BY <1>7 DEF LIST_REMOVE, Pair, N2, P2, H2, Q2

(***************************************************************************)
(* A node on no list goes to the tail of one, or to its head.              *)
(***************************************************************************)
LEMMA AddTailSpelt ==
  ASSUME NEW N, NEW P, NEW H, NEW Q, Spelt(N, P, H, Q), NEW n \in Nodes, H[n] = Dead, NEW h \in Heads,
         NEW Q2, \A g \in Heads : Q2[g] = IF g = h THEN Append(Q[g], n) ELSE Q[g]
  PROVE  LET L == LIST_ADD_TAIL(Pair(N, P), h, n)
         IN  Spelt(L.next, L.prev, [H EXCEPT ![n] = h], Q2)
<1> DEFINE N2 == [N EXCEPT ![n] = h, ![P[h]] = n]
           P2 == [P EXCEPT ![n] = P[h], ![h] = n]
           H2 == [H EXCEPT ![n] = h]
<1>1. /\ Good(N, P, H) /\ Lists(H, Q) /\ \A g \in Heads : Spells(N, P, g, Q[g])
      /\ N \in [Cells -> Cells] /\ P \in [Cells -> Cells] /\ H \in [Nodes -> Heads \cup {Running, Dead}]
      /\ n \in Cells /\ h \in Cells /\ n # h /\ P[h] \in Cells
  BY ListAssumption DEF Spelt, Good, Typed, Cells
<1>2. Good(N2, P2, H2)
  BY <1>1, AddTailGood DEF LIST_ADD_TAIL, Pair
<1>3. ~ On(H, n) /\ On(H, P[h]) /\ HomeOf(H, P[h]) = h
  BY <1>1, ListAssumption DEF Good, LinkedAs, On, HomeOf
<1>4. /\ \A m \in Nodes : H2[m] = IF m = n THEN h ELSE H[m]
      /\ \A c \in Cells : (c # n /\ c # P[h] => N2[c] = N[c]) /\ (c # n /\ c # h => P2[c] = P[c])
      /\ N2[n] = h /\ N2[P[h]] = n /\ P2[n] = P[h] /\ P2[h] = n
  BY <1>1, <1>3
<1> HIDE DEF N2, P2, H2
<1>5. Lists(H2, Q2)
  <2> SUFFICES ASSUME NEW g \in Heads
               PROVE  /\ Q2[g] \in Seq(Nodes) /\ IsInjective(Q2[g])
                      /\ \A m \in Nodes : m \in Range(Q2[g]) <=> H2[m] = g
    BY DEF Lists
  <2> DEFINE q == Q[g]
             r == Append(q, n)
  <2>1. q \in Seq(Nodes) /\ IsInjective(q) /\ (\A m \in Nodes : m \in Range(q) <=> H[m] = g)
    BY <1>1 DEF Lists
  <2>2. n \notin Range(q)
    BY <2>1, ListAssumption
  <2> HIDE DEF q
  <2>3. r \in Seq(Nodes) /\ IsInjective(r) /\ Range(r) = Range(q) \cup {n}
    <3>1. /\ r \in Seq(Nodes) /\ Len(r) = Len(q) + 1 /\ Len(q) \in Nat /\ r[Len(q) + 1] = n
          /\ \A i \in 1 .. Len(q) : r[i] = q[i]
      BY <2>1
    <3>2. DOMAIN r = 1 .. Len(q) + 1 /\ DOMAIN q = 1 .. Len(q)
      BY <2>1, <3>1
    <3>3. \A i \in 1 .. Len(q) + 1 : i \in 1 .. Len(q) \/ i = Len(q) + 1
      BY <3>1
    <3>4. 1 .. Len(q) \subseteq 1 .. Len(q) + 1 /\ Len(q) + 1 \in 1 .. Len(q) + 1
      BY <3>1
    <3> HIDE DEF r
    <3>5. IsInjective(r)
      BY <2>1, <2>2, <3>1, <3>2, <3>3 DEF IsInjective, Range
    <3>6. Range(r) = Range(q) \cup {n}
      BY <3>1, <3>2, <3>3, <3>4 DEF Range
    <3> QED BY <3>1, <3>5, <3>6
  <2>4. Q2[g] = IF g = h THEN r ELSE q
    BY DEF q
  <2> HIDE DEF r
  <2> QED BY <1>4, <2>1, <2>3, <2>4, ListAssumption
<1>6. ASSUME NEW g \in Heads PROVE Spells(N2, P2, g, Q2[g])
  <2>1. CASE g # h
    <3>1. \A c \in Cells : On(H, c) /\ HomeOf(H, c) = g => c # n /\ c # P[h] /\ c # h
      BY <1>1, <1>3, <2>1 DEF HomeOf
    <3>2. \A c \in Cells : On(H, c) /\ HomeOf(H, c) = g => N2[c] = N[c] /\ P2[c] = P[c]
      BY <1>4, <3>1
    <3>3. Spells(N2, P2, g, Q[g])
      BY <1>1, <3>2, OthersSpelt
    <3> QED BY <2>1, <3>3
  <2>2. CASE g = h
    <3> DEFINE q == Q[h]
               r == Append(q, n)
               c(i) == CellOf(h, q, i)
    <3>1. q \in Seq(Nodes) /\ Spells(N, P, h, q)
      BY <1>1 DEF Lists
    <3>2. /\ \A i \in Int : c(i) \in Cells /\ On(H, c(i))
          /\ \A i, k \in 0 .. Len(q) : c(i) = c(k) => i = k
      BY <1>1, CellsAre
    <3> HIDE DEF q
    <3>3. \A i \in 0 .. Len(q) : N[c(i)] = c(i + 1) /\ P[c(i + 1)] = c(i)
      BY <3>1 DEF Spells
    <3>4. /\ Len(q) \in Nat /\ Len(r) = Len(q) + 1 /\ r[Len(q) + 1] = n
          /\ \A i \in 1 .. Len(q) : r[i] = q[i]
      BY <3>1
    <3> HIDE DEF r
    <3>5. c(0) = h /\ c(Len(q) + 1) = h
      <4>1. 0 \notin 1 .. Len(q) /\ Len(q) + 1 \notin 1 .. Len(q)
        BY <3>4
      <4> QED BY <4>1 DEF CellOf
    <3>6. P[h] = c(Len(q))
      BY <3>3, <3>4, <3>5
    <3>7. \A i \in 0 .. Len(q) : CellOf(h, r, i) = c(i)
      <4> TAKE i \in 0 .. Len(q)
      <4>1. CASE i \in 1 .. Len(q)
        <5>1. i \in 1 .. Len(r)
          BY <3>4, <4>1
        <5> QED BY <3>4, <4>1, <5>1 DEF CellOf
      <4>2. CASE i = 0
        <5>1. i \notin 1 .. Len(r) /\ i \notin 1 .. Len(q)
          BY <4>2
        <5> QED BY <5>1 DEF CellOf
      <4> QED BY <3>4, <4>1, <4>2
    <3>8. CellOf(h, r, Len(q) + 1) = n /\ CellOf(h, r, Len(q) + 2) = h
      <4>1. Len(q) + 1 \in 1 .. Len(r) /\ Len(q) + 2 \notin 1 .. Len(r)
        BY <3>4
      <4> QED BY <3>4, <4>1 DEF CellOf
    <3> HIDE DEF c
    <3>9. ASSUME NEW i \in 0 .. Len(r)
          PROVE  N2[CellOf(h, r, i)] = CellOf(h, r, i + 1) /\ P2[CellOf(h, r, i + 1)] = CellOf(h, r, i)
      <4>1. CASE i \in 0 .. Len(q) /\ i # Len(q)
        <5>1. i + 1 \in 0 .. Len(q) /\ Len(q) \in 0 .. Len(q) /\ 0 \in 0 .. Len(q) /\ i + 1 # 0 /\ i \in Int
          BY <3>4, <4>1
        <5>2. c(i) # n /\ c(i + 1) # n /\ c(i) \in Cells /\ c(i + 1) \in Cells
          BY <1>3, <3>2, <5>1
        <5>3. c(i) # P[h] /\ c(i + 1) # h
          BY <3>2, <3>5, <3>6, <4>1, <5>1
        <5> QED BY <1>4, <3>3, <3>7, <4>1, <5>1, <5>2, <5>3
      <4>2. CASE i = Len(q)
        <5>1. i \in 0 .. Len(q)
          BY <3>4, <4>2
        <5> QED BY <1>4, <3>6, <3>7, <3>8, <4>2, <5>1
      <4>3. CASE i = Len(q) + 1
        <5>1. i + 1 = Len(q) + 2
          BY <3>4, <4>3
        <5> QED BY <1>4, <3>8, <4>3, <5>1
      <4> QED BY <3>4, <4>1, <4>2, <4>3
    <3>10. Spells(N2, P2, h, r)
      BY <3>9 DEF Spells
    <3>11. Q2[g] = r
      BY <2>2 DEF q, r
    <3> QED BY <2>2, <3>10, <3>11
  <2> QED BY <2>1, <2>2
<1>7. Spelt(N2, P2, H2, Q2)
  BY <1>2, <1>5, <1>6 DEF Spelt
<1> QED BY <1>7 DEF LIST_ADD_TAIL, Pair, N2, P2, H2

LEMMA AddHeadSpelt ==
  ASSUME NEW N, NEW P, NEW H, NEW Q, Spelt(N, P, H, Q), NEW n \in Nodes, H[n] = Dead, NEW h \in Heads,
         NEW Q2, \A g \in Heads : Q2[g] = IF g = h THEN <<n>> \o Q[g] ELSE Q[g]
  PROVE  LET L == LIST_ADD_HEAD(Pair(N, P), h, n)
         IN  Spelt(L.next, L.prev, [H EXCEPT ![n] = h], Q2)
<1> DEFINE N2 == [N EXCEPT ![n] = N[h], ![h] = n]
           P2 == [P EXCEPT ![n] = h, ![N[h]] = n]
           H2 == [H EXCEPT ![n] = h]
<1>1. /\ Good(N, P, H) /\ Lists(H, Q) /\ \A g \in Heads : Spells(N, P, g, Q[g])
      /\ N \in [Cells -> Cells] /\ P \in [Cells -> Cells] /\ H \in [Nodes -> Heads \cup {Running, Dead}]
      /\ n \in Cells /\ h \in Cells /\ n # h /\ N[h] \in Cells
  BY ListAssumption DEF Spelt, Good, Typed, Cells
<1>2. Good(N2, P2, H2)
  BY <1>1, AddHeadGood DEF LIST_ADD_HEAD, Pair
<1>3. ~ On(H, n) /\ On(H, N[h]) /\ HomeOf(H, N[h]) = h
  BY <1>1, ListAssumption DEF Good, LinkedAs, On, HomeOf
<1>4. /\ \A m \in Nodes : H2[m] = IF m = n THEN h ELSE H[m]
      /\ \A c \in Cells : (c # n /\ c # h => N2[c] = N[c]) /\ (c # n /\ c # N[h] => P2[c] = P[c])
      /\ N2[n] = N[h] /\ N2[h] = n /\ P2[n] = h /\ P2[N[h]] = n
  BY <1>1, <1>3
<1> HIDE DEF N2, P2, H2
<1>5. Lists(H2, Q2)
  <2> SUFFICES ASSUME NEW g \in Heads
               PROVE  /\ Q2[g] \in Seq(Nodes) /\ IsInjective(Q2[g])
                      /\ \A m \in Nodes : m \in Range(Q2[g]) <=> H2[m] = g
    BY DEF Lists
  <2> DEFINE q == Q[g]
             r == <<n>> \o q
  <2>1. q \in Seq(Nodes) /\ IsInjective(q) /\ (\A m \in Nodes : m \in Range(q) <=> H[m] = g)
    BY <1>1 DEF Lists
  <2>2. n \notin Range(q)
    BY <2>1, ListAssumption
  <2> HIDE DEF q
  <2>3. r \in Seq(Nodes) /\ IsInjective(r) /\ Range(r) = Range(q) \cup {n}
    <3>1. /\ r \in Seq(Nodes) /\ Len(r) = Len(q) + 1 /\ Len(q) \in Nat /\ r[1] = n
          /\ \A i \in 1 .. Len(q) : r[i + 1] = q[i]
      BY <2>1
    <3>2. DOMAIN r = 1 .. Len(q) + 1 /\ DOMAIN q = 1 .. Len(q)
      BY <2>1, <3>1
    <3>3. \A i \in 1 .. Len(q) + 1 : i = 1 \/ (i - 1 \in 1 .. Len(q) /\ (i - 1) + 1 = i)
      BY <3>1
    <3>4. 1 \in 1 .. Len(q) + 1 /\ \A i \in 1 .. Len(q) : i + 1 \in 1 .. Len(q) + 1
      BY <3>1
    <3> HIDE DEF r
    <3>5. \A i \in 1 .. Len(q) + 1 : i = 1 \/ (i - 1 \in 1 .. Len(q) /\ r[i] = q[i - 1])
      BY <3>1, <3>3
    <3>6. IsInjective(r)
      <4> SUFFICES ASSUME NEW i \in 1 .. Len(q) + 1, NEW j \in 1 .. Len(q) + 1, r[i] = r[j] PROVE i = j
        BY <3>2 DEF IsInjective
      <4>0. \A k \in 1 .. Len(q) : q[k] # n
        BY <2>2, <3>2 DEF Range
      <4>1. CASE i = 1 \/ j = 1
        BY <3>1, <3>5, <4>0, <4>1
      <4>2. CASE i # 1 /\ j # 1
        <5>1. i - 1 \in DOMAIN q /\ j - 1 \in DOMAIN q /\ q[i - 1] = q[j - 1]
          BY <3>2, <3>5, <4>2
        <5>2. i - 1 = j - 1
          BY <2>1, <5>1 DEF IsInjective
        <5> QED BY <5>2
      <4> QED BY <4>1, <4>2
    <3>7. Range(r) = Range(q) \cup {n}
      <4>1. \A i \in 1 .. Len(q) + 1 : r[i] = n \/ r[i] \in Range(q)
        BY <3>1, <3>2, <3>5 DEF Range
      <4>2. n \in Range(r) /\ \A i \in 1 .. Len(q) : q[i] \in Range(r)
        BY <3>1, <3>2, <3>4 DEF Range
      <4>3. \A x \in Range(r) : x = n \/ x \in Range(q)
        BY <3>2, <4>1 DEF Range
      <4>4. \A x \in Range(q) : x \in Range(r)
        BY <3>2, <4>2 DEF Range
      <4> QED BY <4>2, <4>3, <4>4
    <3> QED BY <3>1, <3>6, <3>7
  <2>4. Q2[g] = IF g = h THEN r ELSE q
    BY DEF q
  <2> HIDE DEF r
  <2> QED BY <1>4, <2>1, <2>3, <2>4, ListAssumption
<1>6. ASSUME NEW g \in Heads PROVE Spells(N2, P2, g, Q2[g])
  <2>1. CASE g # h
    <3>1. \A c \in Cells : On(H, c) /\ HomeOf(H, c) = g => c # n /\ c # N[h] /\ c # h
      BY <1>1, <1>3, <2>1 DEF HomeOf
    <3>2. \A c \in Cells : On(H, c) /\ HomeOf(H, c) = g => N2[c] = N[c] /\ P2[c] = P[c]
      BY <1>4, <3>1
    <3>3. Spells(N2, P2, g, Q[g])
      <4>1. g \in Heads /\ Lists(H, Q) /\ Spells(N, P, g, Q[g])
        BY <1>1
      <4> QED BY ONLY <3>2, <4>1, OthersSpelt
    <3> QED BY <2>1, <3>3
  <2>2. CASE g = h
    <3> DEFINE q == Q[h]
               r == <<n>> \o q
               c(i) == CellOf(h, q, i)
    <3>1. q \in Seq(Nodes) /\ Spells(N, P, h, q)
      BY <1>1 DEF Lists
    <3>2. /\ \A i \in Int : c(i) \in Cells /\ On(H, c(i))
          /\ \A i, k \in 0 .. Len(q) : c(i) = c(k) => i = k
          /\ \A i, k \in 1 .. Len(q) + 1 : c(i) = c(k) => i = k
      BY <1>1, CellsAre
    <3> HIDE DEF q
    <3>3. \A i \in 0 .. Len(q) : N[c(i)] = c(i + 1) /\ P[c(i + 1)] = c(i)
      BY <3>1 DEF Spells
    <3>4. /\ Len(q) \in Nat /\ Len(r) = Len(q) + 1 /\ r[1] = n
          /\ \A i \in 1 .. Len(q) : r[i + 1] = q[i]
      BY <3>1
    <3> HIDE DEF r
    <3>5. c(0) = h
      <4>1. 0 \notin 1 .. Len(q)
        BY <3>4
      <4> QED BY <4>1 DEF CellOf
    <3>6. N[h] = c(1)
      BY <3>3, <3>4, <3>5
    <3>7. \A i \in 1 .. Len(q) + 1 : CellOf(h, r, i + 1) = c(i)
      <4> TAKE i \in 1 .. Len(q) + 1
      <4>1. CASE i \in 1 .. Len(q)
        <5>1. i + 1 \in 1 .. Len(r)
          BY <3>4, <4>1
        <5> QED BY <3>4, <4>1, <5>1 DEF CellOf
      <4>2. CASE i = Len(q) + 1
        <5>1. i + 1 \notin 1 .. Len(r) /\ i \notin 1 .. Len(q)
          BY <3>4, <4>2
        <5> QED BY <5>1 DEF CellOf
      <4> QED BY <3>4, <4>1, <4>2
    <3>8. CellOf(h, r, 0) = h /\ CellOf(h, r, 1) = n
      <4>1. 1 \in 1 .. Len(r) /\ 0 \notin 1 .. Len(r)
        BY <3>4
      <4> QED BY <3>4, <4>1 DEF CellOf
    <3> HIDE DEF c
    <3>9. ASSUME NEW i \in 0 .. Len(r)
          PROVE  N2[CellOf(h, r, i)] = CellOf(h, r, i + 1) /\ P2[CellOf(h, r, i + 1)] = CellOf(h, r, i)
      <4>1. CASE i = 0
        <5>1. i + 1 = 1
          BY <4>1
        <5> QED BY <1>4, <3>8, <4>1, <5>1
      <4>2. CASE i = 1
        <5>1. 1 \in 1 .. Len(q) + 1
          BY <3>4
        <5> QED BY <1>4, <3>6, <3>7, <3>8, <4>2, <5>1
      <4>3. CASE i # 0 /\ i # 1
        <5> DEFINE k == i - 1
        <5>1. /\ k \in 0 .. Len(q) /\ k + 1 = i /\ 0 \in 0 .. Len(q) /\ k # 0 /\ k \in 1 .. Len(q) + 1
              /\ k + 1 \in 1 .. Len(q) + 1 /\ 1 \in 1 .. Len(q) + 1 /\ k + 1 # 1 /\ k \in Int /\ k + 1 \in Int
          BY <3>4, <4>3
        <5> HIDE DEF k
        <5>2. c(k) # n /\ c(k + 1) # n /\ c(k) \in Cells /\ c(k + 1) \in Cells
          BY <1>3, <3>2, <5>1
        <5>3. c(k) # h /\ c(k + 1) # N[h]
          BY <3>2, <3>5, <3>6, <5>1
        <5>4. N2[c(k)] = c(k + 1) /\ P2[c(k + 1)] = c(k)
          BY <1>4, <3>3, <5>1, <5>2, <5>3
        <5>5. CellOf(h, r, i) = c(k) /\ CellOf(h, r, i + 1) = c(k + 1)
          BY <3>7, <5>1
        <5> QED BY <5>4, <5>5
      <4> QED BY <4>1, <4>2, <4>3
    <3>10. Spells(N2, P2, h, r)
      BY <3>9 DEF Spells
    <3>11. Q2[g] = r
      BY <2>2 DEF q, r
    <3> QED BY <2>2, <3>10, <3>11
  <2> QED BY <2>1, <2>2
<1>7. Spelt(N2, P2, H2, Q2)
  BY <1>2, <1>5, <1>6 DEF Spelt
<1> QED BY <1>7 DEF LIST_ADD_HEAD, Pair, N2, P2, H2

(***************************************************************************)
(* The node of a running task becomes one on no list, and the other way.   *)
(***************************************************************************)
LEMMA ForgetSpelt ==
  ASSUME NEW N, NEW P, NEW H, NEW Q, Spelt(N, P, H, Q), NEW n \in Nodes, H[n] = Running
  PROVE  Spelt(N, P, [H EXCEPT ![n] = Dead], Q)
<1>1. Good(N, P, [H EXCEPT ![n] = Dead])
  BY ForgetGood DEF Spelt
<1>2. Lists([H EXCEPT ![n] = Dead], Q)
  BY ListAssumption DEF Spelt, Good, Typed, Lists
<1> QED BY <1>1, <1>2 DEF Spelt

LEMMA RefreshSpelt ==
  ASSUME NEW N, NEW P, NEW H, NEW Q, Spelt(N, P, H, Q), NEW n \in Nodes, H[n] = Dead
  PROVE  LET L == NODE_REFRESH(Pair(N, P), n)
         IN  Spelt(L.next, L.prev, [H EXCEPT ![n] = Running], Q)
<1> DEFINE N2 == [N EXCEPT ![n] = n]
           P2 == [P EXCEPT ![n] = n]
           H2 == [H EXCEPT ![n] = Running]
<1>1. Good(N2, P2, H2)
  BY RefreshGood DEF Spelt, NODE_REFRESH, Pair
<1>2. Lists(H2, Q)
  BY ListAssumption DEF Spelt, Good, Typed, Lists
<1>3. ASSUME NEW g \in Heads PROVE Spells(N2, P2, g, Q[g])
  <2>1. \A c \in Cells : On(H, c) => N2[c] = N[c] /\ P2[c] = P[c]
    BY ListAssumption DEF Spelt, Good, Typed, Cells, On
  <2> HIDE DEF N2, P2
  <2> QED BY <2>1, OthersSpelt DEF Spelt
<1>4. Spelt(N2, P2, H2, Q)
  BY <1>1, <1>2, <1>3 DEF Spelt
<1> QED BY <1>4 DEF NODE_REFRESH, Pair

-----------------------------------------------------------------------------
SInv == Spelt(next, prev, home, queue)

LEMMA InitSpelt == Init => SInv
<1> SUFFICES ASSUME Init PROVE SInv
  OBVIOUS
<1>1. Good(next, prev, home)
  BY InitGood DEF IInv
<1>2. \A h \in Heads : queue[h] = <<>> /\ next[h] = h /\ prev[h] = h
  BY DEF Init, Cells
<1>3. <<>> \in Seq(Nodes) /\ IsInjective(<<>>) /\ Range(<<>>) = {} /\ Len(<<>>) = 0
  BY DEF IsInjective, Range
<1>4. Lists(home, queue)
  BY <1>2, <1>3, ListAssumption DEF Init, Lists
<1>5. \A h \in Heads : Spells(next, prev, h, queue[h])
  BY <1>2, <1>3 DEF Spells, CellOf
<1> QED BY <1>1, <1>4, <1>5 DEF SInv, Spelt

\* taking a node off all lists changes nothing when it is on none
LEMMA OnNone ==
  ASSUME NEW H, NEW Q, Lists(H, Q), NEW n \in Nodes, H[n] \notin Heads
  PROVE  \A g \in Heads : RemoveFirst(Q[g], n) = Q[g]
<1> TAKE g \in Heads
<1> DEFINE q == Q[g]
<1>1. q \in Seq(Nodes) /\ n \notin Range(q)
  BY DEF Lists
<1> HIDE DEF q
<1>2. RemoveFirst(q, n) = q
  BY <1>1, NotTaken
<1> QED BY <1>2 DEF q

LEMMA TailSpelled ==
  ASSUME SInv, NEW n \in Nodes, home[n] # Dead, NEW h \in Heads, queue' = ToTail(n, h),
         Move(LIST_ADD_TAIL(LIST_REMOVE(Links, n), h, n), n, h)
  PROVE  SInv'
<1> DEFINE L == LIST_REMOVE(Links, n)
           H2 == [home EXCEPT ![n] = Dead]
           Q2 == Without(n)
<1>1. Spelt(L.next, L.prev, H2, Q2)
  BY RemoveSpelt DEF SInv, Pair, Links, Without
<1>2. H2[n] = Dead /\ [H2 EXCEPT ![n] = h] = [home EXCEPT ![n] = h]
  BY DEF SInv, Spelt, Good, Typed
<1>3. L = Pair(L.next, L.prev)
  BY DEF LIST_REMOVE, Pair
<1>4. \A g \in Heads : queue'[g] = IF g = h THEN Append(Q2[g], n) ELSE Q2[g]
  BY DEF ToTail, Without
<1> HIDE DEF L, H2, Q2
<1> QED BY <1>1, <1>2, <1>3, <1>4, AddTailSpelt DEF Move, SInv, L

LEMMA HeadSpelled ==
  ASSUME SInv, NEW n \in Nodes, home[n] # Dead, NEW h \in Heads, queue' = ToHead(n, h),
         Move(LIST_ADD_HEAD(LIST_REMOVE(Links, n), h, n), n, h)
  PROVE  SInv'
<1> DEFINE L == LIST_REMOVE(Links, n)
           H2 == [home EXCEPT ![n] = Dead]
           Q2 == Without(n)
<1>1. Spelt(L.next, L.prev, H2, Q2)
  BY RemoveSpelt DEF SInv, Pair, Links, Without
<1>2. H2[n] = Dead /\ [H2 EXCEPT ![n] = h] = [home EXCEPT ![n] = h]
  BY DEF SInv, Spelt, Good, Typed
<1>3. L = Pair(L.next, L.prev)
  BY DEF LIST_REMOVE, Pair
<1>4. \A g \in Heads : queue'[g] = IF g = h THEN <<n>> \o Q2[g] ELSE Q2[g]
  BY DEF ToHead, Without
<1> HIDE DEF L, H2, Q2
<1> QED BY <1>1, <1>2, <1>3, <1>4, AddHeadSpelt DEF Move, SInv, L

LEMMA PickSpelled == ASSUME SInv, Pick PROVE SInv'
<1> DEFINE n == next[ready]
           L == LIST_REMOVE(Links, n)
           H2 == [home EXCEPT ![n] = Dead]
<1>1. n \in Nodes /\ home[n] = ready /\ home[n] # Dead
  BY FirstIsNode, ListAssumption DEF Pick, SInv, Spelt, IInv
<1>2. Spelt(L.next, L.prev, H2, Without(n))
  BY <1>1, RemoveSpelt DEF SInv, Pair, Links, Without
<1>3. H2[n] = Dead /\ [H2 EXCEPT ![n] = Running] = [home EXCEPT ![n] = Running]
  BY <1>1 DEF SInv, Spelt, Good, Typed
<1>4. L = Pair(L.next, L.prev)
  BY DEF LIST_REMOVE, Pair
<1>5. Move(NODE_REFRESH(L, n), n, Running) /\ queue' = Without(n)
  BY DEF Pick
<1> HIDE DEF L, H2, n
<1> QED BY <1>1, <1>2, <1>3, <1>4, <1>5, RefreshSpelt DEF Move, SInv

\* a node on no list is linked without LIST_REMOVE
LEMMA LinkSpelled ==
  ASSUME SInv, NEW n \in Nodes, home[n] \in {Dead, Running}, queue' = ToTail(n, ready),
         Move(LIST_ADD_TAIL(Links, ready, n), n, ready)
  PROVE  SInv'
<1> DEFINE H2 == [home EXCEPT ![n] = Dead]
<1>1. Links = Pair(next, prev)
  BY DEF Links, Pair
<1>2. ready \in Heads /\ home[n] \notin Heads
  BY ListAssumption
<1>3. \A g \in Heads : RemoveFirst(queue[g], n) = queue[g]
  BY <1>2, OnNone DEF SInv, Spelt
<1>4. \A g \in Heads : queue'[g] = IF g = ready THEN Append(queue[g], n) ELSE queue[g]
  BY <1>3 DEF ToTail, Without
<1>5. H2[n] = Dead /\ [H2 EXCEPT ![n] = ready] = [home EXCEPT ![n] = ready]
  BY DEF SInv, Spelt, Good, Typed
<1>6. Spelt(next, prev, H2, queue)
  <2>1. CASE home[n] = Running
    BY <2>1, ForgetSpelt DEF SInv
  <2>2. CASE home[n] = Dead
    <3>1. H2 = home
      BY <2>2 DEF SInv, Spelt, Good, Typed
    <3> QED BY <3>1 DEF SInv
  <2> QED BY <2>1, <2>2
<1> HIDE DEF H2
<1> QED BY <1>1, <1>2, <1>4, <1>5, <1>6, AddTailSpelt DEF Move, SInv

LEMMA StepSpelt ==
  ASSUME SInv, [Next]_vars, KillDead = FALSE
  PROVE  SInv'
<1>1. CASE Pick
  BY <1>1, PickSpelled
<1>2. ASSUME NEW n \in Nodes, Launch(n) PROVE SInv'
  BY <1>2, LinkSpelled DEF Launch
<1>3. ASSUME NEW n \in Nodes, PutBack(n) PROVE SInv'
  BY <1>3, LinkSpelled DEF PutBack
<1>4. ASSUME NEW n \in Nodes, do_unblock(n) PROVE SInv'
  BY <1>4, HeadSpelled, ListAssumption DEF do_unblock
<1>5. ASSUME NEW n \in Nodes, do_kill(n) PROVE SInv'
  <2>1. Links = Pair(next, prev)  BY DEF Links, Pair
  <2> QED BY <1>5, <2>1, RemoveSpelt DEF do_kill, Move, SInv, Without
<1>6. ASSUME NEW n \in Nodes, NEW h \in Heads, do_block(n, h) PROVE SInv'
  BY <1>6, TailSpelled DEF do_block
<1>7. CASE UNCHANGED vars
  BY <1>7 DEF vars, SInv
<1> QED BY <1>1, <1>2, <1>3, <1>4, <1>5, <1>6, <1>7 DEF Next

LEMMA SpeltRings == ASSUME SInv PROVE Rings
<1> SUFFICES ASSUME NEW h \in Heads, NEW i \in 1 .. Len(Ring(h))
             PROVE  /\ next[Ring(h)[i]] = Ring(h)[1 + (i % Len(Ring(h)))]
                    /\ prev[Ring(h)[1 + (i % Len(Ring(h)))]] = Ring(h)[i]
  BY DEF Rings
<1> DEFINE q == queue[h]
           r == <<h>> \o q
           n == Len(r)
<1>1. q \in Seq(Nodes) /\ Spells(next, prev, h, q)
  BY DEF SInv, Spelt, Lists
<1> HIDE DEF q
<1>2. /\ Len(q) \in Nat /\ n = Len(q) + 1 /\ r[1] = h
      /\ \A k \in 1 .. Len(q) : r[k + 1] = q[k]
  BY <1>1
<1>3. Ring(h) = r
  BY DEF Ring, q
<1> HIDE DEF r
<1>4. \A k \in 1 .. n : r[k] = CellOf(h, q, k - 1)
  <2> TAKE k \in 1 .. n
  <2>1. CASE k = 1
    <3>1. k - 1 \notin 1 .. Len(q)
      BY <2>1
    <3> QED BY <1>2, <2>1, <3>1 DEF CellOf
  <2>2. CASE k # 1
    <3>1. k - 1 \in 1 .. Len(q) /\ (k - 1) + 1 = k
      BY <1>2, <2>2
    <3> QED BY <1>2, <3>1 DEF CellOf
  <2> QED BY <2>1, <2>2
<1>5. i \in 1 .. n
  BY <1>3 DEF n
<1> HIDE DEF n
<1>6. r[1 + (i % n)] = CellOf(h, q, i)
  <2>1. CASE i = n
    <3>1. i % n = 0
      BY <1>2, <2>1
    <3>2. i \notin 1 .. Len(q)
      BY <1>2, <2>1
    <3> QED BY <1>2, <3>1, <3>2 DEF CellOf
  <2>2. CASE i # n
    <3>0. n \in Nat /\ i \in Nat /\ i < n
      BY <1>2, <1>5, <2>2
    <3>1. i % n = i /\ i + 1 \in 1 .. n /\ (i + 1) - 1 = i /\ 1 + i = i + 1
      BY <3>0
    <3> QED BY <1>4, <3>1
  <2> QED BY <2>1, <2>2
<1>7. r[i] = CellOf(h, q, i - 1) /\ i - 1 \in 0 .. Len(q) /\ (i - 1) + 1 = i
  BY <1>2, <1>4, <1>5
<1>8. next[r[i]] = r[1 + (i % n)] /\ prev[r[1 + (i % n)]] = r[i]
  BY <1>1, <1>6, <1>7 DEF Spells
<1> QED BY <1>3, <1>8 DEF n

(***************************************************************************)
(* As long as no exited slot is killed again, the pointers of every list   *)
(* spell, forwards and backwards, the sequence that Kernel.tla has in      *)
(* their place: the removals and insertions of do_scheduler, do_block,     *)
(* do_unblock and do_kill are those of sequences.                          *)
(***************************************************************************)
THEOREM ListsAreSequences == KillDead = FALSE => (Spec => []Rings)
<1> SUFFICES ASSUME KillDead = FALSE PROVE Spec => []Rings
  OBVIOUS
<1>1. SInv /\ [Next]_vars => SInv'
  BY StepSpelt
<1>2. SInv => Rings
  BY SpeltRings
<1> QED BY InitSpelt, <1>1, <1>2, PTL DEF Spec
=============================================================================
