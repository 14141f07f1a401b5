--------------------------- MODULE MailboxProofs ----------------------------
(***************************************************************************)
(* What the walks of the wait queue do, for any number of processes, any   *)
(* message sizes and any length of the mailbox.  A walk serves every peer  *)
(* it can, in the order of the queue; nobody blocked is ever off the       *)
(* queue; and with one address space no byte is lost.                      *)
(***************************************************************************)
EXTENDS Mailbox, Recursion

Byte == Nat \cup {Junk}

Snap == [buffer : Seq(Byte), waiting : Seq(Procs), blocked : SUBSET Procs,
         rw : [Procs -> {"none", "send", "recv"}], mem : [Cells -> Seq(Byte)],
         put : Seq(Byte), got : Seq(Byte)]

Sized == size \in [Procs -> Nat]

-----------------------------------------------------------------------------
(***************************************************************************)
(* One turn of a walk.                                                     *)
(***************************************************************************)
Out(t, u, p) ==
  IF t.rw[p] = "recv" /\ HasData(t, size[p]) THEN Unblock(CopyOut(t, u, p, size[p]), p) ELSE t

Into(t, u, p) ==
  IF t.rw[p] = "send" /\ HasRoom(t, size[p]) THEN Unblock(CopyIn(t, u, p, size[p]), p) ELSE t

LEMMA CellIs ==
  ASSUME NEW u \in Procs, NEW p \in Procs
  PROVE  <<Space[u], Addr[p]>> \in Cells
BY MailboxAssumption DEF Cells, Range

LEMMA BytesType ==
  ASSUME NEW m \in Seq(Byte), NEW k \in Nat
  PROVE  Bytes(m, k) \in Seq(Byte) /\ Len(Bytes(m, k)) = k
<1>1. \A i \in 1 .. k : i <= Len(m) => m[i] \in Byte
  OBVIOUS
<1>2. Bytes(m, k) \in [1 .. k -> Byte]
  BY <1>1 DEF Bytes, Byte
<1> QED BY <1>2

\* copying k bytes out of a buffer that has them, and reading them back
LEMMA BytesAre ==
  ASSUME NEW m \in Seq(Byte), NEW k \in Nat, k <= Len(m)
  PROVE  Bytes(m, k) = SubSeq(m, 1, k) /\ Bytes(Bytes(m, k), k) = Bytes(m, k)
<1>1. Bytes(m, k) = [i \in 1 .. k |-> m[i]]
  BY DEF Bytes
<1>2. Bytes(m, k) = SubSeq(m, 1, k)
  BY <1>1
<1>3. Bytes(m, k) \in Seq(Byte) /\ Len(Bytes(m, k)) = k
  BY BytesType
<1>4. Bytes(Bytes(m, k), k) = Bytes(m, k)
  <2> DEFINE b == Bytes(m, k)
  <2>1. b \in Seq(Byte) /\ Len(b) = k
    BY <1>3
  <2> HIDE DEF b
  <2>2. Bytes(b, k) = [i \in 1 .. k |-> b[i]]
    BY <2>1 DEF Bytes
  <2>3. b = [i \in 1 .. k |-> b[i]]
    BY <2>1
  <2> QED BY <2>2, <2>3 DEF b
<1> QED BY <1>2, <1>4

LEMMA RestIs ==
  ASSUME NEW m \in Seq(Byte), NEW k \in Nat, k <= Len(m)
  PROVE  SubSeq(m, k + 1, Len(m)) \in Seq(Byte) /\ Len(SubSeq(m, k + 1, Len(m))) = Len(m) - k
OBVIOUS

LEMMA JoinIs ==
  ASSUME NEW m \in Seq(Byte), NEW b \in Seq(Byte)
  PROVE  m \o b \in Seq(Byte) /\ Len(m \o b) = Len(m) + Len(b)
OBVIOUS

LEMMA UnblockType ==
  ASSUME NEW t \in Snap, NEW p \in Procs
  PROVE  /\ Unblock(t, p) \in Snap
         /\ Unblock(t, p).rw = [t.rw EXCEPT ![p] = "none"] /\ Unblock(t, p).blocked = t.blocked \ {p}
         /\ Unblock(t, p).waiting = RemoveFirst(t.waiting, p)
         /\ Unblock(t, p).buffer = t.buffer /\ Unblock(t, p).put = t.put /\ Unblock(t, p).got = t.got
<1>1. RemoveFirst(t.waiting, p) \in Seq(Procs)
  <2>1. t.waiting \in Seq(Procs)
    BY DEF Snap
  <2> QED BY <2>1, RemoveFirstType
<1> QED BY <1>1 DEF Unblock, Snap

LEMMA CopyOutIs ==
  ASSUME NEW t \in Snap, NEW u \in Procs, NEW p \in Procs, NEW k \in Nat, HasData(t, k)
  PROVE  LET x == CopyOut(t, u, p, k)
         IN  /\ x \in Snap /\ x.rw = t.rw /\ x.blocked = t.blocked /\ x.waiting = t.waiting
             /\ x.put = t.put /\ x.buffer = SubSeq(t.buffer, k + 1, Len(t.buffer))
             /\ Len(x.buffer) = Len(t.buffer) - k
             /\ Space[u] = Space[p] => x.got = t.got \o SubSeq(t.buffer, 1, k)
<1> DEFINE c == <<Space[u], Addr[p]>>
           b == Bytes(t.buffer, k)
           m == [t.mem EXCEPT ![c] = b]
           x == CopyOut(t, u, p, k)
<1>1. /\ t.buffer \in Seq(Byte) /\ t.got \in Seq(Byte) /\ t.mem \in [Cells -> Seq(Byte)]
      /\ Len(t.buffer) \in Nat /\ k <= Len(t.buffer)
  BY DEF Snap, HasData
<1>2. c \in Cells /\ Own(p) \in Cells
  BY CellIs DEF Own
<1>3. b \in Seq(Byte) /\ b = SubSeq(t.buffer, 1, k) /\ Bytes(b, k) = b
  BY <1>1, BytesType, BytesAre
<1> HIDE DEF b, c
<1>4. m \in [Cells -> Seq(Byte)] /\ m[c] = b
  BY <1>1, <1>2, <1>3
<1>5. Bytes(m[Own(p)], k) \in Seq(Byte)
  BY <1>2, <1>4, BytesType
<1>6. Space[u] = Space[p] => Bytes(m[Own(p)], k) = SubSeq(t.buffer, 1, k)
  BY <1>3, <1>4 DEF Own, c
<1>7. /\ SubSeq(t.buffer, k + 1, Len(t.buffer)) \in Seq(Byte)
      /\ Len(SubSeq(t.buffer, k + 1, Len(t.buffer))) = Len(t.buffer) - k
  BY ONLY <1>1, k \in Nat, RestIs
<1> HIDE DEF m
<1>8. x = [t EXCEPT !.mem = m, !.got = @ \o Bytes(m[Own(p)], k), !.buffer = SubSeq(@, k + 1, Len(@))]
  BY DEF CopyOut, m, c, b
<1> HIDE DEF x
<1>9. t.got \o Bytes(m[Own(p)], k) \in Seq(Byte)
  BY <1>1, <1>5
<1>10. /\ x.mem = m /\ x.got = t.got \o Bytes(m[Own(p)], k)
       /\ x.buffer = SubSeq(t.buffer, k + 1, Len(t.buffer))
       /\ x.rw = t.rw /\ x.blocked = t.blocked /\ x.waiting = t.waiting /\ x.put = t.put
  BY <1>8 DEF Snap
<1>11. x \in Snap
  BY <1>4, <1>7, <1>8, <1>9 DEF Snap
<1> QED BY <1>6, <1>7, <1>10, <1>11 DEF x

LEMMA CopyInIs ==
  ASSUME NEW t \in Snap, NEW u \in Procs, NEW p \in Procs, NEW k \in Nat
  PROVE  LET x == CopyIn(t, u, p, k)
         IN  /\ x \in Snap /\ x.rw = t.rw /\ x.blocked = t.blocked /\ x.waiting = t.waiting
             /\ x.got = t.got /\ Len(x.buffer) = Len(t.buffer) + k
             /\ Space[u] = Space[p] =>
                  \E b \in Seq(Byte) : x.buffer = t.buffer \o b /\ x.put = t.put \o b
<1> DEFINE b == Bytes(t.mem[<<Space[u], Addr[p]>>], k)
           d == Bytes(t.mem[Own(p)], k)
           x == CopyIn(t, u, p, k)
<1>1. t.buffer \in Seq(Byte) /\ t.put \in Seq(Byte) /\ t.mem \in [Cells -> Seq(Byte)]
  BY DEF Snap
<1>2. b \in Seq(Byte) /\ Len(b) = k /\ d \in Seq(Byte)
  BY <1>1, CellIs, BytesType DEF Own
<1>3. Space[u] = Space[p] => d = b
  BY DEF Own
<1>4. x = [t EXCEPT !.buffer = @ \o b, !.put = @ \o d]
  BY DEF CopyIn
<1> HIDE DEF b, d, x
<1>5. /\ t.buffer \o b \in Seq(Byte) /\ t.put \o d \in Seq(Byte)
      /\ Len(t.buffer \o b) = Len(t.buffer) + k
  BY ONLY <1>1, <1>2, JoinIs
<1>6. /\ x.buffer = t.buffer \o b /\ x.put = t.put \o d
      /\ x.rw = t.rw /\ x.blocked = t.blocked /\ x.waiting = t.waiting /\ x.got = t.got
  BY <1>4 DEF Snap
<1>7. x \in Snap
  BY <1>4, <1>5 DEF Snap
<1> QED BY <1>2, <1>3, <1>5, <1>6, <1>7 DEF x

LEMMA OutType ==
  ASSUME Sized, NEW t \in Snap, NEW u \in Procs, NEW p \in Procs
  PROVE  Out(t, u, p) \in Snap
<1>1. CASE t.rw[p] = "recv" /\ HasData(t, size[p])
  <2>1. CopyOut(t, u, p, size[p]) \in Snap
    BY <1>1, CopyOutIs DEF Sized
  <2> QED BY <1>1, <2>1, UnblockType DEF Out
<1>2. CASE ~ (t.rw[p] = "recv" /\ HasData(t, size[p]))
  BY <1>2 DEF Out
<1> QED BY <1>1, <1>2

LEMMA IntoType ==
  ASSUME Sized, NEW t \in Snap, NEW u \in Procs, NEW p \in Procs
  PROVE  Into(t, u, p) \in Snap
<1>1. CASE t.rw[p] = "send" /\ HasRoom(t, size[p])
  <2>1. CopyIn(t, u, p, size[p]) \in Snap
    BY CopyInIs DEF Sized
  <2> QED BY <1>1, <2>1, UnblockType DEF Into
<1>2. CASE ~ (t.rw[p] = "send" /\ HasRoom(t, size[p]))
  BY <1>2 DEF Into
<1> QED BY <1>1, <1>2

(***************************************************************************)
(* The walks, as loops.                                                    *)
(***************************************************************************)
LEMMA ReceiversLoop ==
  ASSUME NEW s \in Snap, Sized, NEW q \in Seq(Procs), q = s.waiting, NEW u \in Procs
  PROVE  \E w \in [0 .. Len(q) -> Snap] :
           /\ w[0] = s /\ w[Len(q)] = ServeReceivers(s, u)
           /\ \A i \in 1 .. Len(q) : w[i] = Out(w[i - 1], u, q[i])
<1> DEFINE n == Len(q)
           G == [i \in 1 .. n |-> [a \in Snap |-> Out(a, u, q[i])]]
           F(f) == [U \in SUBSET (1 .. n) |-> IF U = {} THEN s ELSE Out(f[U \ {Max(U)}], u, q[Max(U)])]
           g == CHOOSE f : f = F(f)
<1>0. n \in Nat /\ DOMAIN q = 1 .. n /\ \A i \in 1 .. n : q[i] \in Procs
  OBVIOUS
<1>1. ServeReceivers(s, u) = g[1 .. n]
  BY <1>0 DEF FoldLeft, MapThenFoldSet, ServeReceivers, Out
<1>2. \A i \in 1 .. n : \A a \in Snap : G[i][a] = Out(a, u, q[i]) /\ Out(a, u, q[i]) \in Snap
  BY <1>0, OutType
<1>3. G \in [1 .. n -> [Snap -> Snap]]
  BY <1>2
<1> HIDE DEF G, n
<1>4. PICK f \in [SUBSET (1 .. n) -> Snap] : Folding(f, s, G, n)
  BY <1>0, <1>3, FoldExists
<1>5. f = F(f)
  <2>1. ASSUME NEW U \in SUBSET (1 .. n), U # {}
        PROVE  f[U] = Out(f[U \ {Max(U)}], u, q[Max(U)])
    <3>1. Max(U) \in 1 .. n /\ f[U] = G[Max(U)][f[U \ {Max(U)}]]
      BY <1>4, <2>1 DEF Folding
    <3>2. f[U \ {Max(U)}] \in Snap
      OBVIOUS
    <3> QED BY <1>2, <3>1, <3>2
  <2>2. f[{}] = s
    BY <1>4 DEF Folding
  <2> QED BY <2>1, <2>2
<1>6. g = F(g)
  BY <1>5, Zenon
<1>7. Unfolds(g, s, G, Snap, n)
  <2>1. g[{}] = s
    BY <1>6
  <2>2. ASSUME NEW U \in SUBSET (1 .. n), U # {}, g[U \ {Max(U)}] \in Snap
        PROVE  g[U] = G[Max(U)][g[U \ {Max(U)}]]
    <3>1. Max(U) \in 1 .. n
      BY <1>4, <2>2 DEF Folding
    <3>2. g[U] = Out(g[U \ {Max(U)}], u, q[Max(U)])
      BY <1>6, <2>2
    <3> HIDE DEF g
    <3> QED BY <1>2, <2>2, <3>1, <3>2
  <2> HIDE DEF g
  <2> QED BY <2>1, <2>2 DEF Unfolds
<1> HIDE DEF g
<1>8. PICK w : Turns(w, s, g[1 .. n], G, Snap, n)
  <2>1. s \in Snap /\ n \in Nat
    BY <1>0
  <2> QED BY ONLY <1>3, <1>7, <2>1, FoldSteps
<1>9. \A i \in 1 .. n : w[i] = Out(w[i - 1], u, q[i])
  <2> TAKE i \in 1 .. n
  <2>1. i - 1 \in 0 .. n
    BY <1>0
  <2>2. w[i] = G[i][w[i - 1]] /\ w[i - 1] \in Snap
    BY <1>8, <2>1 DEF Turns
  <2> QED BY <1>2, <2>2
<1> QED BY <1>1, <1>8, <1>9 DEF n, Turns

LEMMA SendersLoop ==
  ASSUME NEW s \in Snap, Sized, NEW q \in Seq(Procs), q = s.waiting, NEW u \in Procs
  PROVE  \E w \in [0 .. Len(q) -> Snap] :
           /\ w[0] = s /\ w[Len(q)] = ServeSenders(s, u)
           /\ \A i \in 1 .. Len(q) : w[i] = Into(w[i - 1], u, q[i])
<1> DEFINE n == Len(q)
           G == [i \in 1 .. n |-> [a \in Snap |-> Into(a, u, q[i])]]
           F(f) == [U \in SUBSET (1 .. n) |-> IF U = {} THEN s ELSE Into(f[U \ {Max(U)}], u, q[Max(U)])]
           g == CHOOSE f : f = F(f)
<1>0. n \in Nat /\ DOMAIN q = 1 .. n /\ \A i \in 1 .. n : q[i] \in Procs
  OBVIOUS
<1>1. ServeSenders(s, u) = g[1 .. n]
  BY <1>0 DEF FoldLeft, MapThenFoldSet, ServeSenders, Into
<1>2. \A i \in 1 .. n : \A a \in Snap : G[i][a] = Into(a, u, q[i]) /\ Into(a, u, q[i]) \in Snap
  BY <1>0, IntoType
<1>3. G \in [1 .. n -> [Snap -> Snap]]
  BY <1>2
<1> HIDE DEF G, n
<1>4. PICK f \in [SUBSET (1 .. n) -> Snap] : Folding(f, s, G, n)
  BY <1>0, <1>3, FoldExists
<1>5. f = F(f)
  <2>1. ASSUME NEW U \in SUBSET (1 .. n), U # {}
        PROVE  f[U] = Into(f[U \ {Max(U)}], u, q[Max(U)])
    <3>1. Max(U) \in 1 .. n /\ f[U] = G[Max(U)][f[U \ {Max(U)}]]
      BY <1>4, <2>1 DEF Folding
    <3>2. f[U \ {Max(U)}] \in Snap
      OBVIOUS
    <3> QED BY <1>2, <3>1, <3>2
  <2>2. f[{}] = s
    BY <1>4 DEF Folding
  <2> QED BY <2>1, <2>2
<1>6. g = F(g)
  BY <1>5, Zenon
<1>7. Unfolds(g, s, G, Snap, n)
  <2>1. g[{}] = s
    BY <1>6
  <2>2. ASSUME NEW U \in SUBSET (1 .. n), U # {}, g[U \ {Max(U)}] \in Snap
        PROVE  g[U] = G[Max(U)][g[U \ {Max(U)}]]
    <3>1. Max(U) \in 1 .. n
      BY <1>4, <2>2 DEF Folding
    <3>2. g[U] = Into(g[U \ {Max(U)}], u, q[Max(U)])
      BY <1>6, <2>2
    <3> HIDE DEF g
    <3> QED BY <1>2, <2>2, <3>1, <3>2
  <2> HIDE DEF g
  <2> QED BY <2>1, <2>2 DEF Unfolds
<1> HIDE DEF g
<1>8. PICK w : Turns(w, s, g[1 .. n], G, Snap, n)
  <2>1. s \in Snap /\ n \in Nat
    BY <1>0
  <2> QED BY ONLY <1>3, <1>7, <2>1, FoldSteps
<1>9. \A i \in 1 .. n : w[i] = Into(w[i - 1], u, q[i])
  <2> TAKE i \in 1 .. n
  <2>1. i - 1 \in 0 .. n
    BY <1>0
  <2>2. w[i] = G[i][w[i - 1]] /\ w[i - 1] \in Snap
    BY <1>8, <2>1 DEF Turns
  <2> QED BY <1>2, <2>2
<1> QED BY <1>1, <1>8, <1>9 DEF n, Turns
-----------------------------------------------------------------------------
(***************************************************************************)
(* A walk over the queue q, seen from what it decides with: turn i serves  *)
(* q[i], a peer of the given kind, when its size k[q[i]] is within what is *)
(* left, M[i - 1], and then takes it from what is left.  R are the kinds.  *)
(***************************************************************************)
Turn(R, M, k, kind, p, i) ==
  IF R[i - 1][p] = kind /\ k[p] <= M[i - 1]
  THEN R[i] = [R[i - 1] EXCEPT ![p] = "none"] /\ M[i] = M[i - 1] - k[p]
  ELSE R[i] = R[i - 1] /\ M[i] = M[i - 1]

Kinds == [Procs -> {"none", "send", "recv"}]

Walked(q, R, M, k, kind) ==
  /\ q \in Seq(Procs) /\ IsInjective(q) /\ k \in [Procs -> Nat]
  /\ R \in [0 .. Len(q) -> Kinds] /\ M \in [0 .. Len(q) -> Int]
  /\ \A i \in 1 .. Len(q) : Turn(R, M, k, kind, q[i], i)

LEMMA LessLeft ==
  ASSUME NEW q, NEW R, NEW M, NEW k, NEW kind, Walked(q, R, M, k, kind),
         NEW i \in 0 .. Len(q), NEW j \in i .. Len(q)
  PROVE  M[j] <= M[i]
<1> DEFINE P == [l \in 0 .. j |-> {m \in Int : l >= i => m <= M[i]}]
<1>0. Len(q) \in Nat /\ \A l \in 0 .. Len(q) : M[l] \in Int
  <2>1. q \in Seq(Procs) /\ M \in [0 .. Len(q) -> Int]
    BY DEF Walked
  <2> QED BY <2>1
<1>1. Len(q) \in Nat /\ j \in Nat /\ i \in Nat /\ M[i] \in Int /\ \A l \in 0 .. j : M[l] \in Int
  BY <1>0
<1>2. M[0] \in P[0]
  BY <1>1
<1>3. ASSUME NEW l \in 1 .. j, M[l - 1] \in P[l - 1] PROVE M[l] \in P[l]
  <2>1. l \in 1 .. Len(q) /\ l - 1 \in 0 .. j /\ l \in 0 .. j /\ l - 1 \in 0 .. Len(q) /\ q[l] \in Procs
    BY <1>1 DEF Walked
  <2>2. M[l] <= M[l - 1]
    <3>1. k[q[l]] \in Nat /\ M[l - 1] \in Int
      BY <1>1, <2>1 DEF Walked
    <3>2. M[l] = M[l - 1] \/ M[l] = M[l - 1] - k[q[l]]
      BY <2>1 DEF Walked, Turn
    <3> QED BY <3>1, <3>2
  <2>3. CASE l = i
    BY <1>1, <2>1, <2>3
  <2>4. CASE l # i
    <3>1. M[l - 1] \in Int /\ M[l] \in Int /\ (l - 1 >= i => M[l - 1] <= M[i])
      BY <1>1, <1>3, <2>1
    <3> QED BY <1>1, <2>1, <2>2, <2>4, <3>1
  <2> QED BY <2>3, <2>4
<1> HIDE DEF P
<1>4. M[j] \in P[j]
  BY <1>1, <1>2, <1>3, LoopKeeps
<1>5. j \in 0 .. j /\ j >= i
  BY <1>1
<1> QED BY <1>4, <1>5 DEF P

\* only the turn of a peer changes its kind
LEMMA OwnTurn ==
  ASSUME NEW q, NEW R, NEW M, NEW k, NEW kind, Walked(q, R, M, k, kind),
         NEW i \in 1 .. Len(q), NEW l \in 0 .. Len(q)
  PROVE  R[l][q[i]] = IF l < i THEN R[0][q[i]] ELSE R[i][q[i]]
<1> DEFINE P == [m \in 0 .. Len(q) |-> {f \in Kinds : f[q[i]] = IF m < i THEN R[0][q[i]] ELSE R[i][q[i]]}]
<1>1. Len(q) \in Nat /\ (\A m \in 0 .. Len(q) : R[m] \in Kinds) /\ \A m \in 1 .. Len(q) : q[m] \in Procs
  BY DEF Walked
<1>2. R[0] \in P[0]
  BY <1>1
<1>3. ASSUME NEW m \in 1 .. Len(q), R[m - 1] \in P[m - 1] PROVE R[m] \in P[m]
  <2>1. m - 1 \in 0 .. Len(q) /\ m \in 0 .. Len(q)
    BY <1>1
  <2>2. R[m] \in Kinds /\ R[m - 1] \in Kinds
    BY <1>1, <2>1
  <2>3. CASE m = i
    BY <2>1, <2>2, <2>3
  <2>4. CASE m # i
    <3>1. q[m] # q[i]
      BY <1>1, <2>4 DEF Walked, IsInjective
    <3>2. R[m][q[i]] = R[m - 1][q[i]]
      BY <1>1, <2>2, <3>1 DEF Walked, Turn, Kinds
    <3>3. R[m - 1][q[i]] = IF m - 1 < i THEN R[0][q[i]] ELSE R[i][q[i]]
      BY <1>3, <2>1
    <3>4. (m - 1 < i) <=> (m < i)
      BY <2>4
    <3> QED BY <2>1, <2>2, <3>2, <3>3, <3>4
  <2> QED BY <2>3, <2>4
<1> HIDE DEF P
<1>4. ASSUME NEW m \in 0 .. Len(q) PROVE R[m] \in P[m]
  <2>1. m \in Nat /\ \A j \in 1 .. m : j \in 1 .. Len(q)
    BY <1>1
  <2> QED BY <1>2, <1>3, <2>1, LoopKeeps
<1> QED BY <1>4 DEF P

\* what becomes of a peer is decided on its turn
LEMMA Decided ==
  ASSUME NEW q, NEW R, NEW M, NEW k, NEW kind, Walked(q, R, M, k, kind),
         NEW i \in 1 .. Len(q)
  PROVE  R[Len(q)][q[i]] = IF R[0][q[i]] = kind /\ k[q[i]] <= M[i - 1] THEN "none" ELSE R[0][q[i]]
<1>1. Len(q) \in Nat /\ q[i] \in Procs
  BY DEF Walked
<1>2. i - 1 \in 0 .. Len(q) /\ i \in 0 .. Len(q) /\ Len(q) \in 0 .. Len(q)
  BY <1>1
<1>3. R[Len(q)][q[i]] = R[i][q[i]]
  <2>1. ~ (Len(q) < i)
    BY <1>1
  <2> QED BY <1>2, <2>1, OwnTurn
<1>4. R[i - 1][q[i]] = R[0][q[i]]
  <2>1. i - 1 < i
    BY <1>1
  <2> QED BY <1>2, <2>1, OwnTurn
<1>5. R[i - 1] \in Kinds
  BY <1>2 DEF Walked
<1>6. R[i][q[i]] = IF R[i - 1][q[i]] = kind /\ k[q[i]] <= M[i - 1] THEN "none" ELSE R[i - 1][q[i]]
  BY <1>1, <1>5 DEF Walked, Turn, Kinds
<1> QED BY <1>3, <1>4, <1>6

\* a walk leaves a peer of its kind only when what is left at the end is too
\* little for it, and serves no peer behind one that asks for as little
Thorough(q, R0, Rn, k, kind, left) ==
  /\ \A i \in 1 .. Len(q) : /\ Rn[q[i]] = R0[q[i]] \/ (R0[q[i]] = kind /\ Rn[q[i]] = "none")
                            /\ Rn[q[i]] = kind => ~ k[q[i]] <= left
  /\ \A i, j \in 1 .. Len(q) :
       i < j /\ R0[q[i]] = R0[q[j]] /\ R0[q[j]] # "none" /\ k[q[i]] <= k[q[j]] /\ Rn[q[j]] = "none"
         => Rn[q[i]] = "none"

LEMMA WalkIsThorough ==
  ASSUME NEW q, NEW R, NEW M, NEW k, NEW kind, Walked(q, R, M, k, kind), kind # "none"
  PROVE  Thorough(q, R[0], R[Len(q)], k, kind, M[Len(q)]) /\ M[Len(q)] <= M[0]
<1>1. /\ Len(q) \in Nat /\ (\A i \in 1 .. Len(q) : q[i] \in Procs /\ k[q[i]] \in Nat)
      /\ \A i \in 0 .. Len(q) : M[i] \in Int
  BY DEF Walked
<1>2. ASSUME NEW i \in 1 .. Len(q)
      PROVE  /\ R[Len(q)][q[i]] = R[0][q[i]] \/ (R[0][q[i]] = kind /\ R[Len(q)][q[i]] = "none")
             /\ R[Len(q)][q[i]] = kind => ~ k[q[i]] <= M[Len(q)]
  <2>1. i - 1 \in 0 .. Len(q) /\ Len(q) \in (i - 1) .. Len(q) /\ Len(q) \in 0 .. Len(q)
    BY <1>1
  <2>2. M[Len(q)] <= M[i - 1]
    BY <2>1, LessLeft
  <2>3. R[Len(q)][q[i]] = IF R[0][q[i]] = kind /\ k[q[i]] <= M[i - 1] THEN "none" ELSE R[0][q[i]]
    BY Decided
  <2>4. k[q[i]] <= M[Len(q)] => k[q[i]] <= M[i - 1]
    BY <1>1, <2>1, <2>2
  <2> QED BY <2>3, <2>4
<1>3. ASSUME NEW i \in 1 .. Len(q), NEW j \in 1 .. Len(q), i < j, R[0][q[i]] = R[0][q[j]],
             R[0][q[j]] # "none", k[q[i]] <= k[q[j]], R[Len(q)][q[j]] = "none"
      PROVE  R[Len(q)][q[i]] = "none"
  <2>1. i - 1 \in 0 .. Len(q) /\ j - 1 \in (i - 1) .. Len(q) /\ j - 1 \in 0 .. Len(q)
    BY <1>1, <1>3
  <2>2. M[j - 1] <= M[i - 1]
    BY <2>1, LessLeft
  <2>3. R[Len(q)][q[j]] = IF R[0][q[j]] = kind /\ k[q[j]] <= M[j - 1] THEN "none" ELSE R[0][q[j]]
    BY Decided
  <2>4. R[Len(q)][q[i]] = IF R[0][q[i]] = kind /\ k[q[i]] <= M[i - 1] THEN "none" ELSE R[0][q[i]]
    BY Decided
  <2>5. R[0][q[j]] = kind /\ k[q[j]] <= M[j - 1]
    BY <1>3, <2>3
  <2>6. k[q[i]] <= M[i - 1]
    <3>1. k[q[i]] \in Nat /\ k[q[j]] \in Nat /\ M[i - 1] \in Int /\ M[j - 1] \in Int
      BY <1>1, <1>3, <2>1
    <3> QED BY ONLY <1>3, <2>2, <2>5, <3>1
  <2> QED BY <1>3, <2>4, <2>5, <2>6
<1>4. M[Len(q)] <= M[0]
  <2>1. 0 \in 0 .. Len(q) /\ Len(q) \in 0 .. Len(q)
    BY <1>1
  <2> QED BY <2>1, LessLeft
<1>5. Thorough(q, R[0], R[Len(q)], k, kind, M[Len(q)])
  BY <1>2, <1>3 DEF Thorough
<1> QED BY <1>4, <1>5

-----------------------------------------------------------------------------
(***************************************************************************)
(* What a snapshot keeps during a walk: exactly the blocked processes are  *)
(* on the queue, each once and with a kind; and no byte is lost, provided  *)
(* all processes share one address space.                                  *)
(***************************************************************************)
OneSpace == \A p, q \in Procs : Space[p] = Space[q]

Held(t, B) == /\ IsInjective(t.waiting) /\ Range(t.waiting) = t.blocked /\ t.blocked \subseteq B
              /\ \A p \in t.blocked : t.rw[p] # "none"

Streams(t) == OneSpace => t.got \o t.buffer = t.put

LEMMA UnblockHeld ==
  ASSUME NEW t \in Snap, NEW B, Held(t, B), NEW p \in Procs
  PROVE  Held(Unblock(t, p), B)
<1> DEFINE x == Unblock(t, p)
           q == t.waiting
<1>1. q \in Seq(Procs) /\ IsInjective(q)
  BY DEF Snap, Held
<1>2. /\ x.rw = [t.rw EXCEPT ![p] = "none"] /\ x.blocked = t.blocked \ {p} /\ x.waiting = RemoveFirst(q, p)
  BY UnblockType
<1> HIDE DEF x, q
<1>3. IsInjective(RemoveFirst(q, p)) /\ Range(RemoveFirst(q, p)) = Range(q) \ {p}
  BY <1>1, RemoveFirstRange
<1>4. \A r \in x.blocked : x.rw[r] # "none"
  BY <1>2 DEF Held, Snap
<1> QED BY <1>2, <1>3, <1>4 DEF Held, x, q

LEMMA SplitJoin ==
  ASSUME NEW m \in Seq(Byte), NEW g \in Seq(Byte), NEW k \in Nat, k <= Len(m)
  PROVE  (g \o SubSeq(m, 1, k)) \o SubSeq(m, k + 1, Len(m)) = g \o m
<1> DEFINE a == SubSeq(m, 1, k)
           b == SubSeq(m, k + 1, Len(m))
<1>1. a \in Seq(Byte) /\ Len(a) = k /\ \A i \in 1 .. k : a[i] = m[i]
  OBVIOUS
<1>2. b \in Seq(Byte) /\ Len(b) = Len(m) - k /\ \A i \in 1 .. (Len(m) - k) : b[i] = m[k + i]
  OBVIOUS
<1> HIDE DEF a, b
<1>3. g \o a \in Seq(Byte) /\ Len(g \o a) = Len(g) + k
  BY <1>1
<1>4. \A i \in 1 .. Len(g) + k : (g \o a)[i] = IF i <= Len(g) THEN g[i] ELSE m[i - Len(g)]
  BY <1>1
<1> DEFINE c == g \o a
<1> HIDE DEF c
<1>5. c \in Seq(Byte) /\ Len(c) = Len(g) + k
  BY <1>3 DEF c
<1>6. c \o b \in Seq(Byte) /\ Len(c \o b) = Len(g) + Len(m)
  <2>1. c \in Seq(Byte) /\ b \in Seq(Byte)
    BY <1>2, <1>5
  <2>2. c \o b \in Seq(Byte) /\ Len(c \o b) = Len(c) + Len(b)
    BY ONLY <2>1, JoinIs
  <2>3. Len(g) \in Nat /\ Len(m) \in Nat
    OBVIOUS
  <2> QED BY <1>2, <1>5, <2>2, <2>3
<1>7. \A i \in 1 .. Len(g) + Len(m) : (c \o b)[i] = IF i <= Len(g) THEN g[i] ELSE m[i - Len(g)]
  <2> TAKE i \in 1 .. Len(g) + Len(m)
  <2>1. (c \o b)[i] = IF i <= Len(c) THEN c[i] ELSE b[i - Len(c)]
    BY <1>2, <1>5
  <2>2. CASE i <= Len(g) + k
    BY <1>4, <1>5, <2>1, <2>2 DEF c
  <2>3. CASE ~ (i <= Len(g) + k)
    <3>1. i - Len(c) \in 1 .. (Len(m) - k) /\ k + (i - Len(c)) = i - Len(g) /\ ~ (i <= Len(g))
      BY <1>5, <2>3
    <3> QED BY <1>2, <1>5, <2>1, <2>3, <3>1
  <2> QED BY <2>2, <2>3
<1>8. g \o m \in Seq(Byte) /\ Len(g \o m) = Len(g) + Len(m)
  OBVIOUS
<1>9. \A i \in 1 .. Len(g) + Len(m) : (g \o m)[i] = IF i <= Len(g) THEN g[i] ELSE m[i - Len(g)]
  OBVIOUS
<1>10. c \o b = g \o m
  BY <1>6, <1>7, <1>8, <1>9, SMTT(30)
<1> QED BY <1>10 DEF a, b, c

LEMMA JoinJoin ==
  ASSUME NEW g \in Seq(Byte), NEW m \in Seq(Byte), NEW b \in Seq(Byte)
  PROVE  g \o (m \o b) = (g \o m) \o b
OBVIOUS

LEMMA CopyOutStreams ==
  ASSUME NEW t \in Snap, NEW u \in Procs, NEW p \in Procs, NEW k \in Nat, HasData(t, k), Streams(t)
  PROVE  Streams(CopyOut(t, u, p, k))
<1> DEFINE x == CopyOut(t, u, p, k)
           m == t.buffer
           g == t.got
<1> SUFFICES ASSUME OneSpace PROVE x.got \o x.buffer = x.put
  BY DEF Streams
<1>1. m \in Seq(Byte) /\ g \in Seq(Byte) /\ k <= Len(m) /\ g \o m = t.put
  BY DEF Snap, HasData, Streams
<1>2. /\ x.put = t.put /\ x.buffer = SubSeq(m, k + 1, Len(m)) /\ x.got = g \o SubSeq(m, 1, k)
  BY CopyOutIs DEF OneSpace
<1> HIDE DEF x, m, g
<1>3. (g \o SubSeq(m, 1, k)) \o SubSeq(m, k + 1, Len(m)) = g \o m
  BY ONLY <1>1, k \in Nat, SplitJoin
<1> QED BY <1>1, <1>2, <1>3

LEMMA CopyInStreams ==
  ASSUME NEW t \in Snap, NEW u \in Procs, NEW p \in Procs, NEW k \in Nat, Streams(t)
  PROVE  Streams(CopyIn(t, u, p, k))
<1> DEFINE x == CopyIn(t, u, p, k)
           m == t.buffer
           g == t.got
<1> SUFFICES ASSUME OneSpace PROVE x.got \o x.buffer = x.put
  BY DEF Streams
<1>1. m \in Seq(Byte) /\ g \in Seq(Byte) /\ g \o m = t.put
  BY DEF Snap, Streams
<1>2. PICK b \in Seq(Byte) : x.buffer = m \o b /\ x.put = t.put \o b
  BY CopyInIs DEF OneSpace
<1>3. x.got = g
  BY CopyInIs
<1> HIDE DEF x, m, g
<1>4. g \o (m \o b) = (g \o m) \o b
  BY ONLY <1>1, b \in Seq(Byte), JoinJoin
<1> QED BY <1>1, <1>2, <1>3, <1>4

Sane(t, B) == Held(t, B) /\ Streams(t)

LEMMA OutSane ==
  ASSUME Sized, NEW t \in Snap, NEW u \in Procs, NEW p \in Procs, NEW B, Sane(t, B)
  PROVE  Sane(Out(t, u, p), B)
<1>1. CASE t.rw[p] = "recv" /\ HasData(t, size[p])
  <2> DEFINE x == CopyOut(t, u, p, size[p])
  <2>0. size[p] \in Nat
    BY DEF Sized
  <2>1. x \in Snap /\ x.rw = t.rw /\ x.blocked = t.blocked /\ x.waiting = t.waiting
    BY <1>1, <2>0, CopyOutIs
  <2>2. Streams(x)
    BY <1>1, <2>0, CopyOutStreams DEF Sane
  <2> HIDE DEF x
  <2>3. Held(x, B)
    BY <2>1 DEF Sane, Held
  <2>4. Held(Unblock(x, p), B)
    BY <2>1, <2>3, UnblockHeld
  <2>5. Streams(Unblock(x, p))
    BY <2>1, <2>2, UnblockType DEF Streams
  <2>6. Out(t, u, p) = Unblock(x, p)
    BY <1>1 DEF Out, x
  <2> QED BY <2>4, <2>5, <2>6 DEF Sane
<1>2. CASE ~ (t.rw[p] = "recv" /\ HasData(t, size[p]))
  BY <1>2 DEF Out
<1> QED BY <1>1, <1>2

LEMMA IntoSane ==
  ASSUME Sized, NEW t \in Snap, NEW u \in Procs, NEW p \in Procs, NEW B, Sane(t, B)
  PROVE  Sane(Into(t, u, p), B)
<1>1. CASE t.rw[p] = "send" /\ HasRoom(t, size[p])
  <2> DEFINE x == CopyIn(t, u, p, size[p])
  <2>0. size[p] \in Nat
    BY DEF Sized
  <2>1. x \in Snap /\ x.rw = t.rw /\ x.blocked = t.blocked /\ x.waiting = t.waiting
    BY <2>0, CopyInIs
  <2>2. Streams(x)
    BY <2>0, CopyInStreams DEF Sane
  <2> HIDE DEF x
  <2>3. Held(x, B)
    BY <2>1 DEF Sane, Held
  <2>4. Held(Unblock(x, p), B)
    BY <2>1, <2>3, UnblockHeld
  <2>5. Streams(Unblock(x, p))
    BY <2>1, <2>2, UnblockType DEF Streams
  <2>6. Into(t, u, p) = Unblock(x, p)
    BY <1>1 DEF Into, x
  <2> QED BY <2>4, <2>5, <2>6 DEF Sane
<1>2. CASE ~ (t.rw[p] = "send" /\ HasRoom(t, size[p]))
  BY <1>2 DEF Into
<1> QED BY <1>1, <1>2

(***************************************************************************)
(* The walks serve everybody they can.                                     *)
(***************************************************************************)
LEMMA ReceiversServed ==
  ASSUME Sized, NEW s \in Snap, NEW u \in Procs, Sane(s, s.blocked)
  PROVE  LET e == ServeReceivers(s, u)
         IN  /\ e \in Snap /\ Sane(e, s.blocked)
             /\ Thorough(s.waiting, s.rw, e.rw, size, "recv", Len(e.buffer))
<1> DEFINE q == s.waiting
           n == Len(q)
           e == ServeReceivers(s, u)
<1>1. q \in Seq(Procs) /\ IsInjective(q) /\ n \in Nat /\ (\A i \in 1 .. n : q[i] \in Procs)
  BY DEF Snap, Sane, Held
<1>2. PICK w \in [0 .. n -> Snap] :
        /\ w[0] = s /\ w[n] = e /\ \A i \in 1 .. n : w[i] = Out(w[i - 1], u, q[i])
  <2>1. q \in Seq(Procs) /\ q = s.waiting
    BY <1>1
  <2> HIDE DEF q, e
  <2> QED BY <2>1, ReceiversLoop DEF e
<1> DEFINE R == [i \in 0 .. n |-> w[i].rw]
           M == [i \in 0 .. n |-> Len(w[i].buffer)]
           P == [i \in 0 .. n |-> {t \in Snap : Sane(t, s.blocked)}]
<1> HIDE DEF q, n, e
<1>3. \A i \in 0 .. n : w[i].rw \in Kinds /\ Len(w[i].buffer) \in Int
  <2>1. \A i \in 0 .. n : w[i] \in Snap
    OBVIOUS
  <2>2. \A t \in Snap : t.rw \in Kinds /\ Len(t.buffer) \in Int
    BY DEF Snap, Kinds
  <2> QED BY <2>1, <2>2
<1>4. R \in [0 .. n -> Kinds] /\ M \in [0 .. n -> Int]
  BY <1>3
<1>5. \A i \in 0 .. n : R[i] = w[i].rw /\ M[i] = Len(w[i].buffer)
  OBVIOUS
<1> HIDE DEF R, M
<1>6. ASSUME NEW i \in 1 .. n PROVE Turn(R, M, size, "recv", q[i], i)
  <2> DEFINE t == w[i - 1]
             p == q[i]
             x == CopyOut(t, u, p, size[p])
  <2>1. i - 1 \in 0 .. n /\ i \in 0 .. n /\ t \in Snap /\ p \in Procs /\ w[i] = Out(t, u, p) /\ size[p] \in Nat
    BY <1>1, <1>2 DEF Sized
  <2>2. R[i - 1] = t.rw /\ M[i - 1] = Len(t.buffer) /\ R[i] = w[i].rw /\ M[i] = Len(w[i].buffer)
    BY <1>5, <2>1
  <2> HIDE DEF t, p
  <2>3. HasData(t, size[p]) <=> size[p] <= M[i - 1]
    BY <2>1, <2>2 DEF HasData, Snap
  <2>4. CASE t.rw[p] = "recv" /\ HasData(t, size[p])
    <3>1. x \in Snap /\ x.rw = t.rw /\ Len(x.buffer) = Len(t.buffer) - size[p]
      BY <2>1, <2>4, CopyOutIs
    <3> HIDE DEF x
    <3>2. Unblock(x, p).rw = [x.rw EXCEPT ![p] = "none"] /\ Unblock(x, p).buffer = x.buffer
      BY <2>1, <3>1, UnblockType
    <3>3. w[i] = Unblock(x, p)
      BY <2>1, <2>4 DEF Out, x
    <3>4. R[i] = [R[i - 1] EXCEPT ![p] = "none"] /\ M[i] = M[i - 1] - size[p]
      BY <2>2, <3>1, <3>2, <3>3
    <3>5. R[i - 1][p] = "recv" /\ size[p] <= M[i - 1]
      BY <2>2, <2>3, <2>4
    <3>6. Turn(R, M, size, "recv", p, i)
      BY <3>4, <3>5 DEF Turn
    <3> QED BY <3>6 DEF p
  <2>5. CASE ~ (t.rw[p] = "recv" /\ HasData(t, size[p]))
    <3>1. w[i] = t
      BY <2>1, <2>5 DEF Out
    <3>2. Turn(R, M, size, "recv", p, i)
      BY <2>2, <2>3, <2>5, <3>1 DEF Turn
    <3> QED BY <3>2 DEF p
  <2> QED BY <2>4, <2>5
<1>7. Walked(q, R, M, size, "recv")
  <2>1. size \in [Procs -> Nat]
    BY DEF Sized
  <2> QED BY <1>1, <1>4, <1>6, <2>1 DEF Walked, n
<1>8. 0 \in 0 .. n /\ n \in 0 .. n
  BY <1>1
<1>9. Thorough(q, s.rw, e.rw, size, "recv", Len(e.buffer))
  <2>1. Thorough(q, R[0], R[Len(q)], size, "recv", M[Len(q)])
    BY <1>7, WalkIsThorough
  <2>2. R[0] = s.rw /\ R[n] = e.rw /\ M[n] = Len(e.buffer)
    BY <1>2, <1>5, <1>8
  <2> QED BY <2>1, <2>2 DEF n
<1>10. e \in Snap /\ Sane(e, s.blocked)
  <2>1. w[0] \in P[0]
    BY <1>2, <1>8
  <2>2. ASSUME NEW i \in 1 .. n, w[i - 1] \in P[i - 1] PROVE w[i] \in P[i]
    <3>1. i - 1 \in 0 .. n /\ i \in 0 .. n /\ w[i] \in Snap /\ w[i] = Out(w[i - 1], u, q[i]) /\ q[i] \in Procs
      BY <1>1, <1>2
    <3>2. w[i - 1] \in Snap /\ Sane(w[i - 1], s.blocked)
      BY <2>2, <3>1
    <3>3. Sane(w[i], s.blocked)
      BY <3>1, <3>2, OutSane
    <3> QED BY <3>1, <3>3
  <2> HIDE DEF P
  <2>3. w[n] \in P[n]
    BY <1>1, <2>1, <2>2, LoopKeeps
  <2> QED BY <1>2, <1>8, <2>3 DEF P
<1> QED BY <1>9, <1>10 DEF e, q

LEMMA SendersServed ==
  ASSUME Sized, NEW s \in Snap, NEW u \in Procs, Sane(s, s.blocked)
  PROVE  LET e == ServeSenders(s, u)
         IN  /\ e \in Snap /\ Sane(e, s.blocked)
             /\ Thorough(s.waiting, s.rw, e.rw, size, "send", MAX_MBOX_LENGTH - Len(e.buffer))
<1> DEFINE q == s.waiting
           n == Len(q)
           e == ServeSenders(s, u)
<1>1. q \in Seq(Procs) /\ IsInjective(q) /\ n \in Nat /\ (\A i \in 1 .. n : q[i] \in Procs)
  BY DEF Snap, Sane, Held
<1>2. PICK w \in [0 .. n -> Snap] :
        /\ w[0] = s /\ w[n] = e /\ \A i \in 1 .. n : w[i] = Into(w[i - 1], u, q[i])
  <2>1. q \in Seq(Procs) /\ q = s.waiting
    BY <1>1
  <2> HIDE DEF q, e
  <2> QED BY <2>1, SendersLoop DEF e
<1> DEFINE R == [i \in 0 .. n |-> w[i].rw]
           M == [i \in 0 .. n |-> MAX_MBOX_LENGTH - Len(w[i].buffer)]
           P == [i \in 0 .. n |-> {t \in Snap : Sane(t, s.blocked)}]
<1> HIDE DEF q, n, e
<1>3. \A i \in 0 .. n : w[i].rw \in Kinds /\ MAX_MBOX_LENGTH - Len(w[i].buffer) \in Int
  <2>1. \A i \in 0 .. n : w[i] \in Snap
    OBVIOUS
  <2>2. \A t \in Snap : t.rw \in Kinds /\ MAX_MBOX_LENGTH - Len(t.buffer) \in Int
    BY MailboxAssumption DEF MailboxAssumption, Snap, Kinds
  <2> QED BY <2>1, <2>2
<1>4. R \in [0 .. n -> Kinds] /\ M \in [0 .. n -> Int]
  BY <1>3
<1>5. \A i \in 0 .. n : R[i] = w[i].rw /\ M[i] = MAX_MBOX_LENGTH - Len(w[i].buffer)
  OBVIOUS
<1> HIDE DEF R, M
<1>6. ASSUME NEW i \in 1 .. n PROVE Turn(R, M, size, "send", q[i], i)
  <2> DEFINE t == w[i - 1]
             p == q[i]
             x == CopyIn(t, u, p, size[p])
  <2>1. i - 1 \in 0 .. n /\ i \in 0 .. n /\ t \in Snap /\ p \in Procs /\ w[i] = Into(t, u, p) /\ size[p] \in Nat
    BY <1>1, <1>2 DEF Sized
  <2>2. R[i - 1] = t.rw /\ M[i - 1] = MAX_MBOX_LENGTH - Len(t.buffer) /\ R[i] = w[i].rw /\ M[i] = MAX_MBOX_LENGTH - Len(w[i].buffer)
    BY <1>5, <2>1
  <2> HIDE DEF t, p
  <2>3. HasRoom(t, size[p]) <=> size[p] <= M[i - 1]
    BY <2>1, <2>2, MailboxAssumption DEF HasRoom, Snap
  <2>4. CASE t.rw[p] = "send" /\ HasRoom(t, size[p])
    <3>1. x \in Snap /\ x.rw = t.rw /\ Len(x.buffer) = Len(t.buffer) + size[p]
      BY <2>1, <2>4, CopyInIs
    <3> HIDE DEF x
    <3>2. Unblock(x, p).rw = [x.rw EXCEPT ![p] = "none"] /\ Unblock(x, p).buffer = x.buffer
      BY <2>1, <3>1, UnblockType
    <3>3. w[i] = Unblock(x, p)
      BY <2>1, <2>4 DEF Into, x
    <3>4. R[i] = [R[i - 1] EXCEPT ![p] = "none"] /\ M[i] = M[i - 1] - size[p]
      <4>1. Len(t.buffer) \in Nat /\ size[p] \in Nat /\ MAX_MBOX_LENGTH \in Nat
        BY <2>1, MailboxAssumption DEF Snap
      <4>2. M[i] = MAX_MBOX_LENGTH - (Len(t.buffer) + size[p])
        BY <2>2, <3>1, <3>2, <3>3
      <4>3. M[i] = (MAX_MBOX_LENGTH - Len(t.buffer)) - size[p]
        BY <4>1, <4>2
      <4> QED BY <2>2, <3>1, <3>2, <3>3, <4>3
    <3>5. R[i - 1][p] = "send" /\ size[p] <= M[i - 1]
      BY <2>2, <2>3, <2>4
    <3>6. Turn(R, M, size, "send", p, i)
      BY <3>4, <3>5 DEF Turn
    <3> QED BY <3>6 DEF p
  <2>5. CASE ~ (t.rw[p] = "send" /\ HasRoom(t, size[p]))
    <3>1. w[i] = t
      BY <2>1, <2>5 DEF Into
    <3>2. Turn(R, M, size, "send", p, i)
      BY <2>2, <2>3, <2>5, <3>1 DEF Turn
    <3> QED BY <3>2 DEF p
  <2> QED BY <2>4, <2>5
<1>7. Walked(q, R, M, size, "send")
  <2>1. size \in [Procs -> Nat]
    BY DEF Sized
  <2> QED BY <1>1, <1>4, <1>6, <2>1 DEF Walked, n
<1>8. 0 \in 0 .. n /\ n \in 0 .. n
  BY <1>1
<1>9. Thorough(q, s.rw, e.rw, size, "send", MAX_MBOX_LENGTH - Len(e.buffer))
  <2>1. Thorough(q, R[0], R[Len(q)], size, "send", M[Len(q)])
    BY <1>7, WalkIsThorough
  <2>2. R[0] = s.rw /\ R[n] = e.rw /\ M[n] = MAX_MBOX_LENGTH - Len(e.buffer)
    BY <1>2, <1>5, <1>8
  <2> QED BY <2>1, <2>2 DEF n
<1>10. e \in Snap /\ Sane(e, s.blocked)
  <2>1. w[0] \in P[0]
    BY <1>2, <1>8
  <2>2. ASSUME NEW i \in 1 .. n, w[i - 1] \in P[i - 1] PROVE w[i] \in P[i]
    <3>1. i - 1 \in 0 .. n /\ i \in 0 .. n /\ w[i] \in Snap /\ w[i] = Into(w[i - 1], u, q[i]) /\ q[i] \in Procs
      BY <1>1, <1>2
    <3>2. w[i - 1] \in Snap /\ Sane(w[i - 1], s.blocked)
      BY <2>2, <3>1
    <3>3. Sane(w[i], s.blocked)
      BY <3>1, <3>2, IntoSane
    <3> QED BY <3>1, <3>3
  <2> HIDE DEF P
  <2>3. w[n] \in P[n]
    BY <1>1, <2>1, <2>2, LoopKeeps
  <2> QED BY <1>2, <1>8, <2>3 DEF P
<1> QED BY <1>9, <1>10 DEF e, q

-----------------------------------------------------------------------------
(***************************************************************************)
(* The inductive invariant.  The processes on the queue hold the mailbox   *)
(* open, so that the last close finds nobody there.                        *)
(***************************************************************************)
Refs(H, r) == H \subseteq Procs /\ IsFiniteSet(H) /\ r \in Nat /\ Cardinality(H) <= r

Waits(t, sz, p) == \/ t.rw[p] = "send" /\ ~HasRoom(t, sz[p])
                   \/ t.rw[p] = "recv" /\ ~HasData(t, sz[p])

Asked(t, sz, A) == /\ IsFiniteSet(A) /\ \A p \in t.blocked : sz[p] \in A
                   /\ (\A a, b \in A : a = b) => \A p \in t.blocked : Waits(t, sz, p)

IInv == /\ Here \in Snap /\ Sized /\ sent \in Nat
        /\ Sane(Here, holders) /\ Asked(Here, size, asked) /\ Refs(holders, ref_count)

LEMMA InitSane == Init => IInv
<1> SUFFICES ASSUME Init PROVE IInv
  OBVIOUS
<1>1. <<>> \in Seq(Byte) /\ <<>> \in Seq(Procs) /\ IsInjective(<<>>) /\ Range(<<>>) = {} /\ <<>> \o <<>> = <<>>
  BY DEF IsInjective, Range
<1>2. Here \in Snap
  BY <1>1 DEF Init, Here, Snap
<1>3. Held(Here, holders)
  BY <1>1 DEF Init, Here, Held
<1>4. Streams(Here)
  BY <1>1 DEF Init, Here, Streams
<1>5. Cardinality({}) = 0 /\ IsFiniteSet({})
  BY FS_EmptySet
<1>6. Asked(Here, size, asked) /\ Refs(holders, ref_count)
  BY <1>5 DEF Init, Here, Asked, Refs
<1> QED BY <1>2, <1>3, <1>4, <1>6 DEF IInv, Init, Sized, Sane

LEMMA CommitIs ==
  ASSUME NEW e \in Snap, Commit(e)
  PROVE  Here' = e
BY DEF Commit, Here, Snap

\* the caller fills its buffer before it sends
LEMMA FillIs ==
  ASSUME Here \in Snap, sent \in Nat, NEW p \in Procs, NEW k \in Nat
  PROVE  LET s == [Here EXCEPT !.mem[Own(p)] = [i \in 1..k |-> sent + i]]
         IN  /\ s \in Snap /\ s.rw = rw /\ s.blocked = blocked /\ s.waiting = waiting
             /\ s.buffer = buffer /\ s.put = put /\ s.got = got
<1> DEFINE m == [i \in 1..k |-> sent + i]
           s == [Here EXCEPT !.mem[Own(p)] = m]
<1>1. m \in Seq(Byte)
  BY DEF Byte
<1>2. Own(p) \in Cells /\ mem \in [Cells -> Seq(Byte)]
  BY CellIs DEF Own, Here, Snap
<1> HIDE DEF m
<1>3. [mem EXCEPT ![Own(p)] = m] \in [Cells -> Seq(Byte)]
  BY <1>1, <1>2
<1>4. /\ s.mem = [mem EXCEPT ![Own(p)] = m] /\ s.rw = rw /\ s.blocked = blocked /\ s.waiting = waiting
      /\ s.buffer = buffer /\ s.put = put /\ s.got = got
  BY DEF Here
<1>5. s \in Snap
  BY <1>3 DEF Here, Snap
<1> QED BY <1>4, <1>5 DEF m

\* what a walk leaves waiting, when all sizes are one
LEMMA ServedAsked ==
  ASSUME NEW s \in Snap, NEW e \in Snap, NEW A, NEW B, Held(s, B), Held(e, s.blocked),
         IsFiniteSet(A), \A p \in s.blocked : size[p] \in A,
         NEW kind \in {"send", "recv"}, NEW left, Thorough(s.waiting, s.rw, e.rw, size, kind, left),
         NEW k \in A, (\A a, b \in A : a = b) => \A p \in s.blocked : s.rw[p] = kind,
         \A p \in Procs : ~ size[p] <= left => IF kind = "send" THEN ~HasRoom(e, size[p]) ELSE ~HasData(e, size[p])
  PROVE  Asked(e, size, A)
<1> DEFINE q == s.waiting
<1>1. q \in Seq(Procs) /\ Range(q) = s.blocked /\ s.blocked \subseteq Procs
  BY DEF Snap, Held
<1> HIDE DEF q
<1>2. ASSUME \A a, b \in A : a = b, NEW p \in e.blocked PROVE Waits(e, size, p)
  <2>1. p \in s.blocked /\ e.rw[p] # "none" /\ s.rw[p] = kind /\ p \in Procs
    BY <1>1, <1>2 DEF Held
  <2>2. PICK i \in 1 .. Len(q) : q[i] = p
    BY <1>1, <2>1 DEF Range
  <2>3. /\ e.rw[p] = s.rw[p] \/ (s.rw[p] = kind /\ e.rw[p] = "none")
        /\ e.rw[p] = kind => ~ size[p] <= left
    BY <2>2 DEF Thorough, q
  <2> QED BY <2>1, <2>3 DEF Waits
<1>3. \A p \in e.blocked : size[p] \in A
  BY DEF Held
<1> QED BY <1>2, <1>3 DEF Asked

\* with one size, a mailbox with room for a message has no sender waiting ...
LEMMA OneKind ==
  ASSUME NEW t \in Snap, NEW A, NEW k, Asked(t, size, A), NEW B, Held(t, B)
  PROVE  /\ HasRoom(t, k) => ((\A a, b \in A \cup {k} : a = b) => \A p \in t.blocked : t.rw[p] = "recv")
         /\ HasData(t, k) => ((\A a, b \in A \cup {k} : a = b) => \A p \in t.blocked : t.rw[p] = "send")
<1>1. ASSUME \A a, b \in A \cup {k} : a = b, NEW p \in t.blocked PROVE size[p] = k /\ Waits(t, size, p)
  BY <1>1 DEF Asked
<1> QED BY <1>1 DEF Waits

-----------------------------------------------------------------------------
(***************************************************************************)
(* The operations keep it.                                                 *)
(***************************************************************************)
LEMMA AppendIs ==
  ASSUME NEW q \in Seq(Procs), IsInjective(q), NEW p \in Procs, p \notin Range(q)
  PROVE  Append(q, p) \in Seq(Procs) /\ IsInjective(Append(q, p)) /\ Range(Append(q, p)) = Range(q) \cup {p}
<1> DEFINE r == Append(q, p)
<1>1. /\ r \in Seq(Procs) /\ Len(q) \in Nat /\ DOMAIN r = 1 .. Len(q) + 1 /\ DOMAIN q = 1 .. Len(q)
      /\ r[Len(q) + 1] = p /\ \A i \in 1 .. Len(q) : r[i] = q[i]
  OBVIOUS
<1>2. \A i \in 1 .. Len(q) + 1 : i \in 1 .. Len(q) \/ i = Len(q) + 1
  BY <1>1
<1>3. 1 .. Len(q) \subseteq 1 .. Len(q) + 1 /\ Len(q) + 1 \in 1 .. Len(q) + 1
  BY <1>1
<1> HIDE DEF r
<1>4. IsInjective(r)
  BY <1>1, <1>2 DEF IsInjective, Range
<1>5. Range(r) = Range(q) \cup {p}
  BY <1>1, <1>2, <1>3 DEF Range
<1> QED BY <1>1, <1>4, <1>5 DEF r

LEMMA BlockSane ==
  ASSUME IInv, NEW s \in Snap, s.rw = rw, s.blocked = blocked, s.waiting = waiting,
         s.buffer = buffer, s.put = put, s.got = got,
         NEW p \in holders \ blocked, NEW kind \in {"send", "recv"}, NEW k \in Nat, Block(s, p, kind, k),
         IF kind = "send" THEN ~HasRoom(s, k) ELSE ~HasData(s, k),
         asked' = asked \cup {k}, UNCHANGED <<holders, ref_count>>, sent' \in Nat
  PROVE  IInv'
<1> DEFINE t == [s EXCEPT !.waiting = Append(@, p), !.blocked = @ \cup {p}, !.rw[p] = kind]
           z == [size EXCEPT ![p] = k]
<1>1. /\ waiting \in Seq(Procs) /\ IsInjective(waiting) /\ Range(waiting) = blocked /\ p \in Procs
      /\ rw \in Kinds /\ blocked \subseteq holders /\ blocked \in SUBSET Procs /\ size \in [Procs -> Nat]
      /\ \A r \in blocked : rw[r] # "none"
  BY DEF IInv, Here, Snap, Kinds, Sane, Held, Refs, Sized
<1>2. /\ Append(waiting, p) \in Seq(Procs) /\ IsInjective(Append(waiting, p))
      /\ Range(Append(waiting, p)) = blocked \cup {p}
  BY <1>1, AppendIs
<1>3. /\ t.waiting = Append(waiting, p) /\ t.blocked = blocked \cup {p} /\ t.rw = [rw EXCEPT ![p] = kind]
      /\ t.buffer = buffer /\ t.put = put /\ t.got = got
  BY DEF Snap
<1>4. t \in Snap
  <2>1. [rw EXCEPT ![p] = kind] \in Kinds
    BY <1>1 DEF Kinds
  <2> QED BY <1>1, <1>2, <2>1 DEF Snap, Kinds
<1>5. Here' = t /\ size' = z
  BY <1>4, CommitIs DEF Block
<1> HIDE DEF t
<1>6. z \in [Procs -> Nat] /\ z[p] = k /\ \A r \in blocked : z[r] = size[r]
  BY <1>1
<1> HIDE DEF z
<1>7. Sane(t, holders)
  <2>1. Held(t, holders)
    BY <1>1, <1>2, <1>3 DEF Held, Kinds
  <2>2. Streams(t)
    BY <1>3 DEF IInv, Sane, Streams, Here
  <2> QED BY <2>1, <2>2 DEF Sane
<1>8. Asked(t, z, asked \cup {k})
  <2>1. IsFiniteSet(asked \cup {k})
    BY FS_AddElement DEF IInv, Asked
  <2>2. \A r \in t.blocked : z[r] \in asked \cup {k}
    BY <1>3, <1>6 DEF IInv, Asked, Here
  <2>3. ASSUME \A a, b \in asked \cup {k} : a = b, NEW r \in t.blocked PROVE Waits(t, z, r)
    <3>1. CASE r = p
      BY <1>1, <1>3, <1>6, <3>1 DEF Waits, Kinds, HasRoom, HasData
    <3>2. CASE r # p
      <4>1. r \in blocked
        BY <1>3, <3>2
      <4>2. Waits(Here, size, r)
        BY <2>3, <4>1 DEF IInv, Asked, Here
      <4> QED BY <1>1, <1>3, <1>6, <3>2, <4>1, <4>2 DEF Waits, Here, Kinds, HasRoom, HasData
    <3> QED BY <3>1, <3>2
  <2> QED BY <2>1, <2>2, <2>3 DEF Asked
<1>9. Here' \in Snap /\ Sized' /\ Sane(Here, holders)' /\ Asked(Here, size, asked)'
  <2>1. Sane(Here', holders') /\ Asked(Here', size', asked')
    BY <1>5, <1>7, <1>8
  <2> QED BY <1>4, <1>5, <1>6, <2>1 DEF Sized, Sane, Held, Streams, Asked, Waits, HasRoom, HasData
<1> QED BY <1>9 DEF IInv, Refs

\* a transfer and the walk behind it
LEMMA ServeSane ==
  ASSUME IInv, NEW x \in Snap, x.rw = rw, x.blocked = blocked, x.waiting = waiting, Streams(x),
         NEW e \in Snap, Sane(e, x.blocked), Commit(e), UNCHANGED size, NEW k \in Nat,
         NEW kind \in {"send", "recv"}, NEW left, Thorough(x.waiting, x.rw, e.rw, size, kind, left),
         (\A a, b \in asked \cup {k} : a = b) => \A p \in x.blocked : x.rw[p] = kind,
         \A p \in Procs : ~ size[p] <= left => IF kind = "send" THEN ~HasRoom(e, size[p]) ELSE ~HasData(e, size[p]),
         asked' = asked \cup {k}, UNCHANGED <<holders, ref_count>>, sent' \in Nat
  PROVE  IInv'
<1> DEFINE A == asked \cup {k}
<1>1. Here' = e
  BY CommitIs
<1>2. IsFiniteSet(A) /\ k \in A
  BY FS_AddElement DEF IInv, Asked
<1>3. \A p \in x.blocked : size[p] \in A
  BY DEF IInv, Asked, Here
<1>4. Held(x, holders) /\ Held(e, x.blocked) /\ Held(e, holders) /\ Streams(e)
  BY DEF IInv, Sane, Held, Here
<1>5. (\A a, b \in A : a = b) => \A p \in x.blocked : x.rw[p] = kind
  OBVIOUS
<1> HIDE DEF A
<1>6. Asked(e, size, A)
  BY <1>2, <1>3, <1>4, <1>5, ServedAsked
<1>7. Here' \in Snap /\ Sized' /\ Sane(Here, holders)' /\ Asked(Here, size, asked)'
  <2>1. Sane(Here', holders') /\ Asked(Here', size', asked')
    BY <1>1, <1>4, <1>6 DEF Sane, A
  <2> QED BY <1>1, <2>1 DEF IInv, Sized, Sane, Held, Streams, Asked, Waits, HasRoom, HasData
<1> QED BY <1>7 DEF IInv, Refs

LEMMA SendSane ==
  ASSUME IInv, NEW p \in Procs, NEW k \in Sizes, do_mbox_send(p, k)
  PROVE  IInv'
<1> DEFINE s == [Here EXCEPT !.mem[Own(p)] = [i \in 1..k |-> sent + i]]
           x == CopyIn(s, p, p, k)
           e == ServeReceivers(x, p)
<1>1. k \in Nat /\ sent' = sent + k /\ sent' \in Nat /\ asked' = asked \cup {k} /\ p \in holders \ blocked
  BY MailboxAssumption DEF do_mbox_send, IInv
<1>2. /\ s \in Snap /\ s.rw = rw /\ s.blocked = blocked /\ s.waiting = waiting
      /\ s.buffer = buffer /\ s.put = put /\ s.got = got
  BY <1>1, FillIs DEF IInv
<1>3. \/ HasRoom(s, k) /\ Commit(e) /\ UNCHANGED size
      \/ ~HasRoom(s, k) /\ Block(s, p, "send", k)
  BY DEF do_mbox_send
<1>4. UNCHANGED <<holders, ref_count>>
  BY DEF do_mbox_send
<1> HIDE DEF s
<1>5. CASE ~HasRoom(s, k) /\ Block(s, p, "send", k)
  BY <1>1, <1>2, <1>4, <1>5, BlockSane
<1>6. CASE HasRoom(s, k) /\ Commit(e) /\ UNCHANGED size
  <2>1. x \in Snap /\ x.rw = rw /\ x.blocked = blocked /\ x.waiting = waiting
    BY <1>1, <1>2, CopyInIs
  <2>2. Streams(x)
    <3>1. Streams(s)
      BY <1>2 DEF IInv, Sane, Streams, Here
    <3> QED BY <1>1, <1>2, <3>1, CopyInStreams
  <2> HIDE DEF x
  <2>3. Sane(x, x.blocked)
    BY <2>1, <2>2 DEF IInv, Sane, Held, Here
  <2>4. e \in Snap /\ Sane(e, x.blocked) /\ Thorough(x.waiting, x.rw, e.rw, size, "recv", Len(e.buffer))
    BY <2>1, <2>3, ReceiversServed DEF IInv
  <2> HIDE DEF e
  <2>5. (\A a, b \in asked \cup {k} : a = b) => \A r \in x.blocked : x.rw[r] = "recv"
    <3>1. HasRoom(Here, k)
      BY <1>2, <1>6 DEF HasRoom, Here
    <3>2. (\A a, b \in asked \cup {k} : a = b) => \A r \in Here.blocked : Here.rw[r] = "recv"
      BY <3>1, OneKind DEF IInv, Sane
    <3> QED BY <2>1, <3>2 DEF Here
  <2>6. \A r \in Procs : ~ size[r] <= Len(e.buffer) => ~HasData(e, size[r])
    BY <2>4 DEF HasData, IInv, Sized, Snap
  <2>7. \A r \in Procs : ~ size[r] <= Len(e.buffer)
          => IF "recv" = "send" THEN ~HasRoom(e, size[r]) ELSE ~HasData(e, size[r])
    BY <2>6
  <2> QED BY <1>1, <1>4, <1>6, <2>1, <2>2, <2>4, <2>5, <2>7, ServeSane
<1> QED BY <1>3, <1>5, <1>6

LEMMA RecvSane ==
  ASSUME IInv, NEW p \in Procs, NEW k \in Sizes, do_mbox_recv(p, k)
  PROVE  IInv'
<1> DEFINE s == Here
           x == CopyOut(s, p, p, k)
           e == ServeSenders(x, p)
<1>1. k \in Nat /\ sent' \in Nat /\ asked' = asked \cup {k} /\ p \in holders \ blocked
  BY MailboxAssumption DEF do_mbox_recv, IInv
<1>2. /\ s \in Snap /\ s.rw = rw /\ s.blocked = blocked /\ s.waiting = waiting
      /\ s.buffer = buffer /\ s.put = put /\ s.got = got
  BY DEF IInv, Here
<1>3. \/ HasData(s, k) /\ Commit(e) /\ UNCHANGED size
      \/ ~HasData(s, k) /\ Block(s, p, "recv", k)
  BY DEF do_mbox_recv
<1>4. UNCHANGED <<holders, ref_count>>
  BY DEF do_mbox_recv
<1>5. CASE ~HasData(s, k) /\ Block(s, p, "recv", k)
  <2> HIDE DEF s
  <2> QED BY <1>1, <1>2, <1>4, <1>5, BlockSane
<1>6. CASE HasData(s, k) /\ Commit(e) /\ UNCHANGED size
  <2>1. x \in Snap /\ x.rw = rw /\ x.blocked = blocked /\ x.waiting = waiting
    BY <1>1, <1>2, <1>6, CopyOutIs
  <2>2. Streams(x)
    BY <1>1, <1>2, <1>6, CopyOutStreams DEF IInv, Sane
  <2> HIDE DEF x
  <2>3. Sane(x, x.blocked)
    BY <2>1, <2>2 DEF IInv, Sane, Held, Here
  <2>4. e \in Snap /\ Sane(e, x.blocked) /\ Thorough(x.waiting, x.rw, e.rw, size, "send", MAX_MBOX_LENGTH - Len(e.buffer))
    BY <2>1, <2>3, SendersServed DEF IInv
  <2> HIDE DEF e
  <2>5. (\A a, b \in asked \cup {k} : a = b) => \A r \in x.blocked : x.rw[r] = "send"
    <3>2. (\A a, b \in asked \cup {k} : a = b) => \A r \in Here.blocked : Here.rw[r] = "send"
      BY <1>6, OneKind DEF IInv, Sane
    <3> QED BY <2>1, <3>2 DEF Here
  <2> DEFINE left == MAX_MBOX_LENGTH - Len(e.buffer)
  <2>6. \A r \in Procs : ~ size[r] <= left => ~HasRoom(e, size[r])
    BY <2>4, MailboxAssumption DEF HasRoom, IInv, Sized, Snap
  <2>7. \A r \in Procs : ~ size[r] <= left
          => IF "send" = "send" THEN ~HasRoom(e, size[r]) ELSE ~HasData(e, size[r])
    BY <2>6
  <2>8. Thorough(x.waiting, x.rw, e.rw, size, "send", left)
    BY <2>4
  <2> HIDE DEF left
  <2> QED BY <1>1, <1>4, <1>6, <2>1, <2>2, <2>4, <2>5, <2>7, <2>8, ServeSane
<1> QED BY <1>3, <1>5, <1>6

LEMMA OpenSane ==
  ASSUME IInv, NEW p \in Procs, do_mbox_open(p)
  PROVE  IInv'
<1>1. Here' = Here /\ UNCHANGED <<size, sent, asked>> /\ ref_count' = ref_count + 1 /\ holders' = holders \cup {p}
  BY DEF do_mbox_open, Here
<1>2. Refs(holders', ref_count')
  <2>1. holders \subseteq Procs /\ IsFiniteSet(holders) /\ ref_count \in Nat /\ Cardinality(holders) <= ref_count
    BY DEF IInv, Refs
  <2>2. Cardinality(holders) \in Nat
    BY <2>1, FS_CardinalityType
  <2>3. /\ IsFiniteSet(holders \cup {p})
        /\ Cardinality(holders \cup {p}) = IF p \in holders THEN Cardinality(holders) ELSE Cardinality(holders) + 1
    BY <2>1, FS_AddElement
  <2>4. Cardinality(holders') <= ref_count'
    BY <1>1, <2>1, <2>2, <2>3
  <2> QED BY <1>1, <2>1, <2>3, <2>4 DEF Refs
<1>3. Sane(Here', holders')
  BY <1>1 DEF IInv, Sane, Held, Streams
<1>4. Asked(Here', size', asked')
  BY <1>1 DEF IInv
<1> QED BY <1>1, <1>2, <1>3, <1>4 DEF IInv, Sized, Sane, Held, Streams, Asked, Waits, HasRoom, HasData, Refs

LEMMA CloseSane ==
  ASSUME IInv, NEW p \in Procs, do_mbox_close(p)
  PROVE  IInv'
<1>1. p \in holders \ blocked /\ ref_count' = ref_count - 1 /\ holders' = holders \ {p} /\ UNCHANGED <<blocked, rw, size, mem>>
  BY DEF do_mbox_close
<1>2. /\ IsFiniteSet(holders) /\ IsFiniteSet(holders') /\ Cardinality(holders') = Cardinality(holders) - 1
      /\ Cardinality(holders) \in Nat /\ Cardinality(holders') \in Nat /\ Cardinality(holders) <= ref_count /\ ref_count \in Nat
      /\ holders' \subseteq Procs
  BY <1>1, FS_RemoveElement, FS_CardinalityType DEF IInv, Refs
<1>3. Refs(holders', ref_count')
  BY <1>1, <1>2 DEF Refs
<1>4. blocked \subseteq holders'
  BY <1>1 DEF IInv, Sane, Held, Here
<1>5. CASE ref_count' = 0
  <2>1. /\ buffer' = <<>> /\ waiting' = <<>> /\ put' = <<>> /\ got' = <<>> /\ sent' = 0 /\ asked' = {}
    BY <1>5 DEF do_mbox_close, Closed
  <2>2. blocked = {}
    <3>1. Cardinality(holders') = 0
      BY <1>1, <1>2, <1>5
    <3>2. holders' = {}
      BY <1>2, <3>1, FS_EmptySet
    <3> QED BY <1>4, <3>2
  <2>3. <<>> \in Seq(Byte) /\ <<>> \in Seq(Procs) /\ IsInjective(<<>>) /\ Range(<<>>) = {} /\ <<>> \o <<>> = <<>>
    BY DEF IsInjective, Range
  <2>4. Here' \in Snap /\ Sized' /\ sent' \in Nat
    BY <1>1, <2>1, <2>3 DEF IInv, Here, Snap, Sized
  <2>5. Sane(Here', holders')
    BY <1>1, <2>1, <2>2, <2>3 DEF Sane, Held, Streams, Here
  <2>6. Asked(Here', size', asked')
    BY <1>1, <2>1, <2>2, FS_EmptySet DEF Asked, Here
  <2> QED BY <1>3, <2>4, <2>5, <2>6 DEF IInv, Sane, Held, Streams, Asked, Waits, HasRoom, HasData, Refs
<1>6. CASE ref_count' # 0
  <2>1. UNCHANGED <<buffer, waiting, put, got, sent, asked>>
    BY <1>6 DEF do_mbox_close, Closed
  <2>2. Here' = Here
    BY <1>1, <2>1 DEF Here
  <2>3. Sane(Here', holders')
    BY <1>4, <2>2 DEF IInv, Sane, Held, Streams, Here
  <2>4. Asked(Here', size', asked')
    BY <1>1, <2>1, <2>2 DEF IInv
  <2> QED BY <1>1, <1>3, <2>1, <2>2, <2>3, <2>4 DEF IInv, Sized, Sane, Held, Streams, Asked, Waits, HasRoom, HasData, Refs
<1> QED BY <1>5, <1>6

LEMMA KillSane ==
  ASSUME IInv, NEW p \in Procs, do_kill(p)
  PROVE  IInv'
<1>1. /\ holders' = holders \ {p} /\ blocked' = blocked \ {p} /\ waiting' = RemoveFirst(waiting, p)
      /\ UNCHANGED <<buffer, ref_count, rw, size, mem, sent, put, got, asked>>
  BY DEF do_kill
<1>2. waiting \in Seq(Procs) /\ IsInjective(waiting) /\ Range(waiting) = blocked /\ blocked \subseteq holders
  BY DEF IInv, Sane, Held, Here, Snap
<1>3. waiting' \in Seq(Procs) /\ IsInjective(waiting') /\ Range(waiting') = blocked'
  BY <1>1, <1>2, RemoveFirstRange
<1>4. Here' \in Snap
  BY <1>1, <1>3 DEF IInv, Here, Snap
<1>5. Sane(Here', holders')
  BY <1>1, <1>2, <1>3 DEF IInv, Sane, Held, Streams, Here
<1>6. Asked(Here', size', asked')
  BY <1>1 DEF IInv, Asked, Here, Waits, HasRoom, HasData
<1>7. Refs(holders', ref_count')
  <2>1. IsFiniteSet(holders') /\ Cardinality(holders') <= Cardinality(holders)
    <3>1. IsFiniteSet(holders) /\ holders' \in SUBSET holders
      BY <1>1 DEF IInv, Refs
    <3> QED BY <3>1, FS_Subset
  <2>2. Cardinality(holders) \in Nat /\ Cardinality(holders') \in Nat
    BY <2>1, FS_CardinalityType DEF IInv, Refs
  <2> QED BY <1>1, <2>1, <2>2 DEF IInv, Refs
<1> QED BY <1>1, <1>4, <1>5, <1>6, <1>7 DEF IInv, Sized, Sane, Held, Streams, Asked, Waits, HasRoom, HasData, Refs

LEMMA StepSane == ASSUME IInv, [Next]_vars PROVE IInv'
<1>1. ASSUME NEW p \in Procs, do_mbox_open(p) \/ do_mbox_close(p) \/ do_kill(p) PROVE IInv'
  BY <1>1, OpenSane, CloseSane, KillSane
<1>2. ASSUME NEW p \in Procs, NEW k \in Sizes, do_mbox_send(p, k) \/ do_mbox_recv(p, k) PROVE IInv'
  BY <1>2, SendSane, RecvSane
<1>3. CASE UNCHANGED vars
  <2>1. Here' = Here /\ UNCHANGED <<size, sent, holders, ref_count, asked>>
    BY <1>3 DEF vars, Here
  <2> QED BY <2>1 DEF IInv, Sized, Sane, Held, Streams, Asked, Waits, HasRoom, HasData, Refs
<1> QED BY <1>1, <1>2, <1>3 DEF Next

LEMMA Inductive == Spec => []IInv
<1>1. IInv /\ [Next]_vars => IInv'
  BY StepSane
<1> QED BY InitSane, <1>1, PTL DEF Spec

-----------------------------------------------------------------------------
(***************************************************************************)
(* Between threads of one process no byte of a mailbox is lost, doubled or *)
(* torn, whoever copies it and however often senders and receivers sleep.  *)
(***************************************************************************)
THEOREM MailboxIsAStream == OneSpace => (Spec => []Stream)
<1> SUFFICES ASSUME OneSpace PROVE Spec => []Stream
  OBVIOUS
<1>1. IInv => Stream
  BY DEF IInv, Sane, Streams, Here, Stream
<1> QED BY <1>1, Inductive, PTL

LEMMA QueueCounts == ASSUME IInv PROVE BlockedWait
<1>1. waiting \in Seq(Procs) /\ IsInjective(waiting) /\ Range(waiting) = blocked
  BY DEF IInv, Sane, Held, Here, Snap
<1>2. ToSet(waiting) = blocked
  BY <1>1 DEF ToSet, Range
<1>3. Cardinality(blocked) = Len(waiting)
  <2> DEFINE n == Len(waiting)
  <2>1. n \in Nat /\ DOMAIN waiting = 1 .. n
    BY <1>1
  <2> HIDE DEF n
  <2>2. waiting \in Bijection(1 .. n, blocked)
    BY <1>1, <2>1 DEF Bijection, Injection, Surjection, IsInjective, Range
  <2>3. ExistsBijection(1 .. n, blocked)
    BY <2>2 DEF ExistsBijection
  <2>4. IsFiniteSet(1 .. n) /\ Cardinality(1 .. n) = n
    BY <2>1, FS_Interval
  <2>5. Cardinality(blocked) = Cardinality(1 .. n)
    BY <2>3, <2>4, FS_Bijection
  <2> QED BY <2>4, <2>5 DEF n
<1> QED BY <1>2, <1>3 DEF BlockedWait

(***************************************************************************)
(* Who is blocked in send or receive is on the wait queue, and, while all  *)
(* messages have one size, cannot be served: the walks wake all they can.  *)
(***************************************************************************)
THEOREM NobodyLeftAsleep == Spec => []NoLostWakeup
<1>1. ASSUME IInv PROVE NoLostWakeup
  <2>1. BlockedWait
    BY <1>1, QueueCounts
  <2>2. ASSUME Cardinality(asked) <= 1, NEW a \in asked, NEW b \in asked PROVE a = b
    <3>1. IsFiniteSet(asked)
      BY <1>1 DEF IInv, Asked
    <3>2. {a, b} \in SUBSET asked
      OBVIOUS
    <3>3. IsFiniteSet({a, b}) /\ Cardinality({a, b}) <= Cardinality(asked)
      BY <3>1, <3>2, FS_Subset
    <3>4. Cardinality({a} \cup {b}) = IF b \in {a} THEN Cardinality({a}) ELSE Cardinality({a}) + 1
      BY FS_AddElement, FS_Singleton
    <3>5. {a} \cup {b} = {a, b} /\ Cardinality({a}) = 1
      BY FS_Singleton
    <3>6. Cardinality(asked) \in Nat
      BY <3>1, FS_CardinalityType
    <3> QED BY <2>2, <3>3, <3>4, <3>5, <3>6
  <2>3. Cardinality(asked) <= 1 => \A p \in blocked : Waits(Here, size, p)
    BY <1>1, <2>2 DEF IInv, Asked, Here
  <2> QED BY <2>1, <2>3 DEF NoLostWakeup, Waits, Here
<1> QED BY <1>1, Inductive, PTL

-----------------------------------------------------------------------------
\* in a step that leaves the kinds of the blocked alone, or that is a walk,
\* no waiter is served before an earlier one that asks for as little
LEMMA InTurn ==
  ASSUME IInv, NEW p \in blocked, NEW q \in blocked, Before(p, q), rw[p] = rw[q], size[p] <= size[q], rw'[q] = "none",
         \/ \A r \in blocked : rw'[r] = rw[r]
         \/ \E kind, left : Thorough(waiting, rw, rw', size, kind, left)
  PROVE  rw'[p] = "none"
<1>1. rw[q] # "none"
  BY DEF IInv, Sane, Held, Here
<1>2. CASE \A r \in blocked : rw'[r] = rw[r]
  BY <1>1, <1>2
<1>3. ASSUME NEW kind, NEW left, Thorough(waiting, rw, rw', size, kind, left)
      PROVE  rw'[p] = "none"
  <2>1. PICK i, j \in 1 .. Len(waiting) : i < j /\ waiting[i] = p /\ waiting[j] = q
    BY DEF Before
  <2> QED BY <1>1, <1>3, <2>1 DEF Thorough
<1> QED BY <1>2, <1>3

LEMMA SendInTurn ==
  ASSUME IInv, NEW c \in Procs, NEW k \in Sizes, do_mbox_send(c, k)
  PROVE  \/ \A r \in blocked : rw'[r] = rw[r]
         \/ \E kind, left : Thorough(waiting, rw, rw', size, kind, left)
<1> DEFINE s == [Here EXCEPT !.mem[Own(c)] = [i \in 1..k |-> sent + i]]
           x == CopyIn(s, c, c, k)
           e == ServeReceivers(x, c)
<1>1. k \in Nat /\ c \in holders \ blocked
  BY MailboxAssumption DEF do_mbox_send
<1>2. /\ s \in Snap /\ s.rw = rw /\ s.blocked = blocked /\ s.waiting = waiting
      /\ s.buffer = buffer /\ s.put = put /\ s.got = got
  BY <1>1, FillIs DEF IInv
<1>3. \/ HasRoom(s, k) /\ Commit(e) /\ UNCHANGED size
      \/ ~HasRoom(s, k) /\ Block(s, c, "send", k)
  BY DEF do_mbox_send
<1> HIDE DEF s
<1>4. CASE Block(s, c, "send", k)
  <2>1. rw' = [s.rw EXCEPT ![c] = "send"] /\ rw \in Kinds
    BY <1>2, <1>4 DEF Block, Commit, IInv, Here, Snap, Kinds
  <2> QED BY <1>1, <1>2, <2>1 DEF Kinds
<1>5. CASE Commit(e)
  <2>1. x \in Snap /\ x.rw = rw /\ x.blocked = blocked /\ x.waiting = waiting
    BY <1>1, <1>2, CopyInIs
  <2>2. Streams(x)
    <3>1. Streams(s)
      BY <1>2 DEF IInv, Sane, Streams, Here
    <3> QED BY <1>1, <1>2, <3>1, CopyInStreams
  <2> HIDE DEF x
  <2>3. Sane(x, x.blocked)
    BY <2>1, <2>2 DEF IInv, Sane, Held, Here
  <2>4. Thorough(x.waiting, x.rw, e.rw, size, "recv", Len(e.buffer))
    BY <2>1, <2>3, ReceiversServed DEF IInv
  <2> QED BY <1>5, <2>1, <2>4 DEF Commit
<1> QED BY <1>3, <1>4, <1>5

LEMMA RecvInTurn ==
  ASSUME IInv, NEW c \in Procs, NEW k \in Sizes, do_mbox_recv(c, k)
  PROVE  \/ \A r \in blocked : rw'[r] = rw[r]
         \/ \E kind, left : Thorough(waiting, rw, rw', size, kind, left)
<1> DEFINE x == CopyOut(Here, c, c, k)
           e == ServeSenders(x, c)
<1>1. k \in Nat /\ c \in holders \ blocked
  BY MailboxAssumption DEF do_mbox_recv
<1>2. \/ HasData(Here, k) /\ Commit(e) /\ UNCHANGED size
      \/ ~HasData(Here, k) /\ Block(Here, c, "recv", k)
  BY DEF do_mbox_recv
<1>3. CASE Block(Here, c, "recv", k)
  <2>1. rw' = [rw EXCEPT ![c] = "recv"] /\ rw \in Kinds
    BY <1>3 DEF Block, Commit, IInv, Here, Snap, Kinds
  <2> QED BY <1>1, <2>1 DEF Kinds
<1>4. CASE HasData(Here, k) /\ Commit(e)
  <2>1. x \in Snap /\ x.rw = rw /\ x.blocked = blocked /\ x.waiting = waiting
    <3>1. x \in Snap /\ x.rw = Here.rw /\ x.blocked = Here.blocked /\ x.waiting = Here.waiting
      BY <1>1, <1>4, CopyOutIs DEF IInv
    <3> HIDE DEF x
    <3> QED BY <3>1 DEF Here
  <2>2. Streams(x)
    BY <1>1, <1>4, CopyOutStreams DEF IInv, Sane
  <2> HIDE DEF x
  <2>3. Sane(x, x.blocked)
    BY <2>1, <2>2 DEF IInv, Sane, Held, Here
  <2>4. Thorough(x.waiting, x.rw, e.rw, size, "send", MAX_MBOX_LENGTH - Len(e.buffer))
    BY <2>1, <2>3, SendersServed DEF IInv
  <2> QED BY <1>4, <2>1, <2>4 DEF Commit
<1> QED BY <1>2, <1>3, <1>4

(***************************************************************************)
(* A waiter is served before a later one of its kind that wants as much.   *)
(***************************************************************************)
THEOREM ServedInTurn == Spec => NoOvertaking
<1>1. ASSUME IInv, [Next]_vars
      PROVE  [\A p, q \in blocked :
                (Before(p, q) /\ rw[p] = rw[q] /\ size[p] <= size[q] /\ rw'[q] = "none") => rw'[p] = "none"]_vars
  <2>1. \/ \A r \in blocked : rw'[r] = rw[r]
        \/ \E kind, left : Thorough(waiting, rw, rw', size, kind, left)
        \/ UNCHANGED vars
    <3>1. ASSUME NEW c \in Procs, do_mbox_open(c) \/ do_mbox_close(c) \/ do_kill(c) PROVE rw' = rw
      BY <3>1 DEF do_mbox_open, do_mbox_close, do_kill
    <3>2. ASSUME NEW c \in Procs, NEW k \in Sizes, do_mbox_send(c, k) \/ do_mbox_recv(c, k)
          PROVE  \/ \A r \in blocked : rw'[r] = rw[r]
                 \/ \E kind, left : Thorough(waiting, rw, rw', size, kind, left)
      BY <1>1, <3>2, SendInTurn, RecvInTurn
    <3> QED BY <1>1, <3>1, <3>2 DEF Next
  <2> SUFFICES ASSUME ~ UNCHANGED vars, NEW p \in blocked, NEW q \in blocked, Before(p, q), rw[p] = rw[q],
                      size[p] <= size[q], rw'[q] = "none"
               PROVE  rw'[p] = "none"
    OBVIOUS
  <2> QED BY <1>1, <2>1, InTurn
<1> QED BY <1>1, Inductive, PTL DEF Spec, NoOvertaking
=============================================================================
