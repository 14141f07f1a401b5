----------------------------- MODULE Recursion -----------------------------
(***************************************************************************)
(* What the proofs need about sequences, finite sets of numbers and loops  *)
(* over them.  The library's induction theorems take the predicate as an   *)
(* operator; here it is a set, and the rest follows from Induct.           *)
(***************************************************************************)
EXTENDS Integers, SequencesExt, FiniteSetTheorems, WellFoundedInduction, NaturalsInduction, TLAPS

LEMMA Induct ==
  ASSUME NEW A, 0 \in A, \A n \in Nat : n \in A => n + 1 \in A
  PROVE  Nat \subseteq A
<1> DEFINE R == {ss \in Nat \X Nat : ss[1] < ss[2]}
           T == Nat \ A
<1>1. IsWellFoundedOn(R, Nat)
  BY NatLessThanWellFounded DEF OpToRel
<1>2. SUFFICES ASSUME T # {} PROVE FALSE
  OBVIOUS
<1>3. PICK x \in T : \A y \in T : <<y, x>> \notin R
  <2> HIDE DEF R, T
  <2>1. T \subseteq Nat BY DEF T
  <2> QED BY <1>1, <1>2, <2>1, WFMin
<1>4. x - 1 \in Nat /\ x - 1 \in A
  <2>1. x \in Nat /\ x # 0 OBVIOUS
  <2>2. x - 1 \in Nat  BY <2>1
  <2>3. <<x-1, x>> \in R BY <2>1, <2>2
  <2> QED BY <2>2, <2>3, <1>3
<1> QED BY <1>4

LEMMA MaxIs ==
  ASSUME NEW T \in SUBSET Nat, NEW x \in T, \A y \in T : y <= x
  PROVE  Max(T) = x
<1>1. \A y \in T : x >= y
  OBVIOUS
<1>2. \A z \in T : (\A y \in T : z >= y) => z = x
  <2> TAKE z \in T
  <2>1. z \in Nat /\ x \in Nat  OBVIOUS
  <2> QED BY <1>1, <2>1
<1> QED BY <1>1, <1>2, Zenon DEF Max

(***************************************************************************)
Folding(f, b, G, m) ==
  /\ f[{}] = b
  /\ \A T \in SUBSET (1 .. m) : T # {} => Max(T) \in T /\ f[T] = G[Max(T)][f[T \ {Max(T)}]]

LEMMA FoldExists ==
  ASSUME NEW S, NEW b \in S, NEW n \in Nat, NEW G \in [1 .. n -> [S -> S]]
  PROVE  \E f \in [SUBSET (1 .. n) -> S] : Folding(f, b, G, n)
<1> DEFINE Good(m) == \E f \in [SUBSET (1 .. m) -> S] : Folding(f, b, G, m)
           A == {m \in Nat : m <= n => Good(m)}
<1>1. 0 \in A
  <2> DEFINE f == [T \in SUBSET (1 .. 0) |-> b]
  <2>1. \A T \in SUBSET (1 .. 0) : T = {}
    OBVIOUS
  <2>2. f \in [SUBSET (1 .. 0) -> S] /\ f[{}] = b
    OBVIOUS
  <2> HIDE DEF f
  <2>3. Folding(f, b, G, 0)
    BY <2>1, <2>2 DEF Folding
  <2>4. Good(0)
    BY <2>2, <2>3
  <2> HIDE DEF Good
  <2> QED BY <2>4
<1>2. ASSUME NEW m \in Nat, m \in A PROVE m + 1 \in A
  <2>a. Good(m) \/ ~ m <= n
    <3> HIDE DEF Good
    <3> QED BY <1>2
  <2> SUFFICES ASSUME m + 1 <= n PROVE Good(m + 1)
    <3> HIDE DEF Good
    <3> QED OBVIOUS
  <2>b. Good(m)
    <3> HIDE DEF Good
    <3> QED BY <2>a
  <2>1. PICK f \in [SUBSET (1 .. m) -> S] : Folding(f, b, G, m)
    BY <2>b, Zenon
  <2> DEFINE g == [T \in SUBSET (1 .. m + 1) |-> IF m + 1 \in T THEN G[m+1][f[T \ {m+1}]] ELSE f[T]]
  <2>2. ASSUME NEW T \in SUBSET (1 .. m + 1)
        PROVE  IF m + 1 \in T THEN T \ {m+1} \in SUBSET (1 .. m) ELSE T \in SUBSET (1 .. m)
    OBVIOUS
  <2>3. g \in [SUBSET (1 .. m + 1) -> S]
    BY <2>2
  <2>4. g[{}] = b
    BY <2>1 DEF Folding
  <2>5. ASSUME NEW T \in SUBSET (1 .. m + 1), T # {}
        PROVE  Max(T) \in T /\ g[T] = G[Max(T)][g[T \ {Max(T)}]]
    <3>1. CASE m + 1 \in T
      <4>1. T \in SUBSET Nat /\ \A y \in T : y <= m + 1
        OBVIOUS
      <4>2. Max(T) = m + 1
        BY <3>1, <4>1, MaxIs
      <4>3. g[T \ {m + 1}] = f[T \ {m + 1}]
        OBVIOUS
      <4> QED BY <3>1, <4>2, <4>3
    <3>2. CASE m + 1 \notin T
      <4>1. T \in SUBSET (1 .. m)
        BY <3>2, <2>2
      <4>2. Max(T) \in T /\ f[T] = G[Max(T)][f[T \ {Max(T)}]]
        BY <4>1, <2>1, <2>5 DEF Folding
      <4>3. g[T] = f[T] /\ g[T \ {Max(T)}] = f[T \ {Max(T)}]
        BY <3>2
      <4> QED BY <4>2, <4>3
    <3> QED BY <3>1, <3>2
  <2> HIDE DEF g
  <2> QED BY <2>3, <2>4, <2>5 DEF Folding
<1> HIDE DEF A
<1>3. Nat \subseteq A
  BY <1>1, <1>2, Induct
<1>4. Good(n)
  <2> HIDE DEF Good
  <2> QED BY <1>3 DEF A
<1> QED BY <1>4

Unfolds(h, b, G, S, n) ==
  /\ h[{}] = b
  /\ \A T \in SUBSET (1 .. n) :
       T # {} /\ h[T \ {Max(T)}] \in S => h[T] = G[Max(T)][h[T \ {Max(T)}]]

\* w are the values a loop goes through from b to e when turn i applies G[i]
Turns(w, b, e, G, S, n) ==
  /\ w \in [0 .. n -> S] /\ w[0] = b /\ w[n] = e
  /\ \A i \in 1 .. n : w[i] = G[i][w[i - 1]]

LEMMA FoldSteps ==
  ASSUME NEW S, NEW b \in S, NEW n \in Nat, NEW G \in [1 .. n -> [S -> S]],
         NEW h, Unfolds(h, b, G, S, n)
  PROVE  \E w : Turns(w, b, h[1 .. n], G, S, n)
<1>5. ASSUME NEW i \in 1 .. n, h[1 .. (i - 1)] \in S
      PROVE  h[1 .. i] = G[i][h[1 .. (i - 1)]]
  <2>1. Max(1 .. i) = i
    BY MaxIs
  <2>2. (1 .. i) \ {i} = 1 .. (i - 1)
    OBVIOUS
  <2>3. 1 .. i \in SUBSET (1 .. n) /\ 1 .. i # {}
    <3>1. i \in 1 .. i  OBVIOUS
    <3> QED BY <3>1
  <2> QED BY <1>5, <2>1, <2>2, <2>3 DEF Unfolds
<1> DEFINE A == {i \in Nat : i <= n => h[1 .. i] \in S}
<1>6. h[1 .. 0] = b
  <2>1. 1 .. 0 = {}  OBVIOUS
  <2> QED BY <2>1 DEF Unfolds
<1>7. \A i \in 0 .. n : h[1 .. i] \in S
  <2>1. 0 \in A
    BY <1>6
  <2>2. ASSUME NEW i \in Nat, i \in A PROVE i + 1 \in A
    <3> SUFFICES ASSUME i + 1 <= n PROVE h[1 .. (i + 1)] \in S
      OBVIOUS
    <3>0. i + 1 \in 1 .. n /\ (i + 1) - 1 = i
      OBVIOUS
    <3>1. h[1 .. i] \in S
      BY <2>2
    <3>2. h[1 .. (i + 1)] = G[i + 1][h[1 .. i]]
      BY <1>5, <3>0, <3>1
    <3> QED BY <3>0, <3>1, <3>2
  <2> HIDE DEF A
  <2>3. Nat \subseteq A
    BY <2>1, <2>2, Induct
  <2> QED BY <2>3 DEF A
<1> DEFINE w == [i \in 0 .. n |-> h[1 .. i]]
<1>8. w \in [0 .. n -> S]
  BY <1>7
<1>9. w[0] = b /\ h[1 .. n] = w[n]
  BY <1>6
<1>10. \A i \in 1 .. n : w[i] = G[i][w[i-1]]
  BY <1>5, <1>7
<1> HIDE DEF w
<1>11. Turns(w, b, h[1 .. n], G, S, n)
  BY <1>8, <1>9, <1>10 DEF Turns
<1> QED BY <1>11

LEMMA LeastExists ==
  ASSUME NEW S \in SUBSET Nat, S # {}
  PROVE  \E m \in S : \A k \in S : m <= k
<1> DEFINE R == {ss \in Nat \X Nat : ss[1] < ss[2]}
<1>1. IsWellFoundedOn(R, Nat)
  BY NatLessThanWellFounded DEF OpToRel
<1>2. PICK m \in S : \A k \in S : <<k, m>> \notin R
  <2> HIDE DEF R
  <2> QED BY <1>1, WFMin
<1>3. \A k \in S : ~ k < m
  BY <1>2
<1>4. S \subseteq Nat
  OBVIOUS
<1> QED BY <1>3, <1>4

LEMMA MinIs ==
  ASSUME NEW S \in SUBSET Nat, S # {}
  PROVE  Min(S) \in S /\ \A k \in S : Min(S) <= k
<1>1. \E m \in S : \A k \in S : m <= k
  BY LeastExists
<1> QED BY <1>1, Zenon DEF Min

(***************************************************************************)
(* A finite set of numbers has an increasing enumeration.                  *)
(***************************************************************************)
Increasing(S) ==
  {q \in [1 .. Cardinality(S) -> S] : \A i, j \in DOMAIN q : i < j => q[i] < q[j]}

LEMMA IncreasingExists ==
  ASSUME NEW S \in SUBSET Nat, IsFiniteSet(S)
  PROVE  \E q \in Increasing(S) : Range(q) = S
<1> DEFINE Good(T) == \E q \in Increasing(T) : Range(q) = T
           A == {n \in Nat : \A T \in SUBSET Nat : IsFiniteSet(T) /\ Cardinality(T) = n => Good(T)}
<1>1. 0 \in A
  <2> SUFFICES ASSUME NEW T \in SUBSET Nat, IsFiniteSet(T), Cardinality(T) = 0 PROVE Good(T)
    <3> HIDE DEF Good
    <3> QED OBVIOUS
  <2>1. T = {}
    BY FS_EmptySet
  <2> DEFINE q == [i \in 1 .. 0 |-> 0]
  <2>2. 1 .. 0 = {}
    OBVIOUS
  <2>3. q \in [1 .. Cardinality(T) -> T] /\ DOMAIN q = {} /\ Range(q) = {}
    BY <2>1, <2>2 DEF Range
  <2> HIDE DEF q
  <2> QED BY <2>1, <2>3 DEF Increasing
<1>2. ASSUME NEW n \in Nat, n \in A PROVE n + 1 \in A
  <2> SUFFICES ASSUME NEW T \in SUBSET Nat, IsFiniteSet(T), Cardinality(T) = n + 1 PROVE Good(T)
    <3> HIDE DEF Good
    <3> QED OBVIOUS
  <2>1. T # {}
    BY FS_EmptySet
  <2>2. PICK m \in T : \A k \in T : m <= k
    BY <2>1, LeastExists
  <2> DEFINE U == T \ {m}
  <2>3. U \in SUBSET Nat /\ IsFiniteSet(U) /\ Cardinality(U) = n /\ \A k \in U : m < k
    <3>1. IsFiniteSet(U) /\ Cardinality(U) = Cardinality(T) - 1
      BY FS_RemoveElement
    <3>2. T \subseteq Nat
      OBVIOUS
    <3> QED BY <2>2, <3>1, <3>2
  <2>4. Good(U)
    <3> HIDE DEF Good, U
    <3> QED BY <1>2, <2>3
  <2>5. PICK r \in Increasing(U) : Range(r) = U
    BY <2>4
  <2> DEFINE q == [i \in 1 .. (n + 1) |-> IF i = 1 THEN m ELSE r[i - 1]]
  <2>6. r \in [1 .. n -> U] /\ \A i, j \in 1 .. n : i < j => r[i] < r[j]
    BY <2>3, <2>5 DEF Increasing
  <2>7. \A i \in 2 .. (n + 1) : i - 1 \in 1 .. n /\ q[i] = r[i - 1] /\ q[i] \in U
    BY <2>6
  <2>8. q \in [1 .. (n + 1) -> T] /\ q[1] = m
    <3>1. \A i \in 1 .. (n + 1) : i = 1 \/ i \in 2 .. (n + 1)
      OBVIOUS
    <3>2. q[1] = m /\ DOMAIN q = 1 .. (n + 1)
      OBVIOUS
    <3>3. \A i \in 1 .. (n + 1) : q[i] \in T
      BY <2>7, <3>1, <3>2
    <3> QED BY <3>2, <3>3
  <2>9. ASSUME NEW i \in 1 .. (n + 1), NEW j \in 1 .. (n + 1), i < j PROVE q[i] < q[j]
    <3>1. j \in 2 .. (n + 1)
      BY <2>9
    <3>2. CASE i = 1
      BY <2>3, <2>7, <2>8, <3>1, <3>2
    <3>3. CASE i # 1
      <4>1. i \in 2 .. (n + 1)
        BY <3>3
      <4>2. i - 1 \in 1 .. n /\ j - 1 \in 1 .. n /\ i - 1 < j - 1
        BY <2>9, <3>1, <4>1
      <4> QED BY <2>6, <2>7, <3>1, <4>1, <4>2
    <3> QED BY <3>2, <3>3
  <2>10. Range(q) = T
    <3>1. \A k \in U : \E i \in 1 .. (n + 1) : q[i] = k
      <4> TAKE k \in U
      <4>1. PICK j \in 1 .. n : r[j] = k
        BY <2>5, <2>6 DEF Range
      <4>2. j + 1 \in 2 .. (n + 1) /\ (j + 1) - 1 = j
        OBVIOUS
      <4>3. q[j + 1] = k
        BY <2>7, <4>1, <4>2
      <4>4. j + 1 \in 1 .. (n + 1)
        BY <4>2
      <4> HIDE DEF q
      <4> QED BY <4>3, <4>4
    <3>2. DOMAIN q = 1 .. (n + 1) /\ 1 \in 1 .. (n + 1)
      OBVIOUS
    <3> HIDE DEF q
    <3> QED BY <2>8, <3>1, <3>2 DEF Range
  <2> HIDE DEF q
  <2> QED BY <2>8, <2>9, <2>10 DEF Increasing
<1> HIDE DEF A
<1>3. Nat \subseteq A
  BY <1>1, <1>2, Induct
<1>4. Cardinality(S) \in Nat
  BY FS_CardinalityType
<1> QED BY <1>3, <1>4 DEF A

LEMMA IncreasingIs ==
  ASSUME NEW S \in SUBSET Nat, IsFiniteSet(S), NEW q \in Increasing(S)
  PROVE  q \in Seq(S) /\ Range(q) = S /\ IsInjective(q)
<1> DEFINE n == Cardinality(S)
<1>1. q \in [1 .. n -> S] /\ \A i, j \in DOMAIN q : i < j => q[i] < q[j]
  BY DEF Increasing
<1>2. n \in Nat
  BY FS_CardinalityType
<1> HIDE DEF n
<1>3. \A i, j \in 1 .. n : q[i] = q[j] => i = j
  <2> TAKE i, j \in 1 .. n
  <2>1. q[i] \in Nat /\ q[j] \in Nat
    BY <1>1
  <2>2. i < j \/ j < i \/ i = j
    BY <1>2
  <2> QED BY <1>1, <2>1, <2>2
<1>4. q \in Injection(1 .. n, S)
  BY <1>1, <1>3 DEF Injection, IsInjective
<1>5. Cardinality(1 .. n) = Cardinality(S)
  BY <1>2, FS_Interval DEF n
<1>6. q \in Surjection(1 .. n, S)
  BY <1>4, <1>5, FS_Injection
<1>7. Range(q) = S
  BY <1>1, <1>6 DEF Surjection, Range
<1>8. q \in Seq(S)
  BY <1>1, <1>2
<1>9. IsInjective(q)
  BY <1>1, <1>3 DEF IsInjective
<1> QED BY <1>7, <1>8, <1>9

(***************************************************************************)
(* RemoveFirst takes one element out of a sequence and keeps the order.    *)
(***************************************************************************)
LEMMA RemoveFirstIs ==
  ASSUME NEW T, NEW s \in Seq(T), NEW e
  PROVE  \/ e \notin Range(s) /\ RemoveFirst(s, e) = s
         \/ \E i \in 1 .. Len(s) :
              /\ s[i] = e /\ RemoveFirst(s, e) \in Seq(T)
              /\ Len(RemoveFirst(s, e)) = Len(s) - 1
              /\ \A k \in 1 .. (Len(s) - 1) : RemoveFirst(s, e)[k] = IF k < i THEN s[k] ELSE s[k + 1]
<1> DEFINE I == {k \in 1 .. Len(s) : s[k] = e}
<1>1. CASE I = {}
  <2>1. \A k \in 1 .. Len(s) : s[k] # e
    BY <1>1
  <2>2. RemoveFirst(s, e) = s
    BY <2>1 DEF RemoveFirst, RemoveAt, SelectInSeq
  <2> QED BY <2>1, <2>2 DEF Range
<1>2. CASE I # {}
  <2> DEFINE i == Min(I)
             a == SubSeq(s, 1, i - 1)
             b == SubSeq(s, i + 1, Len(s))
  <2>1. i \in 1 .. Len(s) /\ s[i] = e
    <3>1. Min(I) \in I
      <4>1. I \in SUBSET Nat
        OBVIOUS
      <4> HIDE DEF I
      <4> QED BY <1>2, <4>1, MinIs
    <3> QED BY <3>1
  <2>2. RemoveFirst(s, e) = a \o b
    BY <1>2 DEF RemoveFirst, RemoveAt, SelectInSeq
  <2> HIDE DEF i
  <2>3. a \in Seq(T) /\ Len(a) = i - 1 /\ \A k \in 1 .. (i - 1) : a[k] = s[k]
    BY <2>1
  <2>4. b \in Seq(T) /\ Len(b) = Len(s) - i /\ \A k \in 1 .. (Len(s) - i) : b[k] = s[i + k]
    BY <2>1
  <2> HIDE DEF a, b
  <2>5. Len(a \o b) = Len(s) - 1 /\ a \o b \in Seq(T)
    <3>0. a \in Seq(T) /\ b \in Seq(T)
      BY <2>3, <2>4
    <3>1. Len(a \o b) = Len(a) + Len(b) /\ a \o b \in Seq(T)
      BY ONLY <3>0
    <3>2. Len(s) \in Nat /\ i \in Nat
      BY <2>1
    <3> QED BY <2>3, <2>4, <3>1, <3>2
  <2>6. \A k \in 1 .. (Len(s) - 1) : (a \o b)[k] = IF k < i THEN s[k] ELSE s[k + 1]
    BY <2>1, <2>3, <2>4
  <2> QED BY <2>1, <2>2, <2>5, <2>6
<1> QED BY <1>1, <1>2

LEMMA RemoveFirstRange ==
  ASSUME NEW T, NEW s \in Seq(T), NEW e, IsInjective(s)
  PROVE  /\ RemoveFirst(s, e) \in Seq(T) /\ IsInjective(RemoveFirst(s, e))
         /\ Range(RemoveFirst(s, e)) = Range(s) \ {e}
<1> DEFINE r == RemoveFirst(s, e)
<1>1. CASE e \notin Range(s) /\ r = s
  BY <1>1
<1>2. ASSUME NEW i \in 1 .. Len(s), s[i] = e, r \in Seq(T), Len(r) = Len(s) - 1,
             \A k \in 1 .. (Len(s) - 1) : r[k] = IF k < i THEN s[k] ELSE s[k + 1]
      PROVE  r \in Seq(T) /\ IsInjective(r) /\ Range(r) = Range(s) \ {e}
  <2> HIDE DEF r
  <2> DEFINE f(k) == IF k < i THEN k ELSE k + 1
  <2>1. \A k \in 1 .. Len(r) : f(k) \in 1 .. Len(s) /\ f(k) # i /\ r[k] = s[f(k)]
    BY <1>2
  <2>2. \A j, k \in 1 .. Len(r) : f(j) = f(k) => j = k
    BY <1>2
  <2>3. \A m \in 1 .. Len(s) : m # i => \E k \in 1 .. Len(r) : f(k) = m
    <3> TAKE m \in 1 .. Len(s)
    <3>1. CASE m < i
      BY <1>2, <3>1
    <3>2. CASE m > i
      <4>1. m - 1 \in 1 .. Len(r) /\ f(m - 1) = m
        BY <1>2, <3>2
      <4> QED BY <4>1
    <3> QED BY <3>1, <3>2
  <2> HIDE DEF f
  <2>4. DOMAIN r = 1 .. Len(r) /\ DOMAIN s = 1 .. Len(s)
    BY <1>2
  <2>5. IsInjective(r)
    BY <2>1, <2>2, <2>4 DEF IsInjective
  <2>6. Range(r) = Range(s) \ {e}
    <3>1. \A k \in 1 .. Len(r) : r[k] \in Range(s) /\ r[k] # e
      BY <1>2, <2>1, <2>4 DEF IsInjective, Range
    <3>2. \A m \in 1 .. Len(s) : s[m] # e => \E k \in 1 .. Len(r) : r[k] = s[m]
      BY <1>2, <2>1, <2>3
    <3>3. \A x \in Range(r) : x \in Range(s) \ {e}
      BY <2>4, <3>1 DEF Range
    <3>4. \A x \in Range(s) \ {e} : x \in Range(r)
      BY <2>4, <3>2 DEF Range
    <3> QED BY <3>3, <3>4
  <2> QED BY <1>2, <2>5, <2>6
<1> QED BY <1>1, <1>2, RemoveFirstIs

LEMMA RemoveFirstType ==
  ASSUME NEW T, NEW s \in Seq(T), NEW e
  PROVE  RemoveFirst(s, e) \in Seq(T)
BY RemoveFirstIs

(***************************************************************************)
(* What every step of a loop keeps holds after the last one.               *)
(***************************************************************************)
LEMMA LoopKeeps ==
  ASSUME NEW n \in Nat, NEW w, NEW P, w[0] \in P[0],
         \A i \in 1 .. n : w[i - 1] \in P[i - 1] => w[i] \in P[i]
  PROVE  w[n] \in P[n]
<1> DEFINE A == {i \in Nat : i <= n => w[i] \in P[i]}
<1>1. 0 \in A
  OBVIOUS
<1>2. ASSUME NEW i \in Nat, i \in A PROVE i + 1 \in A
  <2> SUFFICES ASSUME i + 1 <= n PROVE w[i + 1] \in P[i + 1]
    OBVIOUS
  <2>1. w[i] \in P[i]
    BY <1>2
  <2>2. i + 1 \in 1 .. n /\ (i + 1) - 1 = i
    OBVIOUS
  <2> QED BY <2>1, <2>2
<1> HIDE DEF A
<1>3. Nat \subseteq A
  BY <1>1, <1>2, Induct
<1> QED BY <1>3 DEF A
=============================================================================
