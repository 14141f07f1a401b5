---------------------------- MODULE MemoryProofs ----------------------------
(***************************************************************************)
(* Memory keeps what it promises for any number of CPUs, slots, pages,     *)
(* frames, page tables and swap entries.                                   *)
(***************************************************************************)
EXTENDS Memory, Recursion

(***************************************************************************)
(* What is assumed of the constants.  Asids are matched as subsets, so the *)
(* slots must be such that no asid is contained in another (see            *)
(* MCMemoryAsid).  The code checks neither that choose_swap has a user     *)
(* frame to find nor that swap_out finds a free entry.                     *)
(***************************************************************************)
Apart == \A p, q \in Procs : Asid[p] \subseteq Asid[q] => p = q

Enough == /\ Cardinality(Procs) < MEM_PAGE_NUM
          /\ Cardinality(Procs \X Pages) <= SWAP_INFO_NUM

(***************************************************************************)
(* The flags of a frame of p, user page or kernel stack; a page table      *)
(* entry that leads to frame f, or to a page that is out; a swap entry     *)
(* with page v of p.                                                       *)
(***************************************************************************)
Us(x, p) == x \in {Asid[p], Asid[p] \cup {AccessedBit}}
Ks(x, p) == x = Asid[p] \cup {KernelBit}
At(e, f) == e = [frame |-> f, present |-> TRUE]
Away(e)  == e # Unmapped /\ ~ e.present
Has(x, p, v) == x # None /\ x.va = v /\ x.asid = Asid[p]

LEMMA UsIs ==
  ASSUME Apart, NEW x
  PROVE  /\ \A p, q \in Procs : Us(x, p) /\ Us(x, q) => p = q
         /\ \A p, q \in Procs : Ks(x, p) /\ Ks(x, q) => p = q
         /\ \A p, q \in Procs : ~ (Us(x, p) /\ Ks(x, q))
         /\ \A p \in Procs : Us(x, p) => /\ x # {} /\ KernelBit \notin x
                                         /\ x \ {AccessedBit} = Asid[p]
                                         /\ Us(x \ {AccessedBit}, p) /\ Us(x \cup {AccessedBit}, p)
         /\ \A p \in Procs : Ks(x, p) => x # {} /\ KernelBit \in x /\ x \ {AccessedBit} = x
<1>1. \A p \in Procs : /\ Asid[p] # {} /\ KernelBit \notin Asid[p] /\ AccessedBit \notin Asid[p]
  BY MemoryAssumption
<1>2. KernelBit # AccessedBit
  BY MemoryAssumption
<1>3. ASSUME NEW p \in Procs, NEW q \in Procs, Us(x, p), Us(x, q) PROVE p = q
  <2>1. Asid[p] = x \ {AccessedBit} /\ Asid[q] = x \ {AccessedBit}
    BY <1>1, <1>3 DEF Us
  <2> QED BY <2>1 DEF Apart
<1>4. ASSUME NEW p \in Procs, NEW q \in Procs, Ks(x, p), Ks(x, q) PROVE p = q
  <2>1. Asid[p] = x \ {KernelBit} /\ Asid[q] = x \ {KernelBit}
    BY <1>1, <1>4 DEF Ks
  <2> QED BY <2>1 DEF Apart
<1>5. ASSUME NEW p \in Procs, Us(x, p)
      PROVE  /\ x # {} /\ KernelBit \notin x /\ x \ {AccessedBit} = Asid[p]
             /\ Us(x \ {AccessedBit}, p) /\ Us(x \cup {AccessedBit}, p)
  BY <1>1, <1>2, <1>5 DEF Us
<1>6. ASSUME NEW p \in Procs, Ks(x, p)
      PROVE  x # {} /\ KernelBit \in x /\ x \ {AccessedBit} = x
  BY <1>1, <1>2, <1>6 DEF Ks
<1> QED BY <1>3, <1>4, <1>5, <1>6

\* the marks of q are in the flags of a frame of p only if q is p
LEMMA SameProc ==
  ASSUME Apart, NEW x, NEW p \in Procs, NEW q \in Procs, Us(x, p) \/ Ks(x, p) \/ x = Asid[p]
  PROVE  is_same_proc(x, Asid[q]) <=> q = p
<1>1. Asid[q] # {} /\ KernelBit \notin Asid[q] /\ AccessedBit \notin Asid[q]
  BY MemoryAssumption
<1>2. Asid[q] \subseteq x => Asid[q] \subseteq Asid[p]
  BY <1>1 DEF Us, Ks
<1>3. Asid[p] \subseteq x
  BY DEF Us, Ks
<1> QED BY <1>2, <1>3 DEF Apart, is_same_proc

LEMMA EntryIs ==
  /\ \A e \in PTE \cup {Unmapped} : e = Unmapped \/ Away(e) \/ \E f \in Frames : At(e, f)
  /\ \A e, f : At(e, f) /\ f \in Frames => e # Unmapped /\ ~ Away(e) /\ e.present /\ e.frame = f
  /\ \A e, f, g : At(e, f) /\ At(e, g) => f = g
  /\ ~ Away(Unmapped)
<1>1. \A e \in PTE : e = [frame |-> e.frame, present |-> e.present] /\ e.frame \in Frames /\ e.present \in BOOLEAN
  BY DEF PTE
<1>2. \A f \in Frames : [frame |-> f, present |-> TRUE] \in PTE
  BY DEF PTE
<1>3. Unmapped \notin PTE
  BY MemoryAssumption
<1>4. \A e, f, g : At(e, f) /\ At(e, g) => f = g
  BY DEF At
<1>5. \A e \in PTE \cup {Unmapped} : e = Unmapped \/ Away(e) \/ \E f \in Frames : At(e, f)
  BY <1>1, <1>3 DEF At, Away
<1>6. \A e, f : At(e, f) /\ f \in Frames => e # Unmapped /\ ~ Away(e) /\ e.present /\ e.frame = f
  BY <1>2, <1>3 DEF At, Away
<1> QED BY <1>4, <1>5, <1>6 DEF Away

LEMMA HasIs ==
  ASSUME Apart
  PROVE  \A x : \A p, q \in Procs : \A u, v : Has(x, p, u) /\ Has(x, q, v) => p = q /\ u = v
BY DEF Has, Apart

(***************************************************************************)
(* The invariant, of a snapshot s.  L are the processes that have memory:  *)
(* the live ones and the one that do_exec builds.  sa is pcb[].satp.       *)
(***************************************************************************)
Bits == UNION {Asid[p] : p \in Procs}
Flags == SUBSET (Bits \cup {KernelBit, AccessedBit})

Snap == [map : [Frames -> Flags], va : [Frames -> Pages \cup {None}], data : [Frames -> Data],
         pgt : [Tables -> Flags], pte : [Tables -> [Pages -> PTE \cup {Unmapped}]],
         swap : [Entries -> SwapInfo \cup {None}], clock : Int, panic : BOOLEAN]

\* frame f is marked as page v of q
Mine(s, f, q, v) == Us(s.map[f], q) /\ s.va[f] = v

Tabled(s, L, sa) ==
  /\ \A q \in L : sa[q] \in Tables /\ s.pgt[sa[q]] = Asid[q]
  /\ \A t \in Tables : s.pgt[t] = {} \/ \E q \in L : s.pgt[t] = Asid[q]

\* a frame is free, a kernel stack, or the page that leads to it
Framed(s, L, sa) ==
  /\ \A f \in Frames : \/ s.map[f] = {}
                       \/ \E q \in L : Ks(s.map[f], q)
                       \/ \E q \in L, v \in Pages : Mine(s, f, q, v) /\ At(s.pte[sa[q]][v], f)
  /\ \A q \in L, v \in Pages, f \in Frames : At(s.pte[sa[q]][v], f) => Mine(s, f, q, v)
  /\ \A q \in L, f, g \in Frames : Ks(s.map[f], q) /\ Ks(s.map[g], q) => f = g

\* an entry holds a page that is out, and the only one to do so
Swapped(s, L, sa) ==
  /\ \A i \in Entries : s.swap[i] # None =>
       \E q \in L, v \in Pages : Has(s.swap[i], q, v) /\ Away(s.pte[sa[q]][v])
  /\ \A q \in L, v \in Pages : Away(s.pte[sa[q]][v]) => \E i \in Entries : Has(s.swap[i], q, v)
  /\ \A q \in L, v \in Pages, i, j \in Entries : Has(s.swap[i], q, v) /\ Has(s.swap[j], q, v) => i = j

Fit(s, L, sa) ==
  /\ s \in Snap /\ ~ s.panic /\ L \subseteq Procs
  /\ Tabled(s, L, sa) /\ Framed(s, L, sa) /\ Swapped(s, L, sa)

Live == {p \in Procs : status[p] # "EXITED"}

\* who runs on the CPUs, and which faults are pending
Runs ==
  /\ status \in [Procs -> {"EXITED", "READY"}] /\ satp \in [Procs -> Tables \cup {None}]
  /\ current \in [Harts -> Procs \cup {Idle}]
  /\ \A h \in Harts : current[h] = Idle \/ status[current[h]] = "READY"
  /\ fault \in [Harts -> Pages \cup {None}]
  /\ \A h \in Harts : fault[h] # None => current[h] # Idle

IInv == Fit(Here, Live, satp) /\ Runs

\* what the parts of a snapshot are
LEMMA Parts ==
  ASSUME NEW s \in Snap
  PROVE  /\ s.map \in [Frames -> Flags] /\ s.va \in [Frames -> Pages \cup {None}]
         /\ s.data \in [Frames -> Data] /\ s.pgt \in [Tables -> Flags]
         /\ s.pte \in [Tables -> [Pages -> PTE \cup {Unmapped}]]
         /\ s.swap \in [Entries -> SwapInfo \cup {None}] /\ s.clock \in Int /\ s.panic \in BOOLEAN
BY DEF Snap

LEMMA FlagsAre ==
  /\ {} \in Flags /\ \A x \in Flags : x \cup {AccessedBit} \in Flags
  /\ \A p \in Procs : Asid[p] \in Flags /\ Asid[p] \cup {KernelBit} \in Flags
<1>1. ASSUME NEW p \in Procs, NEW y \in Asid[p] PROVE y \in Bits
  <2>1. Asid[p] \in {Asid[r] : r \in Procs}
    OBVIOUS
  <2> QED BY <2>1 DEF Bits
<1> QED BY <1>1 DEF Flags

LEMMA TablesDiffer ==
  ASSUME Apart, NEW s, NEW L, NEW sa, Fit(s, L, sa)
  PROVE  \A p, q \in L : sa[p] = sa[q] => p = q
BY DEF Fit, Tabled, Apart

-----------------------------------------------------------------------------
(***************************************************************************)
(* What a page holds.                                                      *)
(***************************************************************************)
LEMMA FoundIs ==
  ASSUME Apart, NEW s, NEW L, NEW sa, Fit(s, L, sa), NEW q \in L, NEW v
  PROVE  page_in_swap(s, v, Asid[q]) = {i \in Entries : Has(s.swap[i], q, v)}
<1>1. ASSUME NEW i \in Entries, s.swap[i] # None
      PROVE  is_same_proc(s.swap[i].asid, Asid[q]) <=> s.swap[i].asid = Asid[q]
  <2>1. PICK p \in L : s.swap[i].asid = Asid[p]
    BY <1>1 DEF Fit, Swapped, Has
  <2>2. p \in Procs /\ q \in Procs
    BY DEF Fit
  <2>3. is_same_proc(Asid[p], Asid[q]) <=> q = p
    BY <2>2, SameProc
  <2> QED BY <2>1, <2>2, <2>3 DEF Apart
<1> QED BY <1>1 DEF page_in_swap, Has

LEMMA ContentIs ==
  ASSUME Apart, NEW s, NEW L, NEW sa, Fit(s, L, sa), NEW q \in L, NEW v \in Pages
  PROVE  /\ s.pte[sa[q]][v] = Unmapped => Content(s, sa, q, v) = Zero
         /\ \A f \in Frames : At(s.pte[sa[q]][v], f) => Content(s, sa, q, v) = s.data[f]
         /\ \A i \in Entries : Away(s.pte[sa[q]][v]) /\ Has(s.swap[i], q, v) =>
              Content(s, sa, q, v) = s.swap[i].data
<1>1. \A f \in Frames : At(s.pte[sa[q]][v], f) => Content(s, sa, q, v) = s.data[f]
  BY EntryIs DEF Content
<1>2. ASSUME NEW i \in Entries, Away(s.pte[sa[q]][v]), Has(s.swap[i], q, v)
      PROVE  Content(s, sa, q, v) = s.swap[i].data
  <2>1. \A j \in Entries : Has(s.swap[j], q, v) <=> j = i
    BY <1>2 DEF Fit, Swapped
  <2>2. page_in_swap(s, v, Asid[q]) = {i}
    BY <2>1, FoundIs
  <2>3. {i} \in SUBSET Nat /\ {i} # {}
    BY MemoryAssumption DEF Entries
  <2>4. Min({i}) = i
    BY <2>3, MinIs
  <2> QED BY <1>2, <2>2, <2>4 DEF Content, Away
<1> QED BY <1>1, <1>2 DEF Content

\* the pages of the processes hold the same in s and w
Same(s, w, L, sa) == \A q \in L, v \in Pages : Content(w, sa, q, v) = Content(s, sa, q, v)

LEMMA SameContent ==
  ASSUME NEW s, NEW w, NEW L, NEW sa, w.pte = s.pte, w.data = s.data, w.swap = s.swap
  PROVE  Same(s, w, L, sa)
BY DEF Same, Content, page_in_swap

\* no frame becomes a kernel stack
NoStack(s, w, L) == \A f \in Frames, q \in L : Ks(w.map[f], q) => Ks(s.map[f], q)

(***************************************************************************)
(* The marks of user frames are set and removed.                           *)
(***************************************************************************)
LEMMA RetagFit ==
  ASSUME Apart, NEW s, NEW L, NEW sa, Fit(s, L, sa), NEW w \in Snap,
         w.va = s.va, w.data = s.data, w.pgt = s.pgt, w.pte = s.pte, w.swap = s.swap, ~ w.panic,
         \A g \in Frames : \/ w.map[g] \in {s.map[g], s.map[g] \ {AccessedBit}}
                           \/ /\ w.map[g] = s.map[g] \cup {AccessedBit}
                              /\ \E q \in L : Us(s.map[g], q)
  PROVE  Fit(w, L, sa) /\ Same(s, w, L, sa) /\ NoStack(s, w, L)
<1>1. L \subseteq Procs
  BY DEF Fit
<1>2. ASSUME NEW g \in Frames
      PROVE  /\ s.map[g] = {} => w.map[g] = {}
             /\ \A q \in L : (Us(s.map[g], q) => Us(w.map[g], q)) /\ (Ks(s.map[g], q) => Ks(w.map[g], q))
  BY <1>1, UsIs
<1>3. ASSUME NEW g \in Frames
      PROVE  \A q \in L : (Us(w.map[g], q) => Us(s.map[g], q)) /\ (Ks(w.map[g], q) => Ks(s.map[g], q))
  <2>1. s.map[g] = {} \/ (\E p \in L : Us(s.map[g], p) \/ Ks(s.map[g], p))
    BY DEF Fit, Framed, Mine
  <2>2. CASE s.map[g] = {}
    BY <1>1, <1>2, <2>2, UsIs
  <2>3. ASSUME NEW p \in L, Us(s.map[g], p) \/ Ks(s.map[g], p)
        PROVE  \A q \in L : (Us(w.map[g], q) => Us(s.map[g], q)) /\ (Ks(w.map[g], q) => Ks(s.map[g], q))
    BY <1>1, <1>2, <2>3, UsIs
  <2> QED BY <2>1, <2>2, <2>3
<1>4. Framed(w, L, sa)
  BY <1>2, <1>3 DEF Fit, Framed, Mine
<1>5. Tabled(w, L, sa) /\ Swapped(w, L, sa)
  BY DEF Fit, Tabled, Swapped
<1> QED BY <1>1, <1>3, <1>4, <1>5, SameContent DEF Fit, NoStack

-----------------------------------------------------------------------------
(***************************************************************************)
(* Eviction of a page.                                                     *)
(***************************************************************************)

\* w is s after eviction: every page holds what it held and stays mapped,
\* what is out stays out, in the same entry
Evicted(s, w, L, sa) ==
  /\ Same(s, w, L, sa) /\ NoStack(s, w, L)
  /\ \A q \in L, v \in Pages : (w.pte[sa[q]][v] = Unmapped) <=> (s.pte[sa[q]][v] = Unmapped)
  /\ \A q \in L, v \in Pages : Away(s.pte[sa[q]][v]) => Away(w.pte[sa[q]][v])
  /\ \A i \in Entries : s.swap[i] # None => w.swap[i] = s.swap[i]

\* page v of q goes from frame f to the free entry i
LEMMA EvictFit ==
  ASSUME Apart, NEW s, NEW L, NEW sa, Fit(s, L, sa), NEW w \in Snap,
         NEW q \in L, NEW v \in Pages, NEW f \in Frames, NEW i \in Entries,
         At(s.pte[sa[q]][v], f), s.swap[i] = None,
         ~ w.panic, w.data = s.data, w.pgt = s.pgt,
         w.map[f] = {}, \A g \in Frames : g # f => w.map[g] = s.map[g] /\ w.va[g] = s.va[g],
         Has(w.swap[i], q, v), w.swap[i].data = s.data[f],
         \A j \in Entries : j # i => w.swap[j] = s.swap[j],
         Away(w.pte[sa[q]][v]),
         \A t \in Tables, u \in Pages : t # sa[q] \/ u # v => w.pte[t][u] = s.pte[t][u]
  PROVE  Fit(w, L, sa) /\ Evicted(s, w, L, sa)
<1>1. L \subseteq Procs /\ Tabled(s, L, sa) /\ Framed(s, L, sa) /\ Swapped(s, L, sa)
  BY DEF Fit
<1>2. Tabled(w, L, sa)
  BY <1>1 DEF Tabled
<1>3. \A p \in L : sa[p] \in Tables /\ (sa[p] = sa[q] => p = q)
  BY <1>1, TablesDiffer DEF Tabled
<1>4. \A p \in L, u \in Pages : p # q \/ u # v => w.pte[sa[p]][u] = s.pte[sa[p]][u]
  BY <1>3
<1>5. Mine(s, f, q, v)
  BY <1>1 DEF Framed
<1>6. \A p \in L, u \in Pages, g \in Frames : At(w.pte[sa[p]][u], g) => g # f /\ At(s.pte[sa[p]][u], g)
  <2> TAKE p \in L, u \in Pages, g \in Frames
  <2> HAVE At(w.pte[sa[p]][u], g)
  <2>1. ~ (p = q /\ u = v)
    BY EntryIs
  <2>2. At(s.pte[sa[p]][u], g)
    BY <1>4, <2>1
  <2>3. Mine(s, g, p, u)
    BY <1>1, <2>2 DEF Framed
  <2>4. g = f => p = q /\ u = v
    BY <1>1, <1>5, <2>3, UsIs DEF Mine
  <2> QED BY <2>1, <2>2, <2>4
<1>7. Framed(w, L, sa)
  <2>1. \A g \in Frames : g # f => (\A p \in L, u \in Pages : Mine(w, g, p, u) <=> Mine(s, g, p, u))
    BY DEF Mine
  <2>2. \A p \in L, u \in Pages, g \in Frames : g # f /\ At(s.pte[sa[p]][u], g) => At(w.pte[sa[p]][u], g)
    BY <1>4, EntryIs
  <2>3. \A g \in Frames, p \in L : Ks(w.map[g], p) => g # f
    BY <1>1, UsIs
  <2>4. ASSUME NEW g \in Frames
        PROVE  \/ w.map[g] = {} \/ \E p \in L : Ks(w.map[g], p)
               \/ \E p \in L, u \in Pages : Mine(w, g, p, u) /\ At(w.pte[sa[p]][u], g)
    <3>1. CASE g = f
      BY <3>1
    <3>2. CASE g # f
      BY <1>1, <2>1, <2>2, <3>2 DEF Framed
    <3> QED BY <3>1, <3>2
  <2>5. \A p \in L, u \in Pages, g \in Frames : At(w.pte[sa[p]][u], g) => Mine(w, g, p, u)
    BY <1>1, <1>6, <2>1 DEF Framed
  <2>6. \A p \in L, g, h \in Frames : Ks(w.map[g], p) /\ Ks(w.map[h], p) => g = h
    BY <1>1, <2>3 DEF Framed
  <2> QED BY <2>4, <2>5, <2>6 DEF Framed
<1>8. \A p \in L, u \in Pages : Away(w.pte[sa[p]][u]) <=> (p = q /\ u = v) \/ Away(s.pte[sa[p]][u])
  BY <1>4
<1>9. ~ Away(s.pte[sa[q]][v]) /\ s.pte[sa[q]][v] # Unmapped
  BY EntryIs
<1>10. \A x : ~ (\E p : \E u : x = None /\ Has(x, p, u))
  BY DEF Has
<1>11. Swapped(w, L, sa)
  <2>1. ASSUME NEW j \in Entries, w.swap[j] # None
        PROVE  \E p \in L, u \in Pages : Has(w.swap[j], p, u) /\ Away(w.pte[sa[p]][u])
    <3>1. CASE j = i
      BY <3>1
    <3>2. CASE j # i
      BY <1>1, <1>8, <2>1, <3>2 DEF Swapped
    <3> QED BY <3>1, <3>2
  <2>2. ASSUME NEW p \in L, NEW u \in Pages, Away(w.pte[sa[p]][u])
        PROVE  \E j \in Entries : Has(w.swap[j], p, u)
    BY <1>1, <1>8, <1>10, <2>2 DEF Swapped
  <2>3. ASSUME NEW p \in L, NEW u \in Pages, NEW j \in Entries, NEW k \in Entries,
               Has(w.swap[j], p, u), Has(w.swap[k], p, u)
        PROVE  j = k
    <3>1. ASSUME NEW e \in Entries, e # i, Has(w.swap[e], p, u)
          PROVE  ~ (p = q /\ u = v)
      <4>1. s.swap[e] # None /\ Has(s.swap[e], p, u)
        BY <3>1 DEF Has
      <4>2. PICK r \in L, x \in Pages : Has(s.swap[e], r, x) /\ Away(s.pte[sa[r]][x])
        BY <1>1, <4>1 DEF Swapped
      <4>3. r = p /\ x = u
        BY <1>1, <4>1, <4>2, HasIs
      <4> QED BY <1>9, <4>2, <4>3
    <3>2. Has(w.swap[i], p, u) => p = q /\ u = v
      BY <1>1, HasIs
    <3> QED BY <1>1, <2>3, <3>1, <3>2 DEF Swapped
  <2> QED BY <2>1, <2>2, <2>3 DEF Swapped
<1>12. Fit(w, L, sa)
  BY <1>1, <1>2, <1>7, <1>11 DEF Fit
<1>13. ASSUME NEW p \in L, NEW u \in Pages
       PROVE  Content(w, sa, p, u) = Content(s, sa, p, u)
  <2>1. s.pte[sa[p]][u] \in PTE \cup {Unmapped}
    BY <1>3, Parts DEF Fit
  <2>2. CASE p = q /\ u = v
    BY <1>12, <2>2, ContentIs
  <2>3. CASE p # q \/ u # v
    <3>1. w.pte[sa[p]][u] = s.pte[sa[p]][u]
      BY <1>4, <2>3
    <3>2. CASE s.pte[sa[p]][u] = Unmapped
      BY <1>12, <3>1, <3>2, ContentIs
    <3>3. ASSUME NEW g \in Frames, At(s.pte[sa[p]][u], g)
          PROVE  Content(w, sa, p, u) = Content(s, sa, p, u)
      BY <1>12, <3>1, <3>3, ContentIs
    <3>4. CASE Away(s.pte[sa[p]][u])
      <4>1. PICK j \in Entries : Has(s.swap[j], p, u)
        BY <1>1, <3>4 DEF Swapped
      <4>2. j # i /\ Has(w.swap[j], p, u) /\ w.swap[j] = s.swap[j]
        BY <1>10, <4>1
      <4>3. Away(w.pte[sa[p]][u])
        BY <3>1, <3>4
      <4> QED BY <1>12, <3>4, <4>1, <4>2, <4>3, ContentIs
    <3> QED BY <2>1, <3>2, <3>3, <3>4, EntryIs
  <2> QED BY <2>2, <2>3
<1>14. NoStack(s, w, L)
  BY <1>1, UsIs DEF NoStack
<1>15. \A p \in L, u \in Pages : (w.pte[sa[p]][u] = Unmapped) <=> (s.pte[sa[p]][u] = Unmapped)
  BY <1>4, <1>9 DEF Away
<1>16. \A j \in Entries : s.swap[j] # None => w.swap[j] = s.swap[j]
  OBVIOUS
<1> QED BY <1>8, <1>12, <1>13, <1>14, <1>15, <1>16 DEF Evicted, Same

(***************************************************************************)
(* A page comes into a free frame: a new one, or one that was out.         *)
(***************************************************************************)

\* from s to w page v of q has come into frame f, and nothing else changed
Entered(s, w, sa, q, v, f) ==
  /\ w.pgt = s.pgt /\ Mine(w, f, q, v) /\ At(w.pte[sa[q]][v], f)
  /\ \A g \in Frames : g # f => w.map[g] = s.map[g] /\ w.va[g] = s.va[g] /\ w.data[g] = s.data[g]
  /\ \A t \in Tables, u \in Pages : t # sa[q] \/ u # v => w.pte[t][u] = s.pte[t][u]
  /\ \A j \in Entries : ~ Has(s.swap[j], q, v) => w.swap[j] = s.swap[j]
  /\ \A j \in Entries : Has(s.swap[j], q, v) => w.swap[j] = None

LEMMA EnterFit ==
  ASSUME Apart, NEW s, NEW L, NEW sa, Fit(s, L, sa), NEW w \in Snap, ~ w.panic,
         NEW q \in L, NEW v \in Pages, NEW f \in Frames, s.map[f] = {},
         s.pte[sa[q]][v] = Unmapped \/ Away(s.pte[sa[q]][v]), Entered(s, w, sa, q, v, f)
  PROVE  /\ Fit(w, L, sa) /\ NoStack(s, w, L)
         /\ Content(w, sa, q, v) = w.data[f]
         /\ \A p \in L, u \in Pages : p # q \/ u # v =>
              Content(w, sa, p, u) = Content(s, sa, p, u) /\ w.pte[sa[p]][u] = s.pte[sa[p]][u]
<1>1. L \subseteq Procs /\ Tabled(s, L, sa) /\ Framed(s, L, sa) /\ Swapped(s, L, sa)
  BY DEF Fit
<1>2. Tabled(w, L, sa)
  BY <1>1 DEF Tabled, Entered
<1>3. \A p \in L : sa[p] \in Tables /\ (sa[p] = sa[q] => p = q)
  BY <1>1, TablesDiffer DEF Tabled
<1>4. \A p \in L, u \in Pages : p # q \/ u # v => w.pte[sa[p]][u] = s.pte[sa[p]][u]
  BY <1>3 DEF Entered
<1>5. \A g \in Frames : ~ At(s.pte[sa[q]][v], g)
  BY EntryIs
<1>6. \A p \in L, u \in Pages, g \in Frames : At(s.pte[sa[p]][u], g) => g # f /\ At(w.pte[sa[p]][u], g)
  <2> TAKE p \in L, u \in Pages, g \in Frames
  <2> HAVE At(s.pte[sa[p]][u], g)
  <2>1. Mine(s, g, p, u)
    BY <1>1 DEF Framed
  <2>2. g # f
    BY <1>1, <2>1, UsIs DEF Mine
  <2> QED BY <1>4, <1>5, <2>2
<1>7. \A g \in Frames : g # f => (\A p \in L, u \in Pages : Mine(w, g, p, u) <=> Mine(s, g, p, u))
  BY DEF Mine, Entered
<1>8. \A p \in L : ~ Ks(w.map[f], p)
  BY <1>1, UsIs DEF Entered, Mine
<1>9. \A g \in Frames : g # f => w.map[g] = s.map[g] /\ w.data[g] = s.data[g]
  BY DEF Entered
<1>10. \A p \in L, u \in Pages, g \in Frames : At(w.pte[sa[p]][u], g) =>
         \/ p = q /\ u = v /\ g = f
         \/ ~ (p = q /\ u = v) /\ At(s.pte[sa[p]][u], g)
  BY <1>4, EntryIs DEF Entered
<1>11. Framed(w, L, sa)
  <2>1. ASSUME NEW g \in Frames
        PROVE  \/ w.map[g] = {} \/ \E p \in L : Ks(w.map[g], p)
               \/ \E p \in L, u \in Pages : Mine(w, g, p, u) /\ At(w.pte[sa[p]][u], g)
    <3>1. CASE g = f
      BY <3>1 DEF Entered
    <3>2. CASE g # f
      BY <1>1, <1>6, <1>7, <1>9, <3>2 DEF Framed
    <3> QED BY <3>1, <3>2
  <2>2. \A p \in L, u \in Pages, g \in Frames : At(w.pte[sa[p]][u], g) => Mine(w, g, p, u)
    BY <1>1, <1>6, <1>7, <1>10 DEF Framed, Entered
  <2>3. \A p \in L, g, h \in Frames : Ks(w.map[g], p) /\ Ks(w.map[h], p) => g = h
    BY <1>1, <1>8, <1>9 DEF Framed
  <2> QED BY <2>1, <2>2, <2>3 DEF Framed
<1>12. \A j \in Entries, p \in L, u \in Pages :
         Has(w.swap[j], p, u) => Has(s.swap[j], p, u) /\ ~ (p = q /\ u = v)
  <2>1. \A p \in L, u \in Pages : ~ Has(None, p, u)
    BY DEF Has
  <2> QED BY <2>1 DEF Entered
<1>13. \A p \in L, u \in Pages : Away(w.pte[sa[p]][u]) <=> ~ (p = q /\ u = v) /\ Away(s.pte[sa[p]][u])
  BY <1>4, EntryIs DEF Entered
<1>14. \A j \in Entries : w.swap[j] = s.swap[j] \/ (w.swap[j] = None /\ Has(s.swap[j], q, v))
  BY DEF Entered
<1>15. \A j \in Entries, p \in L, u \in Pages :
         Has(s.swap[j], p, u) /\ ~ (p = q /\ u = v) => Has(w.swap[j], p, u)
  BY <1>1, <1>14, HasIs
<1>16. Swapped(w, L, sa)
  <2>1. ASSUME NEW j \in Entries, w.swap[j] # None
        PROVE  \E p \in L, u \in Pages : Has(w.swap[j], p, u) /\ Away(w.pte[sa[p]][u])
    <3>1. w.swap[j] = s.swap[j]
      BY <1>14, <2>1
    <3>2. PICK p \in L, u \in Pages : Has(s.swap[j], p, u) /\ Away(s.pte[sa[p]][u])
      BY <1>1, <2>1, <3>1 DEF Swapped
    <3> QED BY <1>12, <1>13, <3>1, <3>2
  <2>2. ASSUME NEW p \in L, NEW u \in Pages, Away(w.pte[sa[p]][u])
        PROVE  \E j \in Entries : Has(w.swap[j], p, u)
    BY <1>1, <1>13, <1>15, <2>2 DEF Swapped
  <2>3. ASSUME NEW p \in L, NEW u \in Pages, NEW j \in Entries, NEW k \in Entries,
               Has(w.swap[j], p, u), Has(w.swap[k], p, u)
        PROVE  j = k
    BY <1>1, <1>12, <2>3 DEF Swapped
  <2> QED BY <2>1, <2>2, <2>3 DEF Swapped
<1>17. Fit(w, L, sa)
  BY <1>1, <1>2, <1>11, <1>16 DEF Fit
<1>18. ASSUME NEW p \in L, NEW u \in Pages, p # q \/ u # v
       PROVE  Content(w, sa, p, u) = Content(s, sa, p, u)
  <2>1. s.pte[sa[p]][u] \in PTE \cup {Unmapped} /\ w.pte[sa[p]][u] = s.pte[sa[p]][u]
    BY <1>3, <1>4, <1>18, Parts DEF Fit
  <2>2. CASE s.pte[sa[p]][u] = Unmapped
    BY <1>17, <2>1, <2>2, ContentIs
  <2>3. ASSUME NEW g \in Frames, At(s.pte[sa[p]][u], g)
        PROVE  Content(w, sa, p, u) = Content(s, sa, p, u)
    BY <1>6, <1>9, <1>17, <2>1, <2>3, ContentIs
  <2>4. CASE Away(s.pte[sa[p]][u])
    <3>1. PICK j \in Entries : Has(s.swap[j], p, u)
      BY <1>1, <2>4 DEF Swapped
    <3>2. Has(w.swap[j], p, u) /\ w.swap[j] = s.swap[j]
      BY <1>1, <1>14, <1>15, <1>18, <3>1, HasIs
    <3> QED BY <1>17, <2>1, <2>4, <3>1, <3>2, ContentIs
  <2> QED BY <2>1, <2>2, <2>3, <2>4, EntryIs
<1>19. Content(w, sa, q, v) = w.data[f]
  BY <1>17, ContentIs DEF Entered
<1>20. NoStack(s, w, L)
  BY <1>8, <1>9 DEF NoStack
<1> QED BY <1>4, <1>17, <1>18, <1>19, <1>20

-----------------------------------------------------------------------------
(***************************************************************************)
(* The clock and the swap table: there is always a page to evict and an    *)
(* entry to put it in.                                                     *)
(***************************************************************************)
LEMMA CountsAre ==
  /\ MEM_PAGE_NUM \in Nat \ {0} /\ Cardinality(Frames) = MEM_PAGE_NUM /\ IsFiniteSet(Frames)
  /\ Frames \subseteq Nat /\ Entries \subseteq Nat /\ Tables \subseteq Nat
  /\ Cardinality(Entries) = SWAP_INFO_NUM /\ IsFiniteSet(Entries)
  /\ IsFiniteSet(Procs \X Pages) /\ Cardinality(Procs \X Pages) \in Nat
  /\ IsFiniteSet(Procs) /\ Cardinality(Procs) \in Nat
<1>1. MEM_PAGE_NUM \in Nat \ {0} /\ SWAP_INFO_NUM \in Nat \ {0} /\ PGT_PAGE_NUM \in Nat \ {0}
  BY MemoryAssumption
<1>2. Cardinality(Frames) = MEM_PAGE_NUM /\ IsFiniteSet(Frames)
  BY <1>1, FS_Interval DEF Frames
<1>3. Cardinality(Entries) = SWAP_INFO_NUM /\ IsFiniteSet(Entries)
  BY <1>1, FS_Interval DEF Entries
<1>4. IsFiniteSet(Procs) /\ IsFiniteSet(Pages)
  BY MemoryAssumption
<1>5. IsFiniteSet(Procs \X Pages)
  BY <1>4, FS_Product
<1>6. Frames \subseteq Nat /\ Entries \subseteq Nat /\ Tables \subseteq Nat
  BY <1>1 DEF Frames, Entries, Tables
<1> QED BY <1>1, <1>2, <1>3, <1>4, <1>5, <1>6, FS_CardinalityType

\* every process has one kernel stack, so some frame is not one
LEMMA UserFrameExists ==
  ASSUME Apart, Enough, NEW s, NEW L, NEW sa, Fit(s, L, sa)
  PROVE  UserFrames(s) # {}
<1> SUFFICES ASSUME \A f \in Frames : KernelBit \in s.map[f] PROVE FALSE
  BY DEF UserFrames
<1>1. L \subseteq Procs /\ Framed(s, L, sa)
  BY DEF Fit
<1>2. \A f \in Frames : \E q \in L : Ks(s.map[f], q)
  BY <1>1, UsIs DEF Framed, Mine
<1> DEFINE of == [f \in Frames |-> CHOOSE q \in L : Ks(s.map[f], q)]
<1>3. \A f \in Frames : of[f] \in L /\ Ks(s.map[f], of[f])
  BY <1>2
<1>4. of \in [Frames -> Procs]
  BY <1>1, <1>3
<1> HIDE DEF of
<1>5. Cardinality(Procs) < Cardinality(Frames)
  BY CountsAre DEF Enough
<1>6. PICK f, g \in Frames : f # g /\ of[f] = of[g]
  BY <1>4, <1>5, CountsAre, FS_PigeonHole
<1> QED BY <1>1, <1>3, <1>6 DEF Framed

\* an entry is taken for each page that is out: when one is in, one is free
LEMMA EntryExists ==
  ASSUME Apart, Enough, NEW s, NEW L, NEW sa, Fit(s, L, sa),
         NEW q \in L, NEW v \in Pages, ~ Away(s.pte[sa[q]][v])
  PROVE  LET i == Min({j \in Entries : s.swap[j] = None})
         IN  i \in Entries /\ s.swap[i] = None
<1>1. L \subseteq Procs /\ Swapped(s, L, sa)
  BY DEF Fit
<1> DEFINE F == {j \in Entries : s.swap[j] = None}
           T == (Procs \X Pages) \ {<<q, v>>}
<1>2. F # {}
  <2> SUFFICES ASSUME \A j \in Entries : s.swap[j] # None PROVE FALSE
    OBVIOUS
  <2>1. \A j \in Entries : \E x \in T : x[1] \in L /\ x[2] \in Pages /\ Has(s.swap[j], x[1], x[2])
    <3> TAKE j \in Entries
    <3>1. PICK p \in L, u \in Pages : Has(s.swap[j], p, u) /\ Away(s.pte[sa[p]][u])
      BY <1>1 DEF Swapped
    <3>2. <<p, u>> \in T
      BY <1>1, <3>1
    <3> QED BY <3>1, <3>2
  <2> DEFINE of == [j \in Entries |-> CHOOSE x \in T : x[1] \in L /\ x[2] \in Pages /\ Has(s.swap[j], x[1], x[2])]
  <2>2. \A j \in Entries : of[j] \in T /\ of[j][1] \in L /\ of[j][2] \in Pages /\ Has(s.swap[j], of[j][1], of[j][2])
    BY <2>1
  <2>3. of \in [Entries -> T]
    BY <2>2
  <2>4. <<q, v>> \in Procs \X Pages
    BY <1>1
  <2>5. IsFiniteSet(T) /\ Cardinality(T) = Cardinality(Procs \X Pages) - 1
    BY <2>4, CountsAre, FS_RemoveElement
  <2>6. Cardinality(T) < Cardinality(Entries)
    BY <2>5, CountsAre, MemoryAssumption DEF Enough
  <2> HIDE DEF of, T
  <2>7. PICK j, k \in Entries : j # k /\ of[j] = of[k]
    BY <2>3, <2>5, <2>6, CountsAre, FS_PigeonHole
  <2> QED BY <1>1, <2>2, <2>7 DEF Swapped
<1>3. F \in SUBSET Nat
  BY CountsAre
<1> HIDE DEF F
<1>4. Min(F) \in F
  BY <1>2, <1>3, MinIs
<1> QED BY <1>4 DEF F

LEMMA NearestIs ==
  ASSUME NEW s \in Snap, NEW F \in SUBSET Frames, F # {}
  PROVE  Nearest(s, F) \in F
<1> DEFINE D == {Ahead(s, f) : f \in F}
<1>1. \A f \in F : Ahead(s, f) \in Nat
  <2>1. \A x \in Int : \A n \in Nat \ {0} : x % n \in Nat
    OBVIOUS
  <2>2. \A f \in F : f - s.clock \in Int
    BY Parts, CountsAre
  <2> QED BY <2>1, <2>2, CountsAre DEF Ahead
<1>2. D \in SUBSET Nat /\ D # {}
  BY <1>1
<1> HIDE DEF D
<1>3. PICK m \in D : \A k \in D : m <= k
  BY <1>2, LeastExists
<1>4. \E f \in F : \A g \in F : Ahead(s, f) <= Ahead(s, g)
  BY <1>3 DEF D
<1> QED BY <1>4 DEF Nearest

LEMMA VictimIs ==
  ASSUME Apart, Enough, NEW s, NEW L, NEW sa, Fit(s, L, sa)
  PROVE  Victim(s) \in UserFrames(s) /\ Victim(s) \in Frames
<1>1. s \in Snap
  BY DEF Fit
<1> DEFINE cold == {f \in UserFrames(s) : AccessedBit \notin s.map[f]}
           F == IF cold # {} THEN cold ELSE UserFrames(s)
<1>2. F \subseteq UserFrames(s) /\ F # {} /\ UserFrames(s) \subseteq Frames
  BY UserFrameExists DEF UserFrames
<1>3. Victim(s) = Nearest(s, F)
  BY DEF Victim
<1> HIDE DEF F
<1>4. Nearest(s, F) \in F
  BY <1>1, <1>2, NearestIs
<1> QED BY <1>2, <1>3, <1>4

\* the frame that the hand stops at has lost its mark
LEMMA ClockFit ==
  ASSUME Apart, Enough, NEW s, NEW L, NEW sa, Fit(s, L, sa)
  PROVE  LET w == choose_swap(s)
         IN  /\ Fit(w, L, sa) /\ Same(s, w, L, sa) /\ NoStack(s, w, L)
             /\ w.pte = s.pte /\ w.swap = s.swap
             /\ Victim(s) \in Frames
             /\ s.map[Victim(s)] # {} => \E q \in L, v \in Pages :
                  At(s.pte[sa[q]][v], Victim(s)) /\ w.map[Victim(s)] = Asid[q] /\ w.va[Victim(s)] = v
<1> DEFINE f == Victim(s)
           w == choose_swap(s)
<1>1. s \in Snap /\ L \subseteq Procs /\ Framed(s, L, sa) /\ ~ s.panic
  BY DEF Fit
<1>2. f \in UserFrames(s) /\ f \in Frames
  BY VictimIs
<1> HIDE DEF f
<1>3. /\ w.va = s.va /\ w.data = s.data /\ w.pgt = s.pgt /\ w.pte = s.pte /\ w.swap = s.swap
      /\ w.panic = s.panic /\ w.clock = (f + 1) % MEM_PAGE_NUM
      /\ \A g \in Frames : w.map[g] = s.map[g] \/ w.map[g] = s.map[g] \ {AccessedBit}
      /\ w.map[f] = s.map[f] \ {AccessedBit}
      /\ w.map \in [Frames -> Flags]
  BY <1>1, <1>2 DEF choose_swap, Snap, Flags, f
<1>4. w \in Snap
  <2>1. w.clock \in Int
    BY <1>2, <1>3, CountsAre
  <2> DEFINE m == w.map
             c == w.clock
  <2>2. w = [s EXCEPT !.map = m, !.clock = c]
    <3>1. \A x, y : LET u == [s EXCEPT !.map = x, !.clock = y] IN u = [s EXCEPT !.map = u.map, !.clock = u.clock]
      BY <1>1 DEF Snap
    <3> QED BY <3>1 DEF choose_swap
  <2> HIDE DEF w
  <2>3. m \in [Frames -> Flags] /\ c \in Int
    BY <1>3, <2>1
  <2> HIDE DEF m, c
  <2> QED BY <1>1, <2>2, <2>3 DEF Snap
<1> HIDE DEF w
<1>5. Fit(w, L, sa) /\ Same(s, w, L, sa) /\ NoStack(s, w, L)
  <2>1. \A g \in Frames : w.map[g] \in {s.map[g], s.map[g] \ {AccessedBit}}
    BY <1>3
  <2> QED BY <1>1, <1>3, <1>4, <2>1, RetagFit
<1>6. ASSUME s.map[f] # {}
      PROVE  \E q \in L, v \in Pages :
               At(s.pte[sa[q]][v], f) /\ w.map[f] = Asid[q] /\ w.va[f] = v
  <2>1. PICK q \in L, v \in Pages : Mine(s, f, q, v) /\ At(s.pte[sa[q]][v], f)
    BY <1>1, <1>2, <1>6, UsIs DEF Framed, UserFrames
  <2>2. w.map[f] = Asid[q]
    BY <1>1, <1>3, <2>1, UsIs DEF Mine
  <2> QED BY <1>3, <2>1, <2>2 DEF Mine
<1> QED BY <1>2, <1>3, <1>5, <1>6 DEF f, w

(***************************************************************************)
(* allocPage: a free frame, or one that is made free by an eviction.       *)
(***************************************************************************)
LEMMA EvictedIs ==
  ASSUME NEW s, NEW w, NEW x, NEW L, NEW sa,
         Same(s, w, L, sa), NoStack(s, w, L), w.pte = s.pte, w.swap = s.swap
  PROVE  /\ Evicted(s, w, L, sa)
         /\ Evicted(w, x, L, sa) => Evicted(s, x, L, sa)
BY DEF Evicted, Same, NoStack

LEMMA OwnerIs ==
  ASSUME Apart, NEW st, NEW q \in Procs, st[q] # "EXITED"
  PROVE  Owner(st, Asid[q]) = {q} /\ (CHOOSE p \in Owner(st, Asid[q]) : TRUE) = q
<1>1. Owner(st, Asid[q]) = {q}
  BY DEF Owner, Apart
<1> QED BY <1>1

\* the frame f of page v of a live process is written to a swap entry
LEMMA SwapOutFit ==
  ASSUME Apart, Enough, NEW s, NEW L, NEW sa, Fit(s, L, sa), NEW st, NEW q \in L, NEW v \in Pages,
         NEW f \in Frames, At(s.pte[sa[q]][v], f), s.map[f] = Asid[q], s.va[f] = v, st[q] # "EXITED"
  PROVE  LET w == swap_out(s, f, st, sa)
         IN  Fit(w, L, sa) /\ Evicted(s, w, L, sa) /\ w.map[f] = {}
<1> DEFINE w == swap_out(s, f, st, sa)
           i == Min({j \in Entries : s.swap[j] = None})
           t == sa[q]
<1>1. s \in Snap /\ L \subseteq Procs /\ ~ s.panic /\ t \in Tables /\ q \in Procs
  BY DEF Fit, Tabled
<1>2. i \in Entries /\ s.swap[i] = None
  <2>1. ~ Away(s.pte[t][v])
    BY EntryIs
  <2> QED BY <2>1, EntryExists
<1>3. s.pte[t][v] # Unmapped /\ s.pte[t][v].frame = f
  BY <1>1, EntryIs
<1> DEFINE x == [va |-> v, asid |-> Asid[q], data |-> s.data[f]]
           e == [frame |-> f, present |-> FALSE]
<1>4. x \in SwapInfo /\ x # None /\ Has(x, q, v) /\ x.data = s.data[f]
  BY <1>1, Parts, MemoryAssumption DEF SwapInfo, Has
<1>5. e \in PTE /\ Away(e)
  <2>1. e \in PTE /\ ~ e.present
    BY DEF PTE
  <2> QED BY <2>1, MemoryAssumption DEF Away
<1>6. w = [s EXCEPT !.swap[i] = x, !.map[f] = {}, !.va[f] = None, !.pte[t][v] = e]
  <2>1. Owner(st, Asid[q]) = {q} /\ sa[CHOOSE p \in Owner(st, Asid[q]) : TRUE] = t
    BY <1>1, OwnerIs
  <2>2. w = [s EXCEPT !.swap[i] = x, !.map[f] = {}, !.va[f] = None,
                      !.pte[t][v] = IF @ = Unmapped THEN @ ELSE [frame |-> @.frame, present |-> FALSE]]
    BY <2>1 DEF swap_out
  <2> HIDE DEF x, i, w, t
  <2> QED BY <1>1, <1>3, <2>2 DEF Snap
<1> HIDE DEF x, e, i, w
<1>7. /\ w.map = [s.map EXCEPT ![f] = {}] /\ w.va = [s.va EXCEPT ![f] = None]
      /\ w.swap = [s.swap EXCEPT ![i] = x]
      /\ w.pte = [s.pte EXCEPT ![t] = [@ EXCEPT ![v] = e]]
      /\ w.data = s.data /\ w.pgt = s.pgt /\ w.clock = s.clock /\ w.panic = s.panic
  BY <1>1, <1>6 DEF Snap
<1>8. w \in Snap
  BY <1>1, <1>2, <1>4, <1>5, <1>6 DEF Snap, Flags
<1>9. /\ w.map[f] = {} /\ \A g \in Frames : g # f => w.map[g] = s.map[g] /\ w.va[g] = s.va[g]
      /\ w.swap[i] = x /\ \A j \in Entries : j # i => w.swap[j] = s.swap[j]
      /\ w.pte[t][v] = e
      /\ \A d \in Tables, g \in Pages : d # t \/ g # v => w.pte[d][g] = s.pte[d][g]
  BY <1>1, <1>2, <1>7, Parts
<1>10. Fit(w, L, sa) /\ Evicted(s, w, L, sa)
  <2>1. /\ Has(w.swap[i], q, v) /\ w.swap[i].data = s.data[f] /\ Away(w.pte[t][v])
        /\ ~ w.panic /\ w.data = s.data /\ w.pgt = s.pgt
    BY <1>1, <1>4, <1>5, <1>7, <1>9
  <2> QED BY <1>2, <1>8, <1>9, <2>1, EvictFit
<1> QED BY <1>9, <1>10 DEF w

\* w is s with room in the frame that allocPage has chosen
Room(s, w, L, sa) == Fit(w, L, sa) /\ Evicted(s, w, L, sa) /\ w.map[Allocated(s)] = {}

\* What allocPage does with the frame f that it has chosen: w is the state once f is free
MadeRoom(s, w, L, sa, st, f) ==
  /\ \/ Room(s, w, L, sa) /\ ~ w.panic
     \/ w.panic /\ \E q \in L : st[q] = "EXITED"
  /\ \A a : allocPage(s, a, st, sa) =
       IF w.panic THEN w ELSE [w EXCEPT !.map[f] = a, !.data[f] = Zero]

\* allocPage does not find the owner only of a page of an exited process
LEMMA RoomIs ==
  ASSUME Apart, Enough, NEW s, NEW L, NEW sa, Fit(s, L, sa), NEW st
  PROVE  Allocated(s) \in Frames /\ \E w : MadeRoom(s, w, L, sa, st, Allocated(s))
<1>1. CASE FreeFrames(s) # {}
  <2>1. Allocated(s) = Min(FreeFrames(s))
    BY <1>1 DEF Allocated
  <2>2. FreeFrames(s) \in SUBSET Nat
    BY CountsAre DEF FreeFrames
  <2>3. Allocated(s) \in FreeFrames(s)
    BY <1>1, <2>1, <2>2, MinIs
  <2>4. Allocated(s) \in Frames /\ s.map[Allocated(s)] = {}
    BY <2>3 DEF FreeFrames
  <2>5. Evicted(s, s, L, sa) /\ ~ s.panic
    BY DEF Evicted, Same, NoStack, Fit
  <2>6. Room(s, s, L, sa)
    BY <2>4, <2>5 DEF Room
  <2>7. \A a : allocPage(s, a, st, sa) =
          IF s.panic THEN s ELSE [s EXCEPT !.map[Allocated(s)] = a, !.data[Allocated(s)] = Zero]
    BY <1>1 DEF allocPage
  <2>8. MadeRoom(s, s, L, sa, st, Allocated(s))
    BY <2>5, <2>6, <2>7 DEF MadeRoom
  <2> QED BY <2>4, <2>8
<1>2. CASE FreeFrames(s) = {}
  <2> DEFINE u == choose_swap(s)
             f == Victim(s)
             w == swap_out(u, f, st, sa)
  <2>1. Allocated(s) = f
    BY <1>2 DEF Allocated
  <2>2. \A a : allocPage(s, a, st, sa) =
          IF w.panic THEN w ELSE [w EXCEPT !.map[f] = a, !.data[f] = Zero]
    BY <1>2, <2>1 DEF allocPage
  <2>3. /\ Fit(u, L, sa) /\ Same(s, u, L, sa) /\ NoStack(s, u, L) /\ u.pte = s.pte /\ u.swap = s.swap
        /\ f \in Frames
        /\ s.map[f] # {} => \E q \in L, v \in Pages :
             At(s.pte[sa[q]][v], f) /\ u.map[f] = Asid[q] /\ u.va[f] = v
    BY ClockFit
  <2>4. s.map[f] # {}
    BY <1>2, <2>3 DEF FreeFrames
  <2>5. PICK q \in L, v \in Pages : At(u.pte[sa[q]][v], f) /\ u.map[f] = Asid[q] /\ u.va[f] = v
    BY <2>3, <2>4
  <2>6. q \in Procs /\ u \in Snap
    BY <2>3 DEF Fit
  <2>7. CASE st[q] = "EXITED"
    <3>1. Owner(st, u.map[f]) = {}
      BY <2>5, <2>6, <2>7 DEF Owner, Apart
    <3>2. w = [u EXCEPT !.panic = TRUE]
      BY <3>1 DEF swap_out
    <3> HIDE DEF u
    <3>3. w.panic
      BY <2>6, <3>2 DEF Snap
    <3>4. MadeRoom(s, w, L, sa, st, f)
      BY <2>2, <2>5, <2>7, <3>3 DEF MadeRoom
    <3> QED BY <2>1, <2>3, <3>4
  <2>8. CASE st[q] # "EXITED"
    <3> HIDE DEF u, f
    <3>1. Fit(w, L, sa) /\ Evicted(u, w, L, sa) /\ w.map[f] = {}
      BY <2>3, <2>5, <2>8, SwapOutFit
    <3> HIDE DEF w
    <3>2. Evicted(s, w, L, sa)
      BY <2>3, <3>1, EvictedIs
    <3>3. ~ w.panic
      BY <3>1 DEF Fit
    <3>4. Room(s, w, L, sa)
      BY <2>1, <3>1, <3>2 DEF Room
    <3>5. MadeRoom(s, w, L, sa, st, f)
      BY <2>2, <3>3, <3>4 DEF MadeRoom
    <3> QED BY <2>1, <2>3, <3>5
  <2> QED BY <2>7, <2>8
<1> QED BY <1>1, <1>2

-----------------------------------------------------------------------------
(***************************************************************************)
(* Page v of p comes to hold d, and the other pages hold what they held.   *)
(***************************************************************************)
Becomes(s, w, L, sa, p, v, d) ==
  /\ Fit(w, L, sa) /\ NoStack(s, w, L)
  /\ Content(w, sa, p, v) = d /\ w.pte[sa[p]][v] # Unmapped
  /\ \A q \in L, u \in Pages : q # p \/ u # v =>
       /\ Content(w, sa, q, u) = Content(s, sa, q, u)
       /\ (w.pte[sa[q]][u] = Unmapped) <=> (s.pte[sa[q]][u] = Unmapped)

LEMMA BecomesIs ==
  ASSUME Apart, NEW s, NEW x, NEW L, NEW sa, Fit(x, L, sa), Evicted(s, x, L, sa),
         NEW w \in Snap, ~ w.panic, NEW p \in L, NEW v \in Pages, NEW f \in Frames, x.map[f] = {},
         x.pte[sa[p]][v] = Unmapped \/ Away(x.pte[sa[p]][v]), Entered(x, w, sa, p, v, f)
  PROVE  Becomes(s, w, L, sa, p, v, w.data[f])
<1>1. /\ Fit(w, L, sa) /\ NoStack(x, w, L) /\ Content(w, sa, p, v) = w.data[f]
      /\ \A q \in L, u \in Pages : q # p \/ u # v =>
           Content(w, sa, q, u) = Content(x, sa, q, u) /\ w.pte[sa[q]][u] = x.pte[sa[q]][u]
  BY EnterFit
<1>2. w.pte[sa[p]][v] # Unmapped
  BY EntryIs DEF Entered
<1>3. NoStack(s, w, L)
  BY <1>1 DEF NoStack, Evicted
<1> QED BY <1>1, <1>2, <1>3 DEF Becomes, Evicted, Same

\* alloc_page_helper, for a page that is not mapped; the page may be filled
LEMMA AllocFit ==
  ASSUME Apart, Enough, NEW s, NEW L, NEW sa, Fit(s, L, sa), NEW st, NEW p \in L, NEW v \in Pages,
         s.pte[sa[p]][v] = Unmapped
  PROVE  LET w == alloc_page_helper(s, v, sa[p], Asid[p], st, sa)
         IN  \/ w.panic /\ \E q \in L : st[q] = "EXITED"
             \/ /\ ~ w.panic /\ Becomes(s, w, L, sa, p, v, Zero)
                /\ \A d \in Data : Becomes(s, [w EXCEPT !.data[Allocated(s)] = d], L, sa, p, v, d)
<1> DEFINE f == Allocated(s)
           t == sa[p]
           w == alloc_page_helper(s, v, t, Asid[p], st, sa)
           e == [frame |-> f, present |-> TRUE]
<1>0. f \in Frames
  BY RoomIs
<1>1. PICK x : MadeRoom(s, x, L, sa, st, f)
  BY RoomIs
<1>2. CASE x.panic
  <2>1. w = x
    BY <1>1, <1>2 DEF alloc_page_helper, MadeRoom
  <2>2. \E q \in L : st[q] = "EXITED"
    BY <1>1, <1>2 DEF MadeRoom
  <2> QED BY <1>2, <2>1, <2>2
<1>3. CASE ~ x.panic
  <2>1. f \in Frames /\ p \in Procs /\ t \in Tables
    BY <1>0 DEF Fit, Tabled
  <2>2. /\ Fit(x, L, sa) /\ Evicted(s, x, L, sa) /\ x.map[f] = {} /\ x \in Snap
        /\ x.pte[t][v] = Unmapped
    BY <1>1, <1>3 DEF MadeRoom, Room, Evicted, Fit
  <2>3. e \in PTE /\ At(e, f)
    BY <2>1 DEF PTE, At
  <2>4. Asid[p] \in Flags /\ Us(Asid[p], p)
    BY <2>1, FlagsAre DEF Us
  <2> DEFINE a == Asid[p]
             y(d) == [x EXCEPT !.map[f] = a, !.data[f] = d, !.pte[t][v] = e, !.va[f] = v]
  <2>5. Zero \in Data
    BY DEF Data
  <2> HIDE DEF f, t, e, a
  <2>6. w = y(Zero) /\ \A d \in Data : [w EXCEPT !.data[f] = d] = y(d)
    <3>1. LET u == [x EXCEPT !.map[f] = a, !.data[f] = Zero]
          IN  w = IF u.panic THEN u ELSE [u EXCEPT !.pte[t][v] = e, !.va[f] = v]
      BY <1>1, <1>3 DEF alloc_page_helper, MadeRoom, f, t, e, a
    <3> HIDE DEF w
    <3>2. w = y(Zero)
      BY <1>3, <2>2, <3>1 DEF Snap
    <3>3. \A d \in Data : [y(Zero) EXCEPT !.data[f] = d] = y(d)
      <4> TAKE d \in Data
      <4>1. [[x.data EXCEPT ![f] = Zero] EXCEPT ![f] = d] = [x.data EXCEPT ![f] = d]
        BY <2>2, Parts
      <4> DEFINE D == [x.data EXCEPT ![f] = Zero]
                 E == [x.data EXCEPT ![f] = d]
      <4>2. /\ y(Zero) = [x EXCEPT !.map[f] = a, !.data = D, !.pte[t][v] = e, !.va[f] = v]
            /\ y(d) = [x EXCEPT !.map[f] = a, !.data = E, !.pte[t][v] = e, !.va[f] = v]
        BY <2>2 DEF Snap
      <4>3. E = [D EXCEPT ![f] = d]
        BY <4>1
      <4> HIDE DEF D, E, y
      <4> QED BY <2>2, <4>2, <4>3 DEF Snap
    <3> HIDE DEF y
    <3> QED BY <3>2, <3>3
  <2>7. ASSUME NEW d \in Data
        PROVE  Becomes(s, y(d), L, sa, p, v, d) /\ ~ y(d).panic
    <3> DEFINE z == y(d)
    <3>1. /\ z.map = [x.map EXCEPT ![f] = a] /\ z.data = [x.data EXCEPT ![f] = d]
          /\ z.pte = [x.pte EXCEPT ![t] = [@ EXCEPT ![v] = e]] /\ z.va = [x.va EXCEPT ![f] = v]
          /\ z.pgt = x.pgt /\ z.swap = x.swap /\ z.panic = x.panic
      BY <2>2 DEF Snap
    <3>2. z \in Snap
      BY <2>1, <2>2, <2>3, <2>4 DEF Snap, a
    <3> HIDE DEF z
    <3>3. /\ z.map[f] = a /\ z.va[f] = v /\ z.data[f] = d /\ z.pte[t][v] = e
          /\ \A g \in Frames : g # f => z.map[g] = x.map[g] /\ z.va[g] = x.va[g] /\ z.data[g] = x.data[g]
          /\ \A c \in Tables, u \in Pages : c # t \/ u # v => z.pte[c][u] = x.pte[c][u]
      BY <2>1, <2>2, <3>1, Parts
    <3>4. \A j \in Entries : ~ Has(x.swap[j], p, v)
      <4> TAKE j \in Entries
      <4> SUFFICES ASSUME Has(x.swap[j], p, v) PROVE FALSE
        OBVIOUS
      <4>1. PICK q \in L, u \in Pages : Has(x.swap[j], q, u) /\ Away(x.pte[sa[q]][u])
        BY <2>2 DEF Fit, Swapped, Has
      <4>2. q = p /\ u = v
        BY <2>1, <2>2, <4>1, HasIs DEF Fit
      <4> QED BY <2>2, <4>1, <4>2 DEF Away, t
    <3>5. Entered(x, z, sa, p, v, f)
      BY <2>3, <2>4, <3>1, <3>3, <3>4 DEF Entered, Mine, a, t
    <3>6. Becomes(s, z, L, sa, p, v, z.data[f])
      BY <1>3, <2>1, <2>2, <3>1, <3>2, <3>5, BecomesIs DEF t
    <3>7. Becomes(s, z, L, sa, p, v, d) /\ ~ z.panic
      BY <1>3, <3>1, <3>3, <3>6
    <3> QED BY <3>7 DEF z
  <2> HIDE DEF w, y
  <2>8. ~ w.panic /\ Becomes(s, w, L, sa, p, v, Zero)
    BY <2>5, <2>6, <2>7
  <2>9. \A d \in Data : Becomes(s, [w EXCEPT !.data[f] = d], L, sa, p, v, d)
    BY <2>6, <2>7
  <2> QED BY <2>8, <2>9 DEF w, t, f
<1> QED BY <1>2, <1>3

-----------------------------------------------------------------------------
(***************************************************************************)
(* The page fault handlers: every page holds what it held.                 *)
(***************************************************************************)

\* the page comes back from its swap entry into the frame that allocPage got
LEMMA RestoreFit ==
  ASSUME Apart, Enough, NEW s, Fit(s, Live, satp), NEW p \in Live, NEW v \in Pages,
         NEW i \in Entries, Has(s.swap[i], p, v)
  PROVE  LET w == Restored(s, p, v, {i})
         IN  Fit(w, Live, satp) /\ Same(s, w, Live, satp)
<1> DEFINE f == Allocated(s)
           t == satp[p]
           w == Restored(s, p, v, {i})
           e == [frame |-> f, present |-> TRUE]
           a == Asid[p]
           b == Asid[p] \cup {AccessedBit}
           d == s.swap[i].data
<1>0. f \in Frames
  BY RoomIs
<1>1. \A q \in Live : status[q] # "EXITED"
  BY DEF Live
<1>2. PICK x : /\ Room(s, x, Live, satp) /\ ~ x.panic
               /\ \A c : allocPage(s, c, status, satp) =
                    IF x.panic THEN x ELSE [x EXCEPT !.map[f] = c, !.data[f] = Zero]
  <2>1. PICK x : MadeRoom(s, x, Live, satp, status, f)
    BY RoomIs
  <2> QED BY <1>1, <2>1 DEF MadeRoom
<1>3. Live \subseteq Procs /\ p \in Procs /\ t \in Tables /\ s \in Snap
  BY DEF Fit, Tabled
<1>4. s.pte[t][v] # Unmapped /\ Away(s.pte[t][v])
  <2>1. PICK q \in Live, u \in Pages : Has(s.swap[i], q, u) /\ Away(s.pte[satp[q]][u])
    BY DEF Fit, Swapped, Has
  <2>2. q = p /\ u = v
    BY <1>3, <2>1, HasIs
  <2> QED BY <2>1, <2>2 DEF Away
<1>5. /\ Fit(x, Live, satp) /\ Evicted(s, x, Live, satp) /\ x.map[f] = {} /\ x \in Snap
      /\ Away(x.pte[t][v]) /\ x.swap[i] = s.swap[i]
  BY <1>2, <1>4 DEF Room, Evicted, Fit, Has
<1>6. e \in PTE /\ At(e, f)
  BY <1>0 DEF PTE, At
<1>7. a \in Flags /\ b \in Flags /\ Us(b, p) /\ d \in Data
      /\ s.swap[i].asid = a /\ s.swap[i].va = v
  <2>1. a \in Flags /\ b \in Flags /\ Us(b, p)
    BY <1>3, FlagsAre DEF Us
  <2>2. s.swap[i] \in SwapInfo /\ s.swap[i].asid = a /\ s.swap[i].va = v
    BY <1>3, Parts DEF Has
  <2> QED BY <2>1, <2>2 DEF SwapInfo
<1> DEFINE z == [x EXCEPT !.map = [x.map EXCEPT ![f] = b], !.data = [x.data EXCEPT ![f] = d],
                          !.pte = [x.pte EXCEPT ![t] = [@ EXCEPT ![v] = e]],
                          !.va = [x.va EXCEPT ![f] = v], !.swap = [x.swap EXCEPT ![i] = None]]
<1>8. w = z
  <2> DEFINE y == [x EXCEPT !.map[f] = a, !.data[f] = Zero]
  <2>1. allocPage(s, a, status, satp) = y
    BY <1>2
  <2>2. Min({i}) = i
    <3>1. {i} \in SUBSET Nat /\ {i} # {}
      BY CountsAre
    <3> QED BY <3>1, MinIs
  <2>3. ~ y.panic /\ y.swap = x.swap /\ y \in Snap
        /\ y.map = [x.map EXCEPT ![f] = a] /\ y.data = [x.data EXCEPT ![f] = Zero]
        /\ y.pte = x.pte /\ y.va = x.va
    <3>1. Zero \in Data
      BY DEF Data
    <3> HIDE DEF f, a
    <3>2. y \in Snap
      BY <1>0, <1>5, <1>7, <3>1 DEF Snap
    <3> QED BY <1>2, <1>5, <3>2 DEF Snap
  <2>4. w = [swap_in(y, f, i) EXCEPT !.pte[t][v] = e, !.map[f] = @ \cup {AccessedBit}]
    <3>1. ~ allocPage(s, a, status, satp).panic
      BY <2>1, <2>3
    <3> HIDE DEF y
    <3> QED BY <2>1, <2>2, <3>1 DEF Restored
  <2> HIDE DEF y, f, t, e, w
  <2>5. swap_in(y, f, i) = [y EXCEPT !.map[f] = a, !.va[f] = v, !.data[f] = d, !.swap[i] = None]
    BY <1>5, <1>7, <2>3 DEF swap_in
  <2>6. b = a \cup {AccessedBit}
    OBVIOUS
  <2> HIDE DEF a, b, d
  <2>7. w = [y EXCEPT !.map = [y.map EXCEPT ![f] = b], !.data = [y.data EXCEPT ![f] = d],
                      !.pte = [y.pte EXCEPT ![t] = [@ EXCEPT ![v] = e]],
                      !.va = [y.va EXCEPT ![f] = v], !.swap = [y.swap EXCEPT ![i] = None]]
    <3>1. [[y.map EXCEPT ![f] = a] EXCEPT ![f] = @ \cup {AccessedBit}] = [y.map EXCEPT ![f] = b]
      BY <1>0, <2>3, <2>6, Parts
    <3> QED BY <1>0, <2>3, <2>4, <2>5, <2>6, <3>1 DEF Snap
  <2>8. /\ [y.map EXCEPT ![f] = b] = [x.map EXCEPT ![f] = b]
        /\ [y.data EXCEPT ![f] = d] = [x.data EXCEPT ![f] = d]
    BY <1>5, <2>3, Parts
  <2> QED BY <1>5, <2>3, <2>7, <2>8 DEF y, Snap
<1> HIDE DEF w, f, t, e, a, b, d
<1>9. /\ z.map = [x.map EXCEPT ![f] = b] /\ z.data = [x.data EXCEPT ![f] = d]
      /\ z.pte = [x.pte EXCEPT ![t] = [@ EXCEPT ![v] = e]] /\ z.va = [x.va EXCEPT ![f] = v]
      /\ z.swap = [x.swap EXCEPT ![i] = None]
      /\ z.pgt = x.pgt /\ z.panic = x.panic
  BY <1>5 DEF Snap
<1>10. z \in Snap
  BY <1>0, <1>3, <1>5, <1>6, <1>7 DEF Snap
<1> HIDE DEF z
<1>11. /\ z.map[f] = b /\ z.va[f] = v /\ z.data[f] = d /\ z.pte[t][v] = e /\ z.swap[i] = None
       /\ \A g \in Frames : g # f => z.map[g] = x.map[g] /\ z.va[g] = x.va[g] /\ z.data[g] = x.data[g]
       /\ \A c \in Tables, u \in Pages : c # t \/ u # v => z.pte[c][u] = x.pte[c][u]
       /\ \A j \in Entries : j # i => z.swap[j] = x.swap[j]
  BY <1>0, <1>3, <1>5, <1>9, Parts
<1>12. \A j \in Entries : Has(x.swap[j], p, v) <=> j = i
  BY <1>5 DEF Fit, Swapped
<1>13. Entered(x, z, satp, p, v, f)
  BY <1>6, <1>7, <1>9, <1>11, <1>12 DEF Entered, Mine, t
<1>14. Becomes(s, z, Live, satp, p, v, z.data[f])
  BY <1>0, <1>2, <1>5, <1>9, <1>10, <1>13, BecomesIs DEF t
<1>15. Content(s, satp, p, v) = d
  BY <1>4, ContentIs DEF t, d
<1> QED BY <1>8, <1>11, <1>14, <1>15 DEF Becomes, Same, w

LEMMA FaultFit ==
  ASSUME Apart, Enough, NEW s, Fit(s, Live, satp), NEW p \in Live, NEW v \in Pages
  PROVE  LET w == PageFault(s, p, v)
         IN  Fit(w, Live, satp) /\ Same(s, w, Live, satp)
<1> DEFINE t == satp[p]
           found == page_in_swap(s, v, Asid[p])
           w == PageFault(s, p, v)
           e == s.pte[t][v]
<1>1. Live \subseteq Procs /\ p \in Procs /\ t \in Tables /\ s \in Snap /\ ~ s.panic
  BY DEF Fit, Tabled
<1>2. found = {i \in Entries : Has(s.swap[i], p, v)}
  BY FoundIs
<1>3. CASE e = Unmapped
  <2>1. w = alloc_page_helper(s, v, t, Asid[p], status, satp)
    BY <1>3 DEF PageFault
  <2>2. \A q \in Live : status[q] # "EXITED"
    BY DEF Live
  <2>3. Becomes(s, w, Live, satp, p, v, Zero)
    BY <1>3, <2>1, <2>2, AllocFit
  <2>4. Content(s, satp, p, v) = Zero
    BY <1>3, ContentIs
  <2> HIDE DEF w
  <2>5. Fit(w, Live, satp) /\ Same(s, w, Live, satp)
    BY <2>3, <2>4 DEF Becomes, Same
  <2> QED BY <2>5 DEF w
<1>4. CASE e # Unmapped /\ found # {}
  <2>1. PICK i \in Entries : Has(s.swap[i], p, v)
    BY <1>2, <1>4
  <2>2. found = {i}
    BY <1>2, <2>1 DEF Fit, Swapped
  <2>3. w = Restored(s, p, v, {i})
    BY <1>4, <2>2 DEF PageFault
  <2> QED BY <2>1, <2>3, RestoreFit
<1>5. CASE e # Unmapped /\ found = {}
  <2>1. ~ Away(e)
    BY <1>2, <1>5 DEF Fit, Swapped
  <2>2. PICK f \in Frames : At(e, f)
    BY <1>1, <1>5, <2>1, EntryIs, Parts
  <2>3. e.frame = f /\ e = [frame |-> f, present |-> TRUE]
    BY <2>2, EntryIs DEF At
  <2>4. w = [s EXCEPT !.pte[t][v] = [frame |-> @.frame, present |-> TRUE], !.map[f] = @ \cup {AccessedBit}]
    BY <1>5, <2>3 DEF PageFault
  <2>5. Us(s.map[f], p)
    BY <2>2 DEF Fit, Framed, Mine
  <2> DEFINE m == [s.map EXCEPT ![f] = @ \cup {AccessedBit}]
             k == [s.pte EXCEPT ![t] = [@ EXCEPT ![v] = e]]
  <2>6. w = [s EXCEPT !.pte = k, !.map = m]
    <3> HIDE DEF w
    <3> QED BY <1>1, <2>3, <2>4 DEF Snap
  <2>7. k = s.pte
    <3>1. s.pte \in [Tables -> [Pages -> PTE \cup {Unmapped}]]
      BY <1>1, Parts
    <3> HIDE DEF t
    <3> QED BY <1>1, <3>1
  <2>8. m \in [Frames -> Flags]
    <3>1. s.map \in [Frames -> Flags]
      BY <1>1, Parts
    <3> QED BY <3>1, FlagsAre
  <2>9. m[f] = s.map[f] \cup {AccessedBit} /\ \A g \in Frames : g # f => m[g] = s.map[g]
    BY <1>1, Parts
  <2> HIDE DEF w, k, m
  <2>10. /\ w \in Snap /\ w.va = s.va /\ w.data = s.data /\ w.pgt = s.pgt /\ w.pte = s.pte
         /\ w.swap = s.swap /\ w.panic = s.panic /\ w.map = m
    BY <1>1, <2>6, <2>7, <2>8 DEF Snap
  <2>11. \A g \in Frames : \/ w.map[g] \in {s.map[g], s.map[g] \ {AccessedBit}}
                           \/ /\ w.map[g] = s.map[g] \cup {AccessedBit}
                              /\ \E q \in Live : Us(s.map[g], q)
    BY <2>5, <2>9, <2>10
  <2>12. Fit(w, Live, satp) /\ Same(s, w, Live, satp)
    BY <1>1, <2>10, <2>11, RetagFit
  <2> QED BY <2>12 DEF w
<1> QED BY <1>3, <1>4, <1>5

-----------------------------------------------------------------------------
(***************************************************************************)
(* The memory of q is freed, that of the others is not touched.            *)
(***************************************************************************)
LEMMA FreeIs ==
  ASSUME Apart, NEW s, NEW L, NEW sa, Fit(s, L, sa), NEW q \in Procs
  PROVE  LET w == freeProcessMem(s, Asid[q])
         IN  /\ w \in Snap /\ ~ w.panic
             /\ w.va = s.va /\ w.data = s.data /\ w.pte = s.pte /\ w.clock = s.clock
             /\ \A f \in Frames, p \in L : Us(s.map[f], p) \/ Ks(s.map[f], p) =>
                  (p = q /\ w.map[f] = {}) \/ (p # q /\ w.map[f] = s.map[f])
             /\ \A f \in Frames : s.map[f] = {} => w.map[f] = {}
             /\ \A t \in Tables, p \in L : s.pgt[t] = Asid[p] =>
                  (p = q /\ w.pgt[t] = {}) \/ (p # q /\ w.pgt[t] = s.pgt[t])
             /\ \A t \in Tables : s.pgt[t] = {} => w.pgt[t] = {}
             /\ \A i \in Entries, p \in L, v \in Pages : Has(s.swap[i], p, v) =>
                  (p = q /\ w.swap[i] = None) \/ (p # q /\ w.swap[i] = s.swap[i])
             /\ \A i \in Entries : s.swap[i] = None => w.swap[i] = None
<1> DEFINE w == freeProcessMem(s, Asid[q])
           M == [f \in Frames |-> IF is_same_proc(s.map[f], Asid[q]) THEN {} ELSE s.map[f]]
           T == [t \in Tables |-> IF is_same_proc(s.pgt[t], Asid[q]) THEN {} ELSE s.pgt[t]]
           E == [i \in Entries |-> IF s.swap[i] # None /\ is_same_proc(s.swap[i].asid, Asid[q])
                                   THEN None ELSE s.swap[i]]
<1>1. s \in Snap /\ L \subseteq Procs /\ ~ s.panic
  BY DEF Fit
<1>2. w = [s EXCEPT !.map = M, !.pgt = T, !.swap = E]
  BY <1>1 DEF freeProcessMem, Snap
<1>3. M \in [Frames -> Flags] /\ T \in [Tables -> Flags] /\ E \in [Entries -> SwapInfo \cup {None}]
  BY <1>1, Parts, FlagsAre
<1>4. ~ is_same_proc({}, Asid[q])
  BY MemoryAssumption DEF is_same_proc
<1>5. \A f \in Frames, p \in L : Us(s.map[f], p) \/ Ks(s.map[f], p) =>
        (is_same_proc(s.map[f], Asid[q]) <=> p = q)
  BY <1>1, SameProc
<1>6. \A t \in Tables, p \in L : s.pgt[t] = Asid[p] => (is_same_proc(s.pgt[t], Asid[q]) <=> p = q)
  BY <1>1, SameProc
<1>7. \A i \in Entries, p \in L, v \in Pages : Has(s.swap[i], p, v) =>
        s.swap[i] # None /\ (is_same_proc(s.swap[i].asid, Asid[q]) <=> p = q)
  BY <1>1, SameProc DEF Has
<1>8. /\ \A f \in Frames : M[f] = IF is_same_proc(s.map[f], Asid[q]) THEN {} ELSE s.map[f]
      /\ \A t \in Tables : T[t] = IF is_same_proc(s.pgt[t], Asid[q]) THEN {} ELSE s.pgt[t]
      /\ \A i \in Entries : E[i] = IF s.swap[i] # None /\ is_same_proc(s.swap[i].asid, Asid[q])
                                   THEN None ELSE s.swap[i]
  OBVIOUS
<1> HIDE DEF w, M, T, E
<1>9. /\ w \in Snap /\ w.map = M /\ w.pgt = T /\ w.swap = E /\ w.va = s.va /\ w.data = s.data
      /\ w.pte = s.pte /\ w.clock = s.clock /\ w.panic = s.panic
  BY <1>1, <1>2, <1>3 DEF Snap
<1>10. /\ \A f \in Frames, p \in L : Us(s.map[f], p) \/ Ks(s.map[f], p) =>
            (p = q /\ w.map[f] = {}) \/ (p # q /\ w.map[f] = s.map[f])
       /\ \A f \in Frames : s.map[f] = {} => w.map[f] = {}
       /\ \A t \in Tables, p \in L : s.pgt[t] = Asid[p] =>
            (p = q /\ w.pgt[t] = {}) \/ (p # q /\ w.pgt[t] = s.pgt[t])
       /\ \A t \in Tables : s.pgt[t] = {} => w.pgt[t] = {}
  BY <1>4, <1>5, <1>6, <1>8, <1>9
<1>11. /\ \A i \in Entries, p \in L, v \in Pages : Has(s.swap[i], p, v) =>
            (p = q /\ w.swap[i] = None) \/ (p # q /\ w.swap[i] = s.swap[i])
       /\ \A i \in Entries : s.swap[i] = None => w.swap[i] = None
  BY <1>7, <1>8, <1>9
<1> QED BY <1>1, <1>9, <1>10, <1>11 DEF w

LEMMA FreeFit ==
  ASSUME Apart, NEW s, NEW L, NEW sa, Fit(s, L, sa), NEW q \in Procs
  PROVE  LET w == freeProcessMem(s, Asid[q])
         IN  Fit(w, L \ {q}, sa) /\ Same(s, w, L \ {q}, sa)
<1> DEFINE w == freeProcessMem(s, Asid[q])
           K == L \ {q}
<1>1. L \subseteq Procs /\ Tabled(s, L, sa) /\ Framed(s, L, sa) /\ Swapped(s, L, sa) /\ s \in Snap
  BY DEF Fit
<1>2. /\ w \in Snap /\ ~ w.panic
      /\ w.va = s.va /\ w.data = s.data /\ w.pte = s.pte /\ w.clock = s.clock
  BY FreeIs
<1>3. /\ \A f \in Frames, p \in L : Us(s.map[f], p) \/ Ks(s.map[f], p) =>
           (p = q /\ w.map[f] = {}) \/ (p # q /\ w.map[f] = s.map[f])
      /\ \A f \in Frames : s.map[f] = {} => w.map[f] = {}
  BY FreeIs
<1>4. /\ \A t \in Tables, p \in L : s.pgt[t] = Asid[p] =>
           (p = q /\ w.pgt[t] = {}) \/ (p # q /\ w.pgt[t] = s.pgt[t])
      /\ \A t \in Tables : s.pgt[t] = {} => w.pgt[t] = {}
  BY FreeIs
<1>5. /\ \A i \in Entries, p \in L, v \in Pages : Has(s.swap[i], p, v) =>
           (p = q /\ w.swap[i] = None) \/ (p # q /\ w.swap[i] = s.swap[i])
      /\ \A i \in Entries : s.swap[i] = None => w.swap[i] = None
  BY FreeIs
<1> HIDE DEF w
<1>6. Tabled(w, K, sa)
  BY <1>1, <1>4 DEF Tabled
<1>7. \A f \in Frames : w.map[f] = {} \/ w.map[f] = s.map[f]
  BY <1>1, <1>3 DEF Framed, Mine
<1>8. \A f \in Frames, p \in K, v \in Pages : Mine(s, f, p, v) => Mine(w, f, p, v)
  BY <1>2, <1>3 DEF Mine
<1>9. Framed(w, K, sa)
  <2>1. ASSUME NEW f \in Frames
        PROVE  \/ w.map[f] = {} \/ \E p \in K : Ks(w.map[f], p)
               \/ \E p \in K, v \in Pages : Mine(w, f, p, v) /\ At(w.pte[sa[p]][v], f)
    <3>1. CASE s.map[f] = {}
      BY <1>3, <3>1
    <3>2. ASSUME NEW p \in L, Ks(s.map[f], p) PROVE w.map[f] = {} \/ \E r \in K : Ks(w.map[f], r)
      BY <1>3, <3>2
    <3>3. ASSUME NEW p \in L, NEW v \in Pages, Mine(s, f, p, v), At(s.pte[sa[p]][v], f)
          PROVE  w.map[f] = {} \/ \E r \in K, u \in Pages : Mine(w, f, r, u) /\ At(w.pte[sa[r]][u], f)
      <4>1. CASE p = q
        BY <1>3, <3>3, <4>1 DEF Mine
      <4>2. CASE p # q
        BY <1>2, <1>8, <3>3, <4>2
      <4> QED BY <4>1, <4>2
    <3> QED BY <1>1, <3>1, <3>2, <3>3 DEF Framed
  <2>2. \A p \in K, v \in Pages, f \in Frames : At(w.pte[sa[p]][v], f) => Mine(w, f, p, v)
    BY <1>1, <1>2, <1>8 DEF Framed
  <2>3. \A p \in K, f \in Frames : Ks(w.map[f], p) => Ks(s.map[f], p)
    BY <1>1, <1>7, UsIs
  <2>4. \A p \in K, f, g \in Frames : Ks(w.map[f], p) /\ Ks(w.map[g], p) => f = g
    BY <1>1, <2>3 DEF Framed
  <2> QED BY <2>1, <2>2, <2>4 DEF Framed
<1>10. \A i \in Entries, p \in K, v \in Pages : Has(w.swap[i], p, v) <=> Has(s.swap[i], p, v)
  <2> TAKE i \in Entries, p \in K, v \in Pages
  <2>1. Has(s.swap[i], p, v) => Has(w.swap[i], p, v)
    BY <1>5
  <2>2. CASE s.swap[i] = None
    BY <1>5, <2>2
  <2>3. CASE s.swap[i] # None
    <3>1. PICK r \in L, u \in Pages : Has(s.swap[i], r, u)
      BY <1>1, <2>3 DEF Swapped
    <3>2. w.swap[i] = None \/ w.swap[i] = s.swap[i]
      BY <1>5, <3>1
    <3> QED BY <2>1, <3>2 DEF Has
  <2> QED BY <2>2, <2>3
<1>11. Swapped(w, K, sa)
  <2>1. ASSUME NEW i \in Entries, w.swap[i] # None
        PROVE  \E p \in K, v \in Pages : Has(w.swap[i], p, v) /\ Away(w.pte[sa[p]][v])
    <3>1. PICK p \in L, v \in Pages : Has(s.swap[i], p, v) /\ Away(s.pte[sa[p]][v])
      BY <1>1, <1>5, <2>1 DEF Swapped
    <3>2. p # q
      BY <1>5, <2>1, <3>1
    <3> QED BY <1>2, <1>10, <3>1, <3>2
  <2>2. ASSUME NEW p \in K, NEW v \in Pages, Away(w.pte[sa[p]][v])
        PROVE  \E i \in Entries : Has(w.swap[i], p, v)
    BY <1>1, <1>2, <1>10, <2>2 DEF Swapped
  <2>3. ASSUME NEW p \in K, NEW v \in Pages, NEW i \in Entries, NEW j \in Entries,
               Has(w.swap[i], p, v), Has(w.swap[j], p, v)
        PROVE  i = j
    BY <1>1, <1>10, <2>3 DEF Swapped
  <2> QED BY <2>1, <2>2, <2>3 DEF Swapped
<1>12. Fit(w, K, sa)
  BY <1>1, <1>2, <1>6, <1>9, <1>11 DEF Fit
<1>13. Same(s, w, K, sa)
  <2> SUFFICES ASSUME NEW p \in K, NEW v \in Pages
               PROVE  Content(w, sa, p, v) = Content(s, sa, p, v)
    BY DEF Same
  <2>1. s.pte[sa[p]][v] \in PTE \cup {Unmapped}
    BY <1>1, Parts DEF Tabled
  <2>2. CASE s.pte[sa[p]][v] = Unmapped
    BY <1>2, <1>12, <2>2, ContentIs
  <2>3. ASSUME NEW f \in Frames, At(s.pte[sa[p]][v], f)
        PROVE  Content(w, sa, p, v) = Content(s, sa, p, v)
    BY <1>2, <1>12, <2>3, ContentIs
  <2>4. CASE Away(s.pte[sa[p]][v])
    <3>1. PICK i \in Entries : Has(s.swap[i], p, v)
      BY <1>1, <2>4 DEF Swapped
    <3>2. w.swap[i] = s.swap[i] /\ Has(w.swap[i], p, v)
      BY <1>5, <1>10, <3>1
    <3> QED BY <1>2, <1>12, <2>4, <3>1, <3>2, ContentIs
  <2> QED BY <2>1, <2>2, <2>3, <2>4, EntryIs
<1> QED BY <1>12, <1>13 DEF w

-----------------------------------------------------------------------------
(***************************************************************************)
(* do_exec: p gets an empty page table, its pages and a kernel stack.      *)
(***************************************************************************)

\* page v of p holds d(v) for v in X, the other pages of p are not mapped; p
\* has no kernel stack; the processes of K have what they had in s
Loaded(s, w, K, sa, p, X) ==
  /\ Fit(w, K \cup {p}, sa)
  /\ \A f \in Frames : ~ Ks(w.map[f], p)
  /\ \A v \in Pages : IF v \in X THEN /\ Content(w, sa, p, v) = Written(p, v)
                                      /\ w.pte[sa[p]][v] # Unmapped
                                 ELSE w.pte[sa[p]][v] = Unmapped
  /\ \A q \in K, v \in Pages : Content(w, sa, q, v) = Content(s, sa, q, v)

\* s with the empty table t for p
Rooted(sa, p, t) == [sa EXCEPT ![p] = t]
NewTable(s, p, t) == [s EXCEPT !.pgt[t] = Asid[p], !.pte[t] = [v \in Pages |-> Unmapped]]

LEMMA NewTableFit ==
  ASSUME Apart, NEW s, NEW K, NEW sa, sa \in [Procs -> Tables \cup {None}], Fit(s, K, sa),
         NEW p \in Procs \ K, NEW t \in Tables, s.pgt[t] = {}
  PROVE  LET w == NewTable(s, p, t)
             ra == Rooted(sa, p, t)
         IN  Loaded(s, w, K, ra, p, {}) /\ \A q \in K, v \in Pages : Content(w, ra, q, v) = Content(s, sa, q, v)
<1> DEFINE e == [v \in Pages |-> Unmapped]
           a == Asid[p]
           w == [s EXCEPT !.pgt[t] = a, !.pte[t] = e]
           ra == Rooted(sa, p, t)
           L == K \cup {p}
<1>1. K \subseteq Procs /\ Tabled(s, K, sa) /\ Framed(s, K, sa) /\ Swapped(s, K, sa) /\ s \in Snap /\ ~ s.panic
  BY DEF Fit
<1>2. e \in [Pages -> PTE \cup {Unmapped}] /\ \A v \in Pages : e[v] = Unmapped
  OBVIOUS
<1>3. a \in Flags
  BY FlagsAre
<1> HIDE DEF e, a
<1>4. /\ w.pgt = [s.pgt EXCEPT ![t] = a] /\ w.pte = [s.pte EXCEPT ![t] = e] /\ w.map = s.map
      /\ w.va = s.va /\ w.data = s.data /\ w.swap = s.swap /\ w.clock = s.clock /\ w.panic = s.panic
  BY <1>1 DEF Snap
<1>5. w \in Snap
  BY <1>1, <1>2, <1>3 DEF Snap
<1> HIDE DEF w
<1>6. /\ w.pgt[t] = a /\ w.pte[t] = e
      /\ \A u \in Tables : u # t => w.pgt[u] = s.pgt[u] /\ w.pte[u] = s.pte[u]
  BY <1>1, <1>4, Parts
<1>7. ra[p] = t /\ \A q \in K : ra[q] = sa[q] /\ sa[q] \in Tables /\ sa[q] # t /\ q # p
  <2>1. \A q \in K : sa[q] \in Tables /\ sa[q] # t
    BY <1>1, MemoryAssumption DEF Tabled
  <2> QED BY <1>1, <2>1 DEF Rooted
<1> HIDE DEF ra
<1>8. \A q \in K : w.pte[ra[q]] = s.pte[sa[q]]
  BY <1>6, <1>7
<1>9. \A v \in Pages : w.pte[ra[p]][v] = Unmapped
  BY <1>2, <1>6, <1>7
<1>10. Tabled(w, L, ra)
  BY <1>1, <1>6, <1>7 DEF Tabled, a
<1>11. Framed(w, L, ra)
  <2>1. \A f \in Frames : /\ \A q \in Procs, v \in Pages : Mine(w, f, q, v) <=> Mine(s, f, q, v)
                          /\ \A q \in Procs : Ks(w.map[f], q) <=> Ks(s.map[f], q)
    BY <1>4 DEF Mine
  <2>2. \A f \in Frames : ~ Ks(w.map[f], p) /\ \A v \in Pages : ~ At(w.pte[ra[p]][v], f)
    <3> TAKE f \in Frames
    <3>1. \A v \in Pages : ~ At(w.pte[ra[p]][v], f)
      BY <1>9, EntryIs
    <3>2. ~ Ks(s.map[f], p)
      <4>1. s.map[f] = {} \/ (\E q \in K : Us(s.map[f], q) \/ Ks(s.map[f], q))
        BY <1>1 DEF Framed, Mine
      <4> QED BY <1>1, <4>1, UsIs
    <3> QED BY <1>4, <3>1, <3>2
  <2> QED BY <1>1, <1>4, <1>8, <2>1, <2>2 DEF Framed
<1>12. Swapped(w, L, ra)
  <2>1. \A i \in Entries, v \in Pages : ~ Has(w.swap[i], p, v)
    <3> SUFFICES ASSUME NEW i \in Entries, NEW v \in Pages, Has(s.swap[i], p, v) PROVE FALSE
      BY <1>4
    <3>1. PICK q \in K, u \in Pages : Has(s.swap[i], q, u)
      BY <1>1 DEF Swapped, Has
    <3> QED BY <1>1, <3>1, HasIs
  <2>2. \A v \in Pages : ~ Away(w.pte[ra[p]][v])
    BY <1>9, EntryIs
  <2> QED BY <1>1, <1>4, <1>8, <2>1, <2>2 DEF Swapped
<1>13. Fit(w, L, ra)
  BY <1>1, <1>4, <1>5, <1>10, <1>11, <1>12 DEF Fit
<1>14. \A q \in K, v \in Pages : Content(w, ra, q, v) = Content(s, sa, q, v)
  BY <1>4, <1>8 DEF Content, page_in_swap
<1>15. \A q \in K, v \in Pages : Content(s, ra, q, v) = Content(s, sa, q, v)
  BY <1>7 DEF Content
<1>16. \A f \in Frames : ~ Ks(w.map[f], p)
  BY <1>1, <1>4, UsIs DEF Framed, Mine
<1>17. Loaded(s, w, K, ra, p, {})
  BY <1>9, <1>13, <1>14, <1>15, <1>16 DEF Loaded
<1> QED BY <1>14, <1>17 DEF NewTable, w, ra, a, e

LEMMA FilledFit ==
  ASSUME Apart, Enough, NEW s, NEW b, NEW K, NEW sa, NEW p \in Procs \ K, NEW X, NEW v \in Pages \ X,
         b.panic \/ Loaded(s, b, K, sa, p, X)
  PROVE  LET w == Filled(b, p, v, sa) IN w.panic \/ Loaded(s, w, K, sa, p, X \cup {v})
<1> DEFINE u == alloc_page_helper(b, v, sa[p], Asid[p], status, sa)
           w == Filled(b, p, v, sa)
           L == K \cup {p}
           d == Written(p, v)
<1>1. CASE b.panic
  BY <1>1 DEF Filled
<1>2. CASE ~ b.panic /\ u.panic
  BY <1>2 DEF Filled
<1>3. CASE ~ b.panic /\ ~ u.panic
  <2>1. w = [u EXCEPT !.data[Allocated(b)] = d]
    BY <1>3 DEF Filled
  <2>2. Loaded(s, b, K, sa, p, X) /\ Fit(b, L, sa) /\ p \in L /\ b.pte[sa[p]][v] = Unmapped
    BY <1>3 DEF Loaded
  <2>3. d \in Data
    BY DEF Data
  <2> HIDE DEF d
  <2>4. Becomes(b, w, L, sa, p, v, d)
    <3>1. \/ u.panic /\ \E q \in L : status[q] = "EXITED"
          \/ /\ ~ u.panic /\ Becomes(b, u, L, sa, p, v, Zero)
             /\ \A x \in Data : Becomes(b, [u EXCEPT !.data[Allocated(b)] = x], L, sa, p, v, x)
      BY <2>2, AllocFit
    <3> QED BY <1>3, <2>1, <2>3, <3>1
  <2> HIDE DEF w, u
  <2>5. Fit(w, L, sa) /\ \A f \in Frames : ~ Ks(w.map[f], p)
    BY <2>2, <2>4 DEF Becomes, NoStack, Loaded
  <2>6. ASSUME NEW x \in Pages
        PROVE  IF x \in X \cup {v} THEN Content(w, sa, p, x) = Written(p, x) /\ w.pte[sa[p]][x] # Unmapped
               ELSE w.pte[sa[p]][x] = Unmapped
    <3>1. CASE x = v
      BY <2>4, <3>1 DEF Becomes, d
    <3>2. CASE x # v
      <4>1. Content(w, sa, p, x) = Content(b, sa, p, x)
            /\ ((w.pte[sa[p]][x] = Unmapped) <=> (b.pte[sa[p]][x] = Unmapped))
        BY <2>2, <2>4, <3>2 DEF Becomes
      <4> QED BY <2>2, <3>2, <4>1 DEF Loaded
    <3> QED BY <3>1, <3>2
  <2>7. \A q \in K, x \in Pages : Content(w, sa, q, x) = Content(s, sa, q, x)
    BY <2>2, <2>4 DEF Becomes, Loaded
  <2>8. Loaded(s, w, K, sa, p, X \cup {v})
    BY <2>5, <2>6, <2>7 DEF Loaded
  <2> QED BY <2>8 DEF w
<1> QED BY <1>1, <1>2, <1>3

\* f are the states that the loop of load_task_img goes through
Loads(f, s, p, sa, n, q) ==
  f = [U \in SUBSET (1 .. n) |-> IF U = {} THEN s ELSE Filled(f[U \ {Max(U)}], p, q[Max(U)], sa)]

LEMMA LoadUnfolds ==
  ASSUME NEW s, NEW p, NEW sa, NEW n \in Nat, NEW q
  PROVE  \E f : Loads(f, s, p, sa, n, q)
<1> DEFINE Step(a, i) == Filled(a, p, q[i], sa)
           Fix(f, m) == f = [U \in SUBSET (1 .. m) |-> IF U = {} THEN s ELSE Step(f[U \ {Max(U)}], Max(U))]
           A == {m \in Nat : \E f : Fix(f, m)}
<1>1. 0 \in A
  <2> DEFINE f == [U \in SUBSET (1 .. 0) |-> s]
  <2>1. \A U \in SUBSET (1 .. 0) : U = {}
    OBVIOUS
  <2> HIDE DEF Step
  <2>2. Fix(f, 0)
    BY <2>1
  <2> HIDE DEF Fix
  <2> QED BY <2>2
<1>2. ASSUME NEW m \in Nat, m \in A PROVE m + 1 \in A
  <2> HIDE DEF Step
  <2>1. PICK f : Fix(f, m)
    <3> HIDE DEF Fix
    <3> QED BY <1>2
  <2> DEFINE g == [T \in SUBSET (1 .. m + 1) |-> IF m + 1 \in T THEN Step(f[T \ {m + 1}], m + 1) ELSE f[T]]
             h == [U \in SUBSET (1 .. m + 1) |-> IF U = {} THEN s ELSE Step(g[U \ {Max(U)}], Max(U))]
  <2>2. f[{}] = s /\ \A T \in SUBSET (1 .. m) : T # {} => f[T] = Step(f[T \ {Max(T)}], Max(T))
    BY <2>1
  <2>3. ASSUME NEW T \in SUBSET (1 .. m + 1) PROVE g[T] = h[T]
    <3>1. CASE m + 1 \in T
      <4>1. T \in SUBSET Nat /\ \A y \in T : y <= m + 1
        OBVIOUS
      <4>2. Max(T) = m + 1
        BY <3>1, <4>1, MaxIs
      <4>3. g[T \ {m + 1}] = f[T \ {m + 1}]
        OBVIOUS
      <4> QED BY <3>1, <4>2, <4>3
    <3>2. CASE m + 1 \notin T
      <4>1. T \in SUBSET (1 .. m)
        BY <3>2
      <4>2. g[T] = f[T] /\ g[T \ {Max(T)}] = f[T \ {Max(T)}]
        BY <3>2
      <4> HIDE DEF g
      <4> QED BY <2>2, <4>1, <4>2
    <3> QED BY <3>1, <3>2
  <2>4. Fix(g, m + 1)
    <3>1. g = h
      <4>1. \A T \in SUBSET (1 .. m + 1) : g[T] = h[T]
        BY <2>3
      <4> QED BY <4>1
    <3> HIDE DEF g
    <3> QED BY <3>1
  <2> HIDE DEF Fix
  <2> QED BY <2>4
<1> HIDE DEF A
<1>3. n \in A
  BY <1>1, <1>2, Induct
<1>4. PICK f : Fix(f, n)
  <2> HIDE DEF Fix
  <2> QED BY <1>3 DEF A
<1> QED BY <1>4 DEF Loads

LEMMA LoadSteps ==
  ASSUME NEW s, NEW p, NEW sa, NEW q \in Seq(Pages), q = InOrder(ImagePages)
  PROVE  \E g : /\ g[{}] = s /\ g[1 .. Len(q)] = load_task_img(s, p, sa)
                /\ \A i \in 1 .. Len(q) : g[1 .. i] = Filled(g[1 .. (i - 1)], p, q[i], sa)
<1> DEFINE n == Len(q)
           F(f) == [U \in SUBSET (1 .. n) |->
                      IF U = {} THEN s ELSE Filled(f[U \ {Max(U)}], p, q[Max(U)], sa)]
           g == CHOOSE f : f = F(f)
<1>1. n \in Nat /\ DOMAIN q = 1 .. n
  OBVIOUS
<1>2. g[1 .. n] = load_task_img(s, p, sa)
  BY <1>1 DEF load_task_img, FoldLeft, MapThenFoldSet
<1> HIDE DEF n
<1>3. g = F(g)
  <2>1. PICK f : Loads(f, s, p, sa, n, q)
    BY <1>1, LoadUnfolds
  <2>2. f = F(f)
    BY <2>1 DEF Loads
  <2> QED BY <2>2, Zenon
<1> HIDE DEF g
<1>4. g[{}] = s
  BY <1>3
<1>5. ASSUME NEW i \in 1 .. n
      PROVE  g[1 .. i] = Filled(g[1 .. (i - 1)], p, q[i], sa)
  <2>1. Max(1 .. i) = i
    BY MaxIs
  <2>2. (1 .. i) \ {i} = 1 .. (i - 1)
    OBVIOUS
  <2>3. 1 .. i \in SUBSET (1 .. n) /\ 1 .. i # {}
    <3>1. n \in Nat
      BY <1>1
    <3>2. i \in 1 .. i /\ \A j \in 1 .. i : j \in 1 .. n
      BY ONLY <3>1, i \in 1 .. n
    <3> QED BY ONLY <3>2
  <2>4. g[1 .. i] = Filled(g[(1 .. i) \ {Max(1 .. i)}], p, q[Max(1 .. i)], sa)
    BY <1>3, <2>3
  <2> QED BY <2>1, <2>2, <2>4
<1> QED BY <1>2, <1>4, <1>5 DEF n

LEMMA LoadFit ==
  ASSUME Apart, Enough, NEW s, NEW b, NEW K, NEW sa, NEW p \in Procs \ K, Loaded(s, b, K, sa, p, {})
  PROVE  LET w == load_task_img(b, p, sa) IN w.panic \/ Loaded(s, w, K, sa, p, ImagePages)
<1> DEFINE q == InOrder(ImagePages)
           n == Len(q)
           X(i) == {q[j] : j \in 1 .. i}
           w == load_task_img(b, p, sa)
<1>1. ImagePages \in SUBSET Nat /\ IsFiniteSet(ImagePages) /\ ImagePages \subseteq Pages
  BY MemoryAssumption, FS_Subset
<1>2. q \in Seq(ImagePages) /\ Range(q) = ImagePages /\ IsInjective(q)
  <2>1. q = CHOOSE r \in [1 .. Cardinality(ImagePages) -> ImagePages] :
              \A i, j \in DOMAIN r : i < j => r[i] < r[j]
    BY DEF InOrder
  <2>2. \E r \in [1 .. Cardinality(ImagePages) -> ImagePages] :
              \A i, j \in DOMAIN r : i < j => r[i] < r[j]
    BY <1>1, IncreasingExists DEF Increasing
  <2> HIDE DEF q
  <2>3. q \in Increasing(ImagePages)
    BY <2>1, <2>2 DEF Increasing
  <2> QED BY <1>1, <2>3, IncreasingIs
<1> HIDE DEF q
<1>3. q \in Seq(Pages) /\ n \in Nat /\ DOMAIN q = 1 .. n
  <2>1. n \in Nat /\ DOMAIN q = 1 .. n
    BY <1>2
  <2>2. \A i \in 1 .. n : q[i] \in Pages
    <3>1. \A i \in 1 .. n : q[i] \in ImagePages
      BY <1>2
    <3> QED BY <1>1, <3>1
  <2>3. q \in [1 .. n -> Pages]
    BY <1>2, <2>1, <2>2
  <2> HIDE DEF n
  <2>4. q \in Seq(Pages)
    BY <2>1, <2>3
  <2> QED BY <2>1, <2>4
<1>4. PICK g : /\ g[{}] = b /\ g[1 .. n] = w
               /\ \A i \in 1 .. n : g[1 .. i] = Filled(g[1 .. (i - 1)], p, q[i], sa)
  BY <1>3, LoadSteps DEF q
<1> HIDE DEF w, n
<1> DEFINE Good(i) == g[1 .. i].panic \/ Loaded(s, g[1 .. i], K, sa, p, X(i))
           A == {i \in Nat : i <= n => Good(i)}
<1>5. 0 \in A
  <2>1. 1 .. 0 = {} /\ X(0) = {}
    OBVIOUS
  <2> HIDE DEF X
  <2> QED BY <1>4, <2>1
<1>6. ASSUME NEW i \in Nat, i \in A PROVE i + 1 \in A
  <2> SUFFICES ASSUME i + 1 <= n PROVE Good(i + 1)
    <3> HIDE DEF Good
    <3> QED OBVIOUS
  <2>1. Good(i)
    <3> HIDE DEF Good
    <3> QED BY <1>3, <1>6
  <2>2. i + 1 \in 1 .. n /\ (i + 1) - 1 = i
    BY <1>3
  <2>3. X(i + 1) = X(i) \cup {q[i + 1]}
    OBVIOUS
  <2>4. q[i + 1] \in Pages /\ q[i + 1] \notin X(i)
    <3>1. \A j \in 1 .. i : q[j] # q[i + 1]
      BY <1>2, <1>3, <2>2 DEF IsInjective
    <3> QED BY <1>3, <2>2, <3>1
  <2>5. g[1 .. (i + 1)] = Filled(g[1 .. i], p, q[i + 1], sa)
    BY <1>4, <2>2
  <2> HIDE DEF X
  <2>6. LET u == Filled(g[1 .. i], p, q[i + 1], sa)
        IN  u.panic \/ Loaded(s, u, K, sa, p, X(i) \cup {q[i + 1]})
    BY <2>1, <2>4, FilledFit
  <2> QED BY <2>3, <2>5, <2>6
<1> HIDE DEF A
<1>7. n \in A
  BY <1>3, <1>5, <1>6, Induct
<1>8. Good(n)
  <2> HIDE DEF Good
  <2> QED BY <1>3, <1>7 DEF A
<1>9. X(n) = ImagePages
  BY <1>2, <1>3 DEF Range
<1> HIDE DEF X
<1> QED BY <1>4, <1>8, <1>9 DEF w

\* p is built: the pages in X are written, the others are zero
Complete(s, w, K, sa, p, X) ==
  /\ Fit(w, K \cup {p}, sa)
  /\ \A v \in Pages : Content(w, sa, p, v) = IF v \in X THEN Written(p, v) ELSE Zero
  /\ \A q \in K, v \in Pages : Content(w, sa, q, v) = Content(s, sa, q, v)

\* the frame that becomes the kernel stack of p
LEMMA StackFit ==
  ASSUME Apart, Enough, NEW s, NEW b, NEW K, NEW sa, NEW p \in Procs \ K, NEW X,
         Loaded(s, b, K, sa, p, X)
  PROVE  LET w == allocPage(b, Asid[p] \cup {KernelBit}, status, sa)
         IN  w.panic \/ Complete(s, w, K, sa, p, X)
<1> DEFINE f == Allocated(b)
           k == Asid[p] \cup {KernelBit}
           w == allocPage(b, k, status, sa)
           L == K \cup {p}
<1>0. p \in L /\ \A q \in K : q \in L
  OBVIOUS
<1>1. Fit(b, L, sa) /\ \A g \in Frames : ~ Ks(b.map[g], p)
  BY DEF Loaded
<1> HIDE DEF L
<1>2. f \in Frames
  BY <1>1, RoomIs
<1>3. PICK x : MadeRoom(b, x, L, sa, status, f)
  BY <1>1, RoomIs
<1>4. CASE x.panic
  BY <1>3, <1>4 DEF MadeRoom
<1>5. CASE ~ x.panic
  <2>1. Fit(x, L, sa) /\ Evicted(b, x, L, sa) /\ x.map[f] = {} /\ x \in Snap
    BY <1>3, <1>5 DEF MadeRoom, Room, Fit
  <2>2. w = [x EXCEPT !.map[f] = k, !.data[f] = Zero]
    BY <1>3, <1>5 DEF MadeRoom
  <2>3. k \in Flags /\ Zero \in Data /\ Ks(k, p)
    BY FlagsAre DEF Data, Ks
  <2> HIDE DEF f, k, w
  <2>4. /\ w \in Snap /\ w.map = [x.map EXCEPT ![f] = k] /\ w.data = [x.data EXCEPT ![f] = Zero]
        /\ w.va = x.va /\ w.pgt = x.pgt /\ w.pte = x.pte /\ w.swap = x.swap /\ w.panic = x.panic
    BY <1>2, <2>1, <2>2, <2>3 DEF Snap
  <2>5. /\ w.map[f] = k
        /\ \A g \in Frames : g # f => w.map[g] = x.map[g] /\ w.data[g] = x.data[g]
    BY <1>2, <2>1, <2>4, Parts
  <2>6. /\ L \subseteq Procs /\ Tabled(x, L, sa) /\ Framed(x, L, sa) /\ Swapped(x, L, sa)
    BY <2>1 DEF Fit
  <2>7. \A g \in Frames : ~ Ks(x.map[g], p)
    BY <1>0, <1>1, <2>1 DEF Evicted, NoStack
  <2>8. ASSUME NEW q \in L, NEW v \in Pages, NEW g \in Frames, At(x.pte[sa[q]][v], g) PROVE g # f
    <3>1. Us(x.map[g], q) /\ q \in Procs
      BY <2>6, <2>8 DEF Framed, Mine
    <3> QED BY <2>1, <3>1, UsIs
  <2>9. Framed(w, L, sa)
    <3>1. ASSUME NEW g \in Frames
          PROVE  \/ w.map[g] = {} \/ \E q \in L : Ks(w.map[g], q)
                 \/ \E q \in L, v \in Pages : Mine(w, g, q, v) /\ At(w.pte[sa[q]][v], g)
      <4>1. CASE g = f
        BY <1>0, <2>3, <2>5, <4>1
      <4>2. CASE g # f
        BY <2>4, <2>5, <2>6, <4>2 DEF Framed, Mine
      <4> QED BY <4>1, <4>2
    <3>2. \A q \in L, v \in Pages, g \in Frames : At(w.pte[sa[q]][v], g) => Mine(w, g, q, v)
      BY <2>4, <2>5, <2>6, <2>8 DEF Framed, Mine
    <3>3. \A q \in L : Ks(w.map[f], q) => q = p
      BY <2>3, <2>5, <2>6, UsIs
    <3>4. \A q \in L, g, h \in Frames : Ks(w.map[g], q) /\ Ks(w.map[h], q) => g = h
      BY <2>5, <2>6, <2>7, <3>3 DEF Framed
    <3> QED BY <3>1, <3>2, <3>4 DEF Framed
  <2>10. Tabled(w, L, sa) /\ Swapped(w, L, sa)
    BY <2>4, <2>6 DEF Tabled, Swapped
  <2>11. Fit(w, L, sa)
    BY <1>5, <2>4, <2>6, <2>9, <2>10 DEF Fit
  <2>12. Same(b, w, L, sa)
    <3> SUFFICES ASSUME NEW q \in L, NEW v \in Pages
                 PROVE  Content(w, sa, q, v) = Content(x, sa, q, v)
      BY <2>1 DEF Evicted, Same
    <3>1. x.pte[sa[q]][v] \in PTE \cup {Unmapped}
      BY <2>1, <2>6, Parts DEF Tabled
    <3>2. CASE x.pte[sa[q]][v] = Unmapped
      BY <2>1, <2>4, <2>11, <3>2, ContentIs
    <3>3. ASSUME NEW g \in Frames, At(x.pte[sa[q]][v], g)
          PROVE  Content(w, sa, q, v) = Content(x, sa, q, v)
      <4>1. Content(x, sa, q, v) = x.data[g]
        BY <2>1, <3>3, ContentIs
      <4>2. Content(w, sa, q, v) = w.data[g]
        <5>1. At(w.pte[sa[q]][v], g)
          BY <2>4, <3>3
        <5> QED BY <2>11, <5>1, ContentIs
      <4>3. w.data[g] = x.data[g]
        BY <2>5, <2>8, <3>3
      <4> QED BY <4>1, <4>2, <4>3
    <3>4. CASE Away(x.pte[sa[q]][v])
      <4>1. PICK i \in Entries : Has(x.swap[i], q, v)
        BY <2>6, <3>4 DEF Swapped
      <4> QED BY <2>1, <2>4, <2>11, <3>4, <4>1, ContentIs
    <3> QED BY <3>1, <3>2, <3>3, <3>4, EntryIs
  <2>13. \A v \in Pages : Content(b, sa, p, v) = IF v \in X THEN Written(p, v) ELSE Zero
    BY <1>0, <1>1, ContentIs DEF Loaded
  <2>14. \A q \in K, v \in Pages : Content(b, sa, q, v) = Content(s, sa, q, v)
    BY DEF Loaded
  <2> QED BY <1>0, <2>11, <2>12, <2>13, <2>14 DEF Same, Complete, w, k, L
<1> QED BY <1>4, <1>5

Image == ImagePages \cup {StackPage}

LEMMA BuiltFit ==
  ASSUME Apart, Enough, Fit(Here, Live, satp), satp \in [Procs -> Tables \cup {None}],
         NEW p \in Procs \ Live, NEW t \in Tables, free_pgt_map[t] = {}
  PROVE  LET w == Built(p, t)
             sa == [satp EXCEPT ![p] = t]
         IN  w.panic \/ /\ Complete(Here, w, Live, sa, p, Image)
                        /\ \A q \in Live, v \in Pages : Content(w, sa, q, v) = Content(Here, satp, q, v)
<1> DEFINE sa == Rooted(satp, p, t)
           s == Here
           b == NewTable(s, p, t)
           l == load_task_img(b, p, sa)
           k == Filled(l, p, StackPage, sa)
           w == allocPage(k, Asid[p] \cup {KernelBit}, status, sa)
<1>1. s.pgt[t] = {} /\ Fit(s, Live, satp)
  BY DEF Here
<1>2. Built(p, t) = IF k.panic THEN k ELSE w
  BY DEF Built, NewTable, Rooted
<1> HIDE DEF s
<1>3. Loaded(s, b, Live, sa, p, {}) /\ \A q \in Live, v \in Pages : Content(b, sa, q, v) = Content(s, satp, q, v)
  BY <1>1, NewTableFit
<1>4. \A q \in Live, v \in Pages : Content(s, sa, q, v) = Content(s, satp, q, v)
  BY <1>3 DEF Loaded
<1> HIDE DEF sa, b
<1>5. l.panic \/ Loaded(s, l, Live, sa, p, ImagePages)
  BY <1>3, LoadFit
<1> HIDE DEF l
<1>6. k.panic \/ Loaded(s, k, Live, sa, p, Image)
  BY <1>5, FilledFit, MemoryAssumption DEF Image
<1> HIDE DEF k
<1>7. CASE k.panic
  BY <1>2, <1>7
<1>8. CASE ~ k.panic
  <2>1. w.panic \/ Complete(s, w, Live, sa, p, Image)
    BY <1>6, <1>8, StackFit
  <2> HIDE DEF w
  <2>2. w.panic \/ \A q \in Live, v \in Pages : Content(w, sa, q, v) = Content(s, satp, q, v)
    BY <1>4, <2>1 DEF Complete
  <2> QED BY <1>2, <1>8, <2>1, <2>2 DEF sa, s, Rooted
<1> QED BY <1>7, <1>8

LEMMA DataIs ==
  ASSUME Apart, NEW s, NEW L, NEW sa, Fit(s, L, sa), NEW q \in L, NEW v \in Pages
  PROVE  Content(s, sa, q, v) \in Data
<1>1. s \in Snap /\ s.pte[sa[q]][v] \in PTE \cup {Unmapped}
  BY Parts DEF Fit, Tabled
<1>2. CASE s.pte[sa[q]][v] = Unmapped
  BY <1>2, ContentIs DEF Data
<1>3. ASSUME NEW f \in Frames, At(s.pte[sa[q]][v], f)
      PROVE  Content(s, sa, q, v) \in Data
  BY <1>1, <1>3, ContentIs, Parts
<1>4. CASE Away(s.pte[sa[q]][v])
  <2>1. PICK i \in Entries : Has(s.swap[i], q, v)
    BY <1>4 DEF Fit, Swapped
  <2>2. s.swap[i] \in SwapInfo
    BY <1>1, <2>1, Parts DEF Has
  <2> QED BY <1>4, <2>1, <2>2, ContentIs DEF SwapInfo
<1> QED BY <1>1, <1>2, <1>3, <1>4, EntryIs

-----------------------------------------------------------------------------
(***************************************************************************)
(* The steps keep IInv, and those of the kernel change the memory of the   *)
(* processes only where one starts or ends.                                *)
(***************************************************************************)

\* The kernel has no way to meet these cases well: a process killed while a
\* CPU runs it, a thread that exits alone, a page evicted from the process
\* that do_exec builds.  See the runs that allow one of them.
Careful == ~ ZombieRuns /\ ~ ThreadExits /\ ~ ExecEvictsItself

\* the memory of every process: what PrivateMemory is about
Mem == [p \in Procs |-> IF status[p] = "EXITED" THEN None ELSE View(p)]

LEMMA Commits ==
  ASSUME NEW w \in Snap, Commit(w)
  PROVE  Here' = w
<1>1. Here' = [map |-> w.map, va |-> w.va, data |-> w.data, pgt |-> w.pgt,
               pte |-> w.pte, swap |-> w.swap, clock |-> w.clock, panic |-> w.panic]
  BY DEF Here, Commit
<1>2. w = [map |-> w.map, va |-> w.va, data |-> w.data, pgt |-> w.pgt,
           pte |-> w.pte, swap |-> w.swap, clock |-> w.clock, panic |-> w.panic]
  BY DEF Snap
<1> QED BY <1>1, <1>2

LEMMA MemIs ==
  ASSUME NEW p \in Procs
  PROVE  /\ p \in Live => Mem[p] = [v \in Pages |-> Content(Here, satp, p, v)]
         /\ p \notin Live => Mem[p] = None
BY DEF Mem, View, Live

LEMMA NewMemIs ==
  ASSUME NEW p \in Procs
  PROVE  /\ p \in Live' => Mem'[p] = [v \in Pages |-> Content(Here', satp', p, v)]
         /\ p \notin Live' => Mem'[p] = None
BY DEF Mem, View, Live

\* who lives on in a step sees the same memory
LEMMA SameMem ==
  ASSUME NEW K, K \subseteq Live, K \subseteq Live',
         \A q \in K, v \in Pages : Content(Here', satp', q, v) = Content(Here, satp, q, v)
  PROVE  \A q \in K : Mem'[q] = Mem[q]
<1> SUFFICES ASSUME NEW q \in K PROVE Mem'[q] = Mem[q]
  OBVIOUS
<1>1. q \in Procs /\ q \in Live /\ q \in Live'
  BY DEF Live
<1>2. \A v \in Pages : Content(Here', satp', q, v) = Content(Here, satp, q, v)
  OBVIOUS
<1>3. [v \in Pages |-> Content(Here', satp', q, v)] = [v \in Pages |-> Content(Here, satp, q, v)]
  BY <1>2
<1> QED BY <1>1, <1>3, MemIs, NewMemIs

LEMMA FaultStep ==
  ASSUME Apart, Enough, IInv, NEW h \in Harts, HandleFault(h)
  PROVE  IInv' /\ Mem' = Mem
<1> DEFINE w == PageFault(Here, current[h], fault[h])
<1>1. /\ fault[h] # None /\ Commit(w) /\ fault' = [fault EXCEPT ![h] = None]
      /\ UNCHANGED <<status, satp, current>>
  BY DEF HandleFault
<1>2. current[h] \in Live /\ fault[h] \in Pages
  BY <1>1 DEF IInv, Runs, Live
<1>3. Fit(w, Live, satp) /\ Same(Here, w, Live, satp)
  BY <1>2, FaultFit DEF IInv
<1> HIDE DEF w
<1>4. Here' = w /\ Live' = Live /\ satp' = satp
  BY <1>1, <1>3, Commits DEF Fit, Live
<1>5. Fit(Here', Live', satp')
  BY <1>3, <1>4
<1>6. Runs'
  BY <1>1 DEF IInv, Runs
<1>7. \A q \in Live : Mem'[q] = Mem[q]
  BY <1>3, <1>4, SameMem DEF Same
<1>8. \A q \in Procs : Mem'[q] = Mem[q]
  BY <1>4, <1>7, MemIs, NewMemIs
<1>9. Mem' = Mem
  BY <1>8 DEF Mem
<1> QED BY <1>5, <1>6, <1>9 DEF IInv

\* p ends: its memory is freed, once or twice
LEMMA EndStep ==
  ASSUME Apart, IInv, NEW p \in Live, NEW w, Fit(w, Live \ {p}, satp), Same(Here, w, Live \ {p}, satp),
         Commit(w), status' = [status EXCEPT ![p] = "EXITED"], satp' = satp, Runs'
  PROVE  IInv' /\ Private!Exit(p)
<1>1. status \in [Procs -> {"EXITED", "READY"}] /\ p \in Procs /\ Live \subseteq Procs
  BY DEF IInv, Runs, Live
<1>2. Live' = Live \ {p}
  BY <1>1 DEF Live
<1>3. Here' = w
  BY Commits DEF Fit
<1>4. IInv'
  BY <1>2, <1>3 DEF IInv
<1>5. \A q \in Live \ {p} : Mem'[q] = Mem[q]
  BY <1>2, <1>3, SameMem DEF Same
<1>6. Mem'[p] = None /\ \A q \in Procs : q # p => Mem'[q] = Mem[q]
  BY <1>1, <1>2, <1>5, MemIs, NewMemIs
<1>7. Mem' = [Mem EXCEPT ![p] = None]
  BY <1>1, <1>6 DEF Mem
<1>8. Mem[p] # None
  <2>1. \A v \in Pages : Content(Here, satp, p, v) \in Data
    BY DataIs DEF IInv
  <2>2. Mem[p] \in [Pages -> Data]
    BY <1>1, <2>1, MemIs
  <2> QED BY <2>2, MemoryAssumption
<1> QED BY <1>4, <1>7, <1>8 DEF Private!Exit, Mem

LEMMA ExitStep ==
  ASSUME Apart, Careful, IInv, NEW h \in Harts, do_exit(h)
  PROVE  IInv' /\ \E p \in Procs : Private!Exit(p)
<1>0. PICK p \in Procs : current[h] = p /\ do_exit(h)
  BY DEF do_exit
<1> DEFINE st == [status EXCEPT ![p] = "EXITED"]
           u == freeProcessMem(Here, Asid[p])
           w == freeProcessMem(u, Asid[p])
<1>1. /\ fault[h] = None /\ status[p] = "READY"
      /\ \A g \in Harts : current[g] = p => g = h
      /\ Switch(h, u, st) /\ status' = st /\ UNCHANGED <<satp, fault, execs>>
  BY <1>0 DEF do_exit, Careful
<1>2. p \in Live /\ p # Idle
  BY <1>1, MemoryAssumption DEF Live
<1>3. st \in [Procs -> {"EXITED", "READY"}] /\ st[p] = "EXITED" /\ \A q \in Procs : q # p => st[q] = status[q]
  BY <1>1 DEF IInv, Runs
<1>4. PICK q \in {Idle} \cup {r \in Procs : st[r] = "READY"} :
        /\ Commit(IF p \notin {q, Idle} /\ st[p] = "EXITED" THEN w ELSE u)
        /\ current' = [current EXCEPT ![h] = q]
  BY <1>0, <1>1 DEF Switch
<1>5. q # p /\ Commit(w)
  BY <1>2, <1>3, <1>4
<1>6. Fit(u, Live \ {p}, satp) /\ Same(Here, u, Live \ {p}, satp)
  BY <1>1, FreeFit DEF IInv
<1> DEFINE K == (Live \ {p}) \ {p}
<1>7. Fit(w, K, satp) /\ Same(u, w, K, satp)
  <2> HIDE DEF u
  <2> QED BY <1>1, <1>6, FreeFit
<1>8. K = Live \ {p}
  OBVIOUS
<1> HIDE DEF w, u, K, st
<1>9. Fit(w, Live \ {p}, satp) /\ Same(Here, w, Live \ {p}, satp)
  BY <1>6, <1>7, <1>8 DEF Same
<1>10. Runs'
  <2>1. current \in [Harts -> Procs \cup {Idle}]
    BY DEF IInv, Runs
  <2>2. current' \in [Harts -> Procs \cup {Idle}] /\ current'[h] = q
        /\ \A g \in Harts : g # h => current'[g] = current[g] /\ current[g] # p
    BY <1>1, <1>4, <2>1
  <2>3. ASSUME NEW g \in Harts PROVE current'[g] = Idle \/ st[current'[g]] = "READY"
    <3>1. CASE g = h
      BY <1>4, <2>2, <3>1
    <3>2. CASE g # h
      BY <1>3, <2>1, <2>2, <3>2 DEF IInv, Runs
    <3> QED BY <3>1, <3>2
  <2>4. \A g \in Harts : fault[g] # None => current'[g] # Idle
    BY <1>1, <2>2 DEF IInv, Runs
  <2> QED BY <1>1, <1>3, <2>2, <2>3, <2>4 DEF IInv, Runs
<1>11. IInv' /\ Private!Exit(p)
  <2>1. status' = [status EXCEPT ![p] = "EXITED"] /\ satp' = satp
    BY <1>1 DEF st
  <2> QED BY <1>2, <1>5, <1>9, <1>10, <2>1, EndStep
<1> QED BY <1>11

LEMMA KillStep ==
  ASSUME Apart, Careful, IInv, NEW h \in Harts, NEW p \in Procs, sys_kill(h, p)
  PROVE  IInv' /\ Private!Exit(p)
<1> DEFINE w == freeProcessMem(Here, Asid[p])
<1>1. /\ status[p] = "READY" /\ ~ OnCPU(p) /\ Commit(w)
      /\ status' = [status EXCEPT ![p] = "EXITED"] /\ UNCHANGED <<satp, current, fault>>
  BY DEF sys_kill, Careful
<1>2. Fit(w, Live \ {p}, satp) /\ Same(Here, w, Live \ {p}, satp)
  BY FreeFit DEF IInv
<1>3. Runs'
  BY <1>1 DEF IInv, Runs, OnCPU
<1>4. p \in Live
  BY <1>1 DEF Live
<1> QED BY <1>1, <1>2, <1>3, <1>4, EndStep

LEMMA SwitchStep ==
  ASSUME IInv, NEW h \in Harts, do_scheduler(h)
  PROVE  IInv' /\ Mem' = Mem
<1>1. fault[h] = None /\ Switch(h, Here, status) /\ UNCHANGED <<status, satp, fault, execs>>
  BY DEF do_scheduler
<1>2. PICK q \in {Idle} \cup {r \in Procs : status[r] = "READY"} :
        /\ Commit(IF current[h] \notin {q, Idle} /\ status[current[h]] = "EXITED"
                  THEN freeProcessMem(Here, Asid[current[h]]) ELSE Here)
        /\ current' = [current EXCEPT ![h] = q]
  BY <1>1 DEF Switch
<1>3. Commit(Here)
  BY <1>2 DEF IInv, Runs
<1>4. Here' = Here
  BY <1>3, Commits DEF IInv, Fit
<1>5. Live' = Live /\ satp' = satp
  BY <1>1 DEF Live
<1>6. Runs'
  BY <1>1, <1>2 DEF IInv, Runs
<1>7. IInv'
  BY <1>4, <1>5, <1>6 DEF IInv
<1>8. \A p \in Procs : Mem'[p] = Mem[p]
  BY <1>4, <1>5, MemIs, NewMemIs
<1>9. Mem' = Mem
  BY <1>8 DEF Mem
<1> QED BY <1>7, <1>9

LEMMA ExecStep ==
  ASSUME Apart, Enough, Careful, IInv, NEW p \in Procs, do_exec(p)
  PROVE  IInv' /\ Private!Exec(p)
<1> DEFINE F == {u \in Tables : free_pgt_map[u] = {}}
           t == Min(F)
           w == Built(p, t)
           sa == [satp EXCEPT ![p] = t]
<1>1. /\ status[p] = "EXITED" /\ ~ OnCPU(p) /\ F # {} /\ (w.panic => ExecEvictsItself)
      /\ Commit(w) /\ satp' = sa /\ UNCHANGED <<current, fault>>
      /\ status' = [status EXCEPT ![p] = IF w.panic THEN @ ELSE "READY"]
  BY DEF do_exec
<1>2. t \in Tables /\ free_pgt_map[t] = {}
  <2>1. F \in SUBSET Nat
    BY CountsAre
  <2> HIDE DEF F
  <2>2. t \in F
    BY <1>1, <2>1, MinIs
  <2> QED BY <2>2 DEF F
<1> HIDE DEF F, t
<1>3. ~ w.panic
  BY <1>1 DEF Careful
<1>4. p \in Procs \ Live /\ Live \subseteq Procs
  BY <1>1 DEF Live
<1>5. /\ Fit(w, Live \cup {p}, sa)
      /\ \A v \in Pages : Content(w, sa, p, v) = IF v \in Image THEN Written(p, v) ELSE Zero
      /\ \A q \in Live, v \in Pages : Content(w, sa, q, v) = Content(Here, satp, q, v)
  BY <1>2, <1>3, <1>4, BuiltFit DEF Complete, IInv, Runs
<1> HIDE DEF w
<1>6. status \in [Procs -> {"EXITED", "READY"}] /\ status' = [status EXCEPT ![p] = "READY"]
  BY <1>1, <1>3 DEF IInv, Runs
<1>7. Here' = w /\ Live' = Live \cup {p}
  BY <1>1, <1>5, <1>6, Commits DEF Fit, Live
<1>8. Runs'
  <2>1. sa \in [Procs -> Tables \cup {None}]
    BY <1>2 DEF IInv, Runs
  <2>2. \A g \in Harts : current[g] # p
    BY <1>1 DEF OnCPU
  <2> QED BY <1>1, <1>6, <2>1, <2>2 DEF IInv, Runs
<1>9. IInv'
  BY <1>1, <1>5, <1>7, <1>8 DEF IInv
<1>10. \A q \in Live : Mem'[q] = Mem[q]
  BY <1>1, <1>5, <1>7, SameMem
<1> DEFINE m == [v \in Pages |-> IF v \in Image THEN Written(p, v) ELSE Zero]
<1>11. Mem'[p] = m /\ Mem[p] = None
  <2>1. Mem'[p] = [v \in Pages |-> Content(w, sa, p, v)]
    BY <1>1, <1>4, <1>7, NewMemIs
  <2>2. [v \in Pages |-> Content(w, sa, p, v)] = m
    BY <1>5
  <2> QED BY <1>4, <2>1, <2>2, MemIs
<1>12. \A q \in Procs : q # p => Mem'[q] = Mem[q]
  BY <1>7, <1>10, MemIs, NewMemIs
<1>13. Mem' = [Mem EXCEPT ![p] = m]
  BY <1>4, <1>11, <1>12 DEF Mem
<1> QED BY <1>9, <1>11, <1>13 DEF Private!Exec, Private!Written, Private!Zero, Written, Zero, Image, Mem

LEMMA TrapStep ==
  ASSUME IInv, NEW h \in Harts, NEW v \in Pages, Trap(h, v)
  PROVE  IInv' /\ Mem' = Mem
<1>1. /\ UNCHANGED <<mm, status, satp, current>> /\ fault' = [fault EXCEPT ![h] = v] /\ current[h] # Idle
  BY DEF Trap
<1>2. Here' = Here /\ Live' = Live /\ satp' = satp /\ status' = status
  BY <1>1 DEF Here, Live, mm
<1>3. Runs'
  BY <1>1 DEF IInv, Runs
<1>4. IInv'
  BY <1>2, <1>3 DEF IInv
<1>5. \A p \in Procs : Mem'[p] = Mem[p]
  BY <1>2, MemIs, NewMemIs
<1>6. Mem' = Mem
  BY <1>5 DEF Mem
<1> QED BY <1>4, <1>6

\* a store changes the contents of frames only, whatever it hits
LEMMA StoreKeeps ==
  ASSUME IInv, NEW h \in Harts, NEW v \in Pages, Store(h, v)
  PROVE  IInv'
<1> DEFINE s == Here
           d == Written(current[h], v)
           f == Translation(h, v)
<1>1. /\ current[h] # Idle /\ data' = [data EXCEPT ![f] = d]
      /\ UNCHANGED <<free_mem_map, va_info, free_pgt_map, pte, swap_info, clock_ptr, panic,
                     status, satp, current, fault>>
  BY DEF Store
<1>2. d \in Data
  BY <1>1 DEF IInv, Runs, Data
<1>3. data \in [Frames -> Data]
  BY Parts DEF IInv, Fit, Here
<1> HIDE DEF f, d
<1>4. data' \in [Frames -> Data]
  BY <1>1, <1>2, <1>3
<1>5. Here' = [Here EXCEPT !.data = data']
  BY <1>1 DEF Here
<1>6. Here' \in Snap
  BY <1>4, <1>5 DEF IInv, Fit, Snap
<1>7. /\ Here'.map = s.map /\ Here'.va = s.va /\ Here'.pgt = s.pgt /\ Here'.pte = s.pte
      /\ Here'.swap = s.swap /\ Here'.panic = s.panic
  BY <1>1 DEF Here
<1>8. Live' = Live /\ satp' = satp
  BY <1>1 DEF Live
<1> DEFINE w == Here'
<1>9. Fit(w, Live, satp)
  <2> HIDE DEF w, s
  <2>1. Fit(s, Live, satp)
    BY DEF IInv, s
  <2>2. /\ w \in Snap /\ w.map = s.map /\ w.va = s.va /\ w.pgt = s.pgt /\ w.pte = s.pte
        /\ w.swap = s.swap /\ w.panic = s.panic
    BY <1>6, <1>7 DEF w, s
  <2>3. \A g \in Frames, q \in Live, u \in Pages : Mine(w, g, q, u) <=> Mine(s, g, q, u)
    BY <2>2 DEF Mine
  <2>4. Tabled(w, Live, satp) /\ Framed(w, Live, satp) /\ Swapped(w, Live, satp)
    BY <2>1, <2>2, <2>3 DEF Fit, Tabled, Framed, Swapped
  <2> QED BY <2>1, <2>2, <2>4 DEF Fit
<1>10. Runs'
  BY <1>1 DEF IInv, Runs
<1> QED BY <1>8, <1>9, <1>10 DEF IInv

\* without a TLB, it hits the page of the process that stores
LEMMA StoreStep ==
  ASSUME Apart, IInv, NEW h \in Harts, NEW v \in Pages, Store(h, v), tlb[h][v] = None
  PROVE  Private!Store(current[h], v)
<1> DEFINE s == Here
           p == current[h]
           f == Translation(h, v)
           e == pte[satp[p]][v]
<1>0. IInv'
  BY StoreKeeps
<1>1. /\ p # Idle /\ f # None /\ data' = [data EXCEPT ![f] = Written(p, v)]
      /\ UNCHANGED <<free_mem_map, va_info, free_pgt_map, pte, swap_info, clock_ptr, panic,
                     status, satp, current, fault>>
  BY DEF Store
<1>2. p \in Live /\ Live \subseteq Procs /\ Live' = Live
  BY <1>1 DEF IInv, Runs, Live
<1>3. e # Unmapped /\ e.present /\ f = e.frame
  BY <1>1 DEF Translation
<1>4. At(e, f) /\ f \in Frames
  <2>1. e \in PTE \cup {Unmapped}
    BY <1>2, Parts DEF IInv, Fit, Tabled, Here
  <2>2. PICK g \in Frames : At(e, g)
    BY <1>3, <2>1, EntryIs DEF Away
  <2> QED BY <1>3, <2>2, EntryIs
<1> DEFINE w == Here'
<1>5. Fit(s, Live, satp) /\ Fit(w, Live, satp)
  BY <1>0, <1>1, <1>2 DEF IInv
<1>6. /\ w.pte = s.pte /\ w.swap = s.swap /\ At(s.pte[satp[p]][v], f)
      /\ w.data[f] = Written(p, v) /\ \A g \in Frames : g # f => w.data[g] = s.data[g]
  <2>1. data \in [Frames -> Data]
    BY <1>5, Parts DEF Fit, Here
  <2> HIDE DEF f, p
  <2> QED BY <1>1, <1>4, <2>1 DEF Here
<1> HIDE DEF w, s, f, p
<1>7. Content(w, satp, p, v) = Written(p, v)
  BY <1>2, <1>4, <1>5, <1>6, ContentIs
<1>8. ASSUME NEW q \in Live, NEW u \in Pages, q # p \/ u # v
      PROVE  Content(w, satp, q, u) = Content(s, satp, q, u)
  <2>1. s.pte[satp[q]][u] \in PTE \cup {Unmapped}
    BY <1>5, Parts DEF Fit, Tabled
  <2>2. CASE s.pte[satp[q]][u] = Unmapped
    BY <1>5, <1>6, <2>2, ContentIs
  <2>3. ASSUME NEW g \in Frames, At(s.pte[satp[q]][u], g)
        PROVE  Content(w, satp, q, u) = Content(s, satp, q, u)
    <3>1. Mine(s, g, q, u) /\ Mine(s, f, p, v)
      BY <1>2, <1>4, <1>5, <1>6, <2>3 DEF Fit, Framed
    <3>2. g # f
      BY <1>2, <1>8, <3>1, UsIs DEF Mine
    <3>3. Content(s, satp, q, u) = s.data[g] /\ Content(w, satp, q, u) = w.data[g]
      BY <1>5, <1>6, <2>3, ContentIs
    <3> QED BY <1>6, <3>2, <3>3
  <2>4. CASE Away(s.pte[satp[q]][u])
    <3>1. PICK i \in Entries : Has(s.swap[i], q, u)
      BY <1>5, <2>4 DEF Fit, Swapped
    <3> QED BY <1>5, <1>6, <2>4, <3>1, ContentIs
  <2> QED BY <2>1, <2>2, <2>3, <2>4, EntryIs
<1>9. /\ p \in Procs /\ Mem[p] = [u \in Pages |-> Content(s, satp, p, u)]
      /\ Mem'[p] = [u \in Pages |-> Content(w, satp, p, u)]
  BY <1>1, <1>2, MemIs, NewMemIs DEF w, s
<1>10. Mem'[p] = [Mem[p] EXCEPT ![v] = Written(p, v)]
  BY <1>2, <1>7, <1>8, <1>9
<1>11. \A q \in Live : q # p => Mem'[q] = Mem[q]
  <2> DEFINE K == Live \ {p}
  <2>1. \A q \in K, u \in Pages : Content(Here', satp', q, u) = Content(Here, satp, q, u)
    BY <1>1, <1>8 DEF w, s
  <2>2. \A q \in K : Mem'[q] = Mem[q]
    BY <1>2, <2>1, SameMem
  <2> QED BY <2>2
<1>12. \A q \in Procs : q # p => Mem'[q] = Mem[q]
  BY <1>2, <1>11, MemIs, NewMemIs
<1>13. Mem' = [Mem EXCEPT ![p] = [@ EXCEPT ![v] = Written(p, v)]]
  BY <1>9, <1>10, <1>12 DEF Mem
<1>14. Mem[p] # None
  <2>1. \A u \in Pages : Content(s, satp, p, u) \in Data
    BY <1>2, <1>5, DataIs
  <2>2. Mem[p] \in [Pages -> Data]
    BY <1>9, <2>1
  <2> QED BY <2>2, MemoryAssumption
<1> QED BY <1>13, <1>14 DEF Private!Store, Private!Written, Written, Mem, p

-----------------------------------------------------------------------------
(***************************************************************************)
(* IInv is an invariant.                                                   *)
(***************************************************************************)
LEMMA Initially == ASSUME Init PROVE IInv
<1>1. Live = {}
  BY DEF Init, Live
<1>2. Here \in Snap /\ ~ Here.panic
  <2>1. [f \in Frames |-> {}] \in [Frames -> Flags] /\ [t \in Tables |-> {}] \in [Tables -> Flags]
    BY FlagsAre
  <2>2. Zero \in Data
    BY DEF Data
  <2>3. /\ free_mem_map \in [Frames -> Flags] /\ free_pgt_map \in [Tables -> Flags]
        /\ data \in [Frames -> Data]
    BY <2>1, <2>2 DEF Init
  <2>4. /\ va_info \in [Frames -> Pages \cup {None}] /\ swap_info \in [Entries -> SwapInfo \cup {None}]
        /\ clock_ptr \in Int
    BY DEF Init
  <2>6. panic \in BOOLEAN /\ ~ panic
    BY DEF Init
  <2>5. pte \in [Tables -> [Pages -> PTE \cup {Unmapped}]]
    <3>1. [v \in Pages |-> Unmapped] \in [Pages -> PTE \cup {Unmapped}]
      OBVIOUS
    <3> QED BY <3>1 DEF Init
  <2> QED BY <2>3, <2>4, <2>5, <2>6 DEF Here, Snap
<1>3. /\ \A f \in Frames : Here.map[f] = {}
      /\ \A t \in Tables : Here.pgt[t] = {}
      /\ \A i \in Entries : Here.swap[i] = None
  BY DEF Init, Here
<1>4. Tabled(Here, {}, satp) /\ Framed(Here, {}, satp) /\ Swapped(Here, {}, satp)
  BY <1>3 DEF Tabled, Framed, Swapped
<1>5. Runs
  BY DEF Init, Runs
<1> QED BY <1>1, <1>2, <1>4, <1>5 DEF IInv, Fit

\* what a step does to the memory of the processes, when no TLB intervenes
LEMMA StepIs ==
  ASSUME Apart, Enough, Careful, IInv, [Next]_vars
  PROVE  /\ IInv'
         /\ (\A h \in Harts, v \in Pages : tlb[h][v] = None) => Private!Next \/ Mem' = Mem
<1>1. ASSUME NEW p \in Procs, do_exec(p) PROVE IInv' /\ Private!Next
  BY <1>1, ExecStep DEF Private!Next
<1>2. ASSUME NEW h \in Harts, do_scheduler(h) PROVE IInv' /\ Mem' = Mem
  BY <1>2, SwitchStep
<1>3. ASSUME NEW h \in Harts, do_exit(h) PROVE IInv' /\ Private!Next
  BY <1>3, ExitStep DEF Private!Next
<1>4. ASSUME NEW h \in Harts, HandleFault(h) PROVE IInv' /\ Mem' = Mem
  BY <1>4, FaultStep
<1>5. ASSUME NEW h \in Harts, NEW p \in Procs, sys_kill(h, p) PROVE IInv' /\ Private!Next
  BY <1>5, KillStep DEF Private!Next
<1>6. ASSUME NEW h \in Harts, NEW v \in Pages, Trap(h, v) PROVE IInv' /\ Mem' = Mem
  BY <1>6, TrapStep
<1>7. ASSUME NEW h \in Harts, NEW v \in Pages, Store(h, v)
      PROVE  IInv' /\ (tlb[h][v] = None => Private!Next)
  <2>1. current[h] \in Procs
    BY <1>7 DEF Store, IInv, Runs
  <2>2. tlb[h][v] = None => Private!Store(current[h], v)
    BY <1>7, StoreStep
  <2> QED BY <1>7, <2>1, <2>2, StoreKeeps DEF Private!Next
<1>8. ASSUME UNCHANGED vars PROVE IInv' /\ Mem' = Mem
  <2>1. /\ UNCHANGED mm /\ UNCHANGED status /\ UNCHANGED satp /\ UNCHANGED current /\ UNCHANGED fault
    BY <1>8 DEF vars
  <2>2. Here' = Here /\ Live' = Live
    BY <2>1 DEF Here, Live, mm
  <2>3. Runs'
    BY <2>1 DEF IInv, Runs
  <2>4. Mem' = Mem
    BY <2>1, <2>2 DEF Mem, View
  <2> QED BY <2>1, <2>2, <2>3, <2>4 DEF IInv
<1> QED BY <1>1, <1>2, <1>3, <1>4, <1>5, <1>6, <1>7, <1>8 DEF Next

LEMMA Inductive == Apart /\ Enough /\ Careful => (Spec => []IInv)
<1> SUFFICES ASSUME Apart, Enough, Careful PROVE Spec => []IInv
  OBVIOUS
<1>1. Init => IInv
  BY Initially
<1>2. IInv /\ [Next]_vars => IInv'
  BY StepIs
<1> QED BY <1>1, <1>2, PTL DEF Spec

-----------------------------------------------------------------------------
(***************************************************************************)
(* Whatever the CPUs interleave, a frame that a page of a live process is  *)
(* in is marked as that page, and a page that is out is in exactly one     *)
(* swap entry: choose_swap, swap_out, swap_in and page_in_swap agree.      *)
(***************************************************************************)
THEOREM EveryFrameAccounted == Apart /\ Enough /\ Careful => (Spec => []FramesOwned)
<1> SUFFICES ASSUME Apart, Enough, Careful PROVE Spec => []FramesOwned
  OBVIOUS
<1>1. ASSUME IInv PROVE FramesOwned
  <2> SUFFICES ASSUME NEW p \in Live, NEW v \in Pages
               PROVE  LET e == pte[satp[p]][v]
                      IN  /\ e # Unmapped /\ e.present =>
                               /\ free_mem_map[e.frame] \ {AccessedBit} = Asid[p]
                               /\ va_info[e.frame] = v
                          /\ SwapMatches(p, v)
    BY DEF FramesOwned, Live
  <2> DEFINE e == pte[satp[p]][v]
             H == {i \in Entries : Has(swap_info[i], p, v)}
  <2>1. p \in Procs /\ Framed(Here, Live, satp) /\ Swapped(Here, Live, satp)
    BY <1>1 DEF IInv, Fit, Live
  <2>2. e \in PTE \cup {Unmapped}
    BY <1>1, Parts DEF IInv, Fit, Tabled, Here
  <2>3. ASSUME e # Unmapped, e.present
        PROVE  free_mem_map[e.frame] \ {AccessedBit} = Asid[p] /\ va_info[e.frame] = v
    <3>1. PICK f \in Frames : At(e, f)
      BY <2>2, <2>3, EntryIs DEF Away
    <3>2. e.frame = f
      BY <3>1, EntryIs
    <3>3. Mine(Here, f, p, v)
      BY <2>1, <3>1 DEF Framed, Here
    <3> QED BY <2>1, <3>2, <3>3, UsIs DEF Mine, Here
  <2>4. /\ Away(e) => \E i \in Entries : Has(swap_info[i], p, v)
        /\ \A i, j \in H : i = j
    BY <2>1 DEF Swapped, Here
  <2>5. H # {} => Away(e)
    <3> SUFFICES ASSUME NEW i \in Entries, Has(swap_info[i], p, v) PROVE Away(e)
      OBVIOUS
    <3>1. PICK q \in Live, u \in Pages : Has(swap_info[i], q, u) /\ Away(pte[satp[q]][u])
      BY <2>1 DEF Swapped, Here, Has
    <3>2. q = p /\ u = v
      BY <2>1, <3>1, HasIs DEF Live
    <3> QED BY <3>1, <3>2
  <2>6. Cardinality(H) = IF Away(e) THEN 1 ELSE 0
    <3>1. CASE Away(e)
      <4>1. PICK i \in H : H = {i}
        BY <2>4, <3>1
      <4> HIDE DEF H
      <4>2. Cardinality(H) = 1
        BY <4>1, FS_Singleton
      <4> QED BY <3>1, <4>2
    <3>2. CASE ~ Away(e)
      <4>1. H = {}
        BY <2>5, <3>2
      <4> HIDE DEF H
      <4>2. Cardinality(H) = 0
        BY <4>1, FS_EmptySet
      <4> QED BY <3>2, <4>2
    <3> QED BY <3>1, <3>2
  <2>7. SwapMatches(p, v)
    BY <2>6 DEF SwapMatches, Has, Away
  <2> QED BY <2>3, <2>7
<1> QED BY <1>1, Inductive, PTL

(***************************************************************************)
(* freeProcessMem, called once by do_kill_all and once more by             *)
(* do_scheduler, leaves nothing of a process behind: no frame, no page     *)
(* table and no swap entry is marked with the asid of a dead process.      *)
(***************************************************************************)
THEOREM TheDeadLeaveNothing == Apart /\ Enough /\ Careful => (Spec => []NothingLeaks)
<1> SUFFICES ASSUME Apart, Enough, Careful PROVE Spec => []NothingLeaks
  OBVIOUS
<1>1. ASSUME IInv PROVE NothingLeaks
  <2> SUFFICES ASSUME NEW p \in Procs, p \notin Live
               PROVE  /\ \A f \in Frames : ~(Asid[p] \subseteq free_mem_map[f])
                      /\ \A t \in Tables : ~(Asid[p] \subseteq free_pgt_map[t])
                      /\ \A i \in Entries : swap_info[i] # None => ~(Asid[p] \subseteq swap_info[i].asid)
    BY DEF NothingLeaks, Live
  <2>1. /\ Live \subseteq Procs
        /\ Tabled(Here, Live, satp) /\ Framed(Here, Live, satp) /\ Swapped(Here, Live, satp)
    BY <1>1 DEF IInv, Fit
  <2>2. Asid[p] # {}
    BY MemoryAssumption
  <2>3. \A x, q : q \in Live /\ (Us(x, q) \/ Ks(x, q) \/ x = Asid[q]) => ~(Asid[p] \subseteq x)
    BY <2>1, SameProc DEF is_same_proc
  <2>4. ASSUME NEW f \in Frames PROVE ~(Asid[p] \subseteq free_mem_map[f])
    <3>1. free_mem_map[f] = {} \/ \E q \in Live : Us(free_mem_map[f], q) \/ Ks(free_mem_map[f], q)
      BY <2>1 DEF Framed, Mine, Here
    <3> QED BY <2>2, <2>3, <3>1
  <2>5. ASSUME NEW t \in Tables PROVE ~(Asid[p] \subseteq free_pgt_map[t])
    BY <2>1, <2>2, <2>3 DEF Tabled, Here
  <2>6. ASSUME NEW i \in Entries, swap_info[i] # None PROVE ~(Asid[p] \subseteq swap_info[i].asid)
    BY <2>1, <2>3, <2>6 DEF Swapped, Has, Here
  <2> QED BY <2>4, <2>5, <2>6
<1> QED BY <1>1, Inductive, PTL

(***************************************************************************)
(* The kernel never faults in swap_out: the page that choose_swap takes    *)
(* belongs to a live process, whose page table has it.                     *)
(***************************************************************************)
THEOREM OwnersAreFound == Apart /\ Enough /\ Careful => (Spec => []NoPanic)
<1> SUFFICES ASSUME Apart, Enough, Careful PROVE Spec => []NoPanic
  OBVIOUS
<1>1. IInv => NoPanic
  BY DEF IInv, Fit, Here, NoPanic
<1> QED BY <1>1, Inductive, PTL

(***************************************************************************)
(* On CPUs that cache no translations, paging implements AddressSpaces:    *)
(* page faults, evictions and the births and deaths of others never show   *)
(* in the memory of a process.                                             *)
(***************************************************************************)
THEOREM MemoryIsPrivate ==
  Apart /\ Enough /\ Careful /\ ~ UseTLB => (Spec => PrivateMemory)
<1> SUFFICES ASSUME Apart, Enough, Careful, ~ UseTLB PROVE Spec => PrivateMemory
  OBVIOUS
<1> DEFINE Uncached == tlb \in [Harts -> [Pages -> {None}]]
<1>1. Init => Uncached /\ Private!Init
  BY DEF Init, Private!Init
<1>2. Uncached /\ [Next]_vars => Uncached'
  <2> SUFFICES ASSUME Uncached, [Next]_vars PROVE Uncached'
    OBVIOUS
  <2> DEFINE Flushed == tlb' = tlb \/ \E h \in Harts : tlb' = [tlb EXCEPT ![h] = [v \in Pages |-> None]]
  <2>1. ASSUME NEW p \in Procs, do_exec(p) PROVE Flushed
    BY <2>1 DEF do_exec
  <2>2. ASSUME NEW h \in Harts, do_scheduler(h) \/ do_exit(h) PROVE Flushed
    BY <2>2 DEF do_scheduler, do_exit, Switch
  <2>3. ASSUME NEW h \in Harts, HandleFault(h) \/ \E p \in Procs : sys_kill(h, p) PROVE Flushed
    BY <2>3 DEF HandleFault, sys_kill
  <2>4. ASSUME NEW h \in Harts, \E v \in Pages : Trap(h, v) \/ Store(h, v) PROVE Flushed
    BY <2>4 DEF Trap, Store
  <2>5. UNCHANGED vars => Flushed
    BY DEF vars
  <2>6. Flushed
    <3> HIDE DEF Flushed
    <3> QED BY <2>1, <2>2, <2>3, <2>4, <2>5 DEF Next
  <2> QED BY <2>6
<1>3. IInv /\ Uncached /\ [Next]_vars => Private!Next \/ Mem' = Mem
  <2> SUFFICES ASSUME IInv, Uncached, [Next]_vars PROVE Private!Next \/ Mem' = Mem
    OBVIOUS
  <2>1. \A h \in Harts, v \in Pages : tlb[h][v] = None
    OBVIOUS
  <2> QED BY <2>1, StepIs
<1>4. (Private!Next \/ Mem' = Mem) => [Private!Next]_Mem
  OBVIOUS
<1>5. Spec => []IInv
  BY Inductive
<1> HIDE DEF Uncached
<1> QED BY <1>1, <1>2, <1>3, <1>4, <1>5, PTL DEF Spec, PrivateMemory, Private!Spec, Mem
=============================================================================
