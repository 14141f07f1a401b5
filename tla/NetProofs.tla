----------------------------- MODULE NetProofs -----------------------------
(***************************************************************************)
(* Proofs about the network, for rings and kernel buffers of any size and  *)
(* any programs: a receiver never sleeps over a full ring, packets are     *)
(* sent and received in order, and go one behind the other into buffers.   *)
(***************************************************************************)
EXTENDS NetProps, Recursion

Slots == 0 .. RXDESCS - 1

\* the descriptors behind the driver's end and before the card's
Unread(i) == IF rdt < rdh THEN rdt < i /\ i < rdh ELSE rdt < i \/ i < rdh

RingType ==
  /\ rdh \in Slots /\ rdt \in Slots
  /\ rx_desc_array = [i \in Slots |-> rx_desc_array[i]]

\* exactly those hold packets
Owned == \A i \in Slots : rx_desc_array[i].dd <=> Unread(i)

\* Who waits waits for the ring: the kernel keeps no packet, it works for the
\* first in the queue, and a full ring has announced itself.
Awake ==
  /\ recv_block_queue # <<>> =>
       /\ ~pk[pt].dd /\ kernel.mode # "keep"
       /\ kernel.mode \in {"user", "txqe"} /\ rdh = rdt => "RXDMT0" \in icr
  /\ kernel.mode = "irq" => recv_block_queue # <<>>

KernelType ==
  /\ "mode" \in DOMAIN kernel /\ kernel = [x \in DOMAIN kernel |-> kernel[x]]
  /\ "RXDMT0" \in ims

IInv == RingType /\ Owned /\ Awake /\ KernelType

-----------------------------------------------------------------------------
(***************************************************************************)
(* A full ring has a packet for the driver.                                *)
(***************************************************************************)
LEMMA FullRingHasPacket ==
  ASSUME RingType, Owned, ~InRing
  PROVE  rdh # rdt
  BY NetAssumption DEF RingType, Owned, InRing, Unread, Succ, Slots

(***************************************************************************)
(* Reading a packet keeps the ownership of the ring and makes room.        *)
(***************************************************************************)
LEMMA PollKeeps ==
  ASSUME RingType, Owned, InRing, e1000_poll
  PROVE  RingType' /\ Owned' /\ rdh' # rdt'
<1>1. Succ(rdt, RXDESCS) \in Slots /\ Unread(Succ(rdt, RXDESCS))
  <2>1. Succ(rdt, RXDESCS) \in Slots
    BY NetAssumption DEF RingType, Succ, Slots
  <2>2. QED
    BY <2>1 DEF Owned, InRing
<1>2. rdh' = rdh /\ rdt' = Succ(rdt, RXDESCS)
      /\ rx_desc_array' = [rx_desc_array EXCEPT ![Succ(rdt, RXDESCS)] = Vacant]
  BY DEF e1000_poll
<1>3. RingType'
  BY <1>1, <1>2 DEF RingType
<1>4. \A i \in Slots : Unread(i)' <=> Unread(i) /\ i # Succ(rdt, RXDESCS)
  BY <1>1, <1>2, NetAssumption DEF RingType, Unread, Succ, Slots
<1>5. Owned'
  BY <1>1, <1>2, <1>4 DEF Owned, RingType, Vacant
<1>6. QED
  BY <1>1, <1>2, <1>3, <1>5, NetAssumption DEF RingType, Unread, Succ, Slots

(***************************************************************************)
(* The card fills descriptors that hold no packet.                         *)
(***************************************************************************)
LEMMA ArrivesKeeps ==
  ASSUME IInv, Arrives
  PROVE  IInv'
<1>1. Succ(rdh, RXDESCS) \in Slots /\ rdh # rdt
  BY NetAssumption DEF IInv, RingType, Arrives, Succ, Slots
<1>2. rdt' = rdt /\ rdh' = Succ(rdh, RXDESCS)
      /\ rx_desc_array' = [rx_desc_array EXCEPT ![rdh] = [dd |-> TRUE, pkt |-> arrived]]
  BY DEF Arrives
<1>3. RingType'
  BY <1>1, <1>2 DEF IInv, RingType
<1>4. \A i \in Slots : Unread(i)' <=> Unread(i) \/ i = rdh
  BY <1>1, <1>2, NetAssumption DEF IInv, RingType, Unread, Succ, Slots
<1>5. Owned'
  BY <1>2, <1>4 DEF IInv, Owned, RingType
<1>6. rdh' = rdt' => "RXDMT0" \in icr'
  BY <1>1, <1>2, NetAssumption DEF IInv, RingType, Arrives, Free, Slots
<1>7. Awake' /\ KernelType'
  BY <1>6 DEF IInv, Awake, KernelType, Arrives, rxSoft
<1>8. QED
  BY <1>3, <1>5, <1>7 DEF IInv

(***************************************************************************)
(* A poll either takes a packet the kernel kept or reads the ring.         *)
(***************************************************************************)
LEMMA AnyPollKeeps ==
  ASSUME RingType, Owned, Found, poll
  PROVE  /\ RingType' /\ Owned'
         /\ ~pk[pt].dd => rdh' # rdt' /\ pk' = pk /\ pt' = pt
<1>1. CASE pk[pt].dd
  BY <1>1 DEF poll, rxRing, RingType, Owned, Unread
<1>2. CASE ~pk[pt].dd
  <2>1. InRing /\ e1000_poll
    BY <1>2 DEF Found, poll
  <2>2. QED
    BY <1>2, <2>1, PollKeeps DEF poll
<1>3. QED
  BY <1>1, <1>2

LEMMA LeaveMode ==
  ASSUME Leave
  PROVE  /\ kernel'.mode \in {"user", "txqe"}
         /\ "mode" \in DOMAIN kernel' /\ kernel' = [x \in DOMAIN kernel' |-> kernel'[x]]
  BY DEF Leave, User
-----------------------------------------------------------------------------
(***************************************************************************)
(* IInv holds initially and every step keeps it.                           *)
(***************************************************************************)
LEMMA Initially == Init => IInv
  BY NetAssumption DEF Init, IInv, RingType, Owned, Awake, KernelType, Unread, Slots, Vacant, User

LEMMA Inductive == IInv /\ [Next]_vars => IInv'
<1> SUFFICES ASSUME IInv, [Next]_vars PROVE IInv'
  OBVIOUS
<1> USE DEF IInv
<1>1. CASE Transmits
  BY <1>1 DEF Transmits, rxRing, rxSoft, RingType, Owned, Unread, Awake, KernelType
<1>2. CASE Arrives
  BY <1>2, ArrivesKeeps
<1>3. CASE TakePacket
  <2>1. RingType' /\ Owned' /\ (~pk[pt].dd => pk' = pk /\ pt' = pt)
    BY <1>3, AnyPollKeeps DEF TakePacket
  <2>2. kernel'.mode = kernel.mode /\ KernelType'
    BY <1>3 DEF TakePacket, KernelType
  <2>3. Awake'
    BY <1>3, <2>1, <2>2 DEF TakePacket, Awake, InLoop
  <2>4. QED
    BY <2>1, <2>2, <2>3
<1>4. CASE EndsSatisfied
  <2>1. kernel'.mode \in {"user", "txqe"} /\ KernelType'
    BY <1>4, LeaveMode DEF EndsSatisfied, KernelType
  <2>2. recv_block_queue' # <<>> => recv_block_queue # <<>>
    BY <1>4 DEF EndsSatisfied, Awake
  <2>3. CASE Found
    <3>1. poll
      BY <1>4, <2>3 DEF EndsSatisfied
    <3>2. RingType' /\ Owned' /\ (~pk[pt].dd => rdh' # rdt' /\ pk' = pk /\ pt' = pt)
      BY <2>3, <3>1, AnyPollKeeps
    <3>3. QED
      BY <2>1, <2>2, <3>2 DEF Awake
  <2>4. CASE ~Found
    <3>1. rdh # rdt
      BY <2>4, FullRingHasPacket DEF Found
    <3>2. UNCHANGED <<pk, pt, rxRing>>
      BY <1>4, <2>4 DEF EndsSatisfied
    <3>3. QED
      BY <2>1, <2>2, <3>1, <3>2 DEF Awake, rxRing, RingType, Owned, Unread
  <2>5. QED
    BY <2>3, <2>4
<1>5. CASE EndsWaiting
  <2>1. kernel'.mode \in {"user", "txqe"} /\ KernelType'
    BY <1>5, LeaveMode DEF EndsWaiting, KernelType
  <2>2. rdh # rdt /\ ~pk[pt].dd
    BY <1>5, FullRingHasPacket DEF EndsWaiting, Found
  <2>3. QED
    BY <1>5, <2>1, <2>2 DEF EndsWaiting, Awake, rxRing, RingType, Owned, Unread
<1>6. CASE KeepPacket
  <2>1. recv_block_queue' = <<>> /\ KernelType'
    BY <1>6, LeaveMode DEF KeepPacket, Awake, KernelType
  <2>2. kernel'.mode # "irq"
    BY <1>6, LeaveMode DEF KeepPacket
  <2>3. CASE ~pk[ph].dd /\ InRing
    BY <1>6, <2>1, <2>2, <2>3, PollKeeps DEF KeepPacket, Awake
  <2>4. CASE ~(~pk[ph].dd /\ InRing)
    BY <1>6, <2>1, <2>2, <2>4 DEF KeepPacket, rxRing, RingType, Owned, Unread, Awake
  <2>5. QED
    BY <2>3, <2>4
<1>7. CASE HandleTXQE
  <2>1. UNCHANGED <<rxRing, rxSoft, icr>> /\ kernel' = User /\ kernel.mode = "txqe"
    BY <1>7 DEF HandleTXQE
  <2>2. "RXDMT0" \in ims'
    BY <1>7 DEF HandleTXQE, update_net_send, KernelType
  <2>3. QED
    BY <2>1, <2>2 DEF rxRing, rxSoft, RingType, Owned, Unread, Awake, KernelType, User
<1>8. CASE handle_irq_ext
  <2>1. RingType' /\ Owned' /\ UNCHANGED <<recv_block_queue, pk, pt, rdh, rdt, ims>>
    BY <1>8 DEF handle_irq_ext, rxRing, rxSoft, RingType, Owned, Unread
  <2>2. CASE "RXDMT0" \in icr /\ recv_block_queue # <<>>
    BY <1>8, <2>1, <2>2 DEF handle_irq_ext, update_net_recv, Receiving, Awake, KernelType
  <2>3. CASE "RXDMT0" \in icr /\ recv_block_queue = <<>>
    BY <1>8, <2>1, <2>3 DEF handle_irq_ext, update_net_recv, Awake, KernelType
  <2>4. CASE "RXDMT0" \notin icr
    BY <1>8, <2>1, <2>4 DEF handle_irq_ext, Awake, KernelType
  <2>5. QED
    BY <2>2, <2>3, <2>4
<1>9. CASE \E p \in Senders : do_net_send(p)
  BY <1>9 DEF do_net_send, rxRing, rxSoft, RingType, Owned, Unread, Awake, KernelType
<1>10. CASE \E p \in Receivers : do_net_recv(p)
  BY <1>10 DEF do_net_recv, Calls, Receiving, rxRing, rxSoft, RingType, Owned, Unread, Awake, KernelType
<1>11. CASE \E p \in Procs : do_kill(p)
  <2>1. recv_block_queue' # <<>> => recv_block_queue # <<>>
    BY <1>11 DEF do_kill, Without
  <2>2. QED
    BY <1>11, <2>1 DEF do_kill, rxRing, RingType, Owned, Unread, Awake, KernelType
<1>12. CASE UNCHANGED vars
  BY <1>12 DEF vars, rxRing, rxSoft, RingType, Owned, Unread, Awake, KernelType
<1>13. QED
  BY <1>1, <1>2, <1>3, <1>4, <1>5, <1>6, <1>7, <1>8, <1>9, <1>10, <1>11, <1>12 DEF Next, Loops

(***************************************************************************)
(* However programs, handlers and the card interleave, a receiver that     *)
(* waits when the ring is full has an interrupt coming.                    *)
(***************************************************************************)
THEOREM ReceiversHear == Spec => []NoDeafReceiver
<1>1. IInv => NoDeafReceiver
  BY DEF IInv, Awake, KernelType, NoDeafReceiver
<1>2. QED
  BY <1>1, Initially, Inductive, PTL DEF Spec
-----------------------------------------------------------------------------
(***************************************************************************)
(* The packets in their order: the kernel keeps k of them from pt on, the  *)
(* ring has f of them behind rdt, and they are the ones that have arrived  *)
(* since the last one taken, one after the other.                          *)
(***************************************************************************)
KeptAre(k) ==
  /\ pt \in 0 .. RECV_BUFFER_NUM - 1 /\ ph = (pt + k) % RECV_BUFFER_NUM
  /\ pk = [i \in 0 .. RECV_BUFFER_NUM - 1 |-> pk[i]]
  /\ \A j \in 0 .. RECV_BUFFER_NUM - 1 :
       LET x == pk[(pt + j) % RECV_BUFFER_NUM]
       IN  (x.dd <=> j < k) /\ (j < k => x.pkt = (polled + j) % Ids)

FilledAre(k, f) ==
  /\ rdh = (rdt + 1 + f) % RXDESCS
  /\ polled \in 0 .. Ids - 1 /\ arrived = (polled + k + f) % Ids
  /\ \A j \in 1 .. f : rx_desc_array[(rdt + j) % RXDESCS].pkt = (polled + k + j - 1) % Ids

InLine(k, f) == KeptAre(k) /\ FilledAre(k, f)

Counts == (0 .. RECV_BUFFER_NUM) \X (0 .. RXDESCS - 1)

OInv == \E c \in Counts : InLine(c[1], c[2])

(***************************************************************************)
(* Counting round a ring of n places.                                      *)
(***************************************************************************)
LEMMA RoundIs ==
  ASSUME NEW n \in Nat \ {0}, NEW x \in 0 .. 2 * n
  PROVE  x % n = IF x < n THEN x ELSE IF x < 2 * n THEN x - n ELSE 0
OBVIOUS

LEMMA SuccIs ==
  ASSUME NEW n \in Nat \ {0}, NEW a \in 0 .. n - 1
  PROVE  /\ Succ(a, n) = (a + 1) % n /\ Succ(a, n) \in 0 .. n - 1
         /\ \A j \in 0 .. n : (Succ(a, n) + j) % n = (a + 1 + j) % n
<1>1. Succ(a, n) = (a + 1) % n /\ Succ(a, n) \in 0 .. n - 1
  BY DEF Succ
<1>2. ASSUME NEW j \in 0 .. n PROVE (Succ(a, n) + j) % n = (a + 1 + j) % n
  <2>1. a + 1 + j \in 0 .. 2 * n /\ Succ(a, n) + j \in 0 .. 2 * n
    BY <1>1
  <2> QED BY <2>1 DEF Succ
<1> QED BY <1>1, <1>2

\* a place is j steps on from a in one way only, and every place is
LEMMA PlacesDiffer ==
  ASSUME NEW n \in Nat \ {0}, NEW a \in 0 .. n - 1, NEW i \in 0 .. n - 1, NEW j \in 0 .. n - 1
  PROVE  (a + i) % n \in 0 .. n - 1 /\ ((a + i) % n = (a + j) % n => i = j)
<1>1. a + i \in 0 .. 2 * n /\ a + j \in 0 .. 2 * n
  OBVIOUS
<1> QED BY <1>1, RoundIs

\* taking the oldest of the packets kept by the kernel
LEMMA TakeKept ==
  ASSUME NEW k \in 1 .. RECV_BUFFER_NUM, NEW f \in 0 .. RXDESCS - 1, InLine(k, f),
         polled' = Succ(polled, Ids), pk' = [pk EXCEPT ![pt] = Vacant],
         pt' = Succ(pt, RECV_BUFFER_NUM), ph' = ph, UNCHANGED rxRing
  PROVE  InLine(k - 1, f)'
<1> DEFINE B == RECV_BUFFER_NUM
<1>1. B \in Nat \ {0} /\ Ids \in Nat \ {0} /\ Ids >= RXDESCS + B /\ RXDESCS \in Nat \ {0}
  BY NetAssumption
<1>2. pt \in 0 .. B - 1 /\ polled \in 0 .. Ids - 1
  BY DEF InLine, KeptAre, FilledAre
<1>3. /\ pt' \in 0 .. B - 1 /\ \A j \in 0 .. B : (pt' + j) % B = (pt + 1 + j) % B
      /\ polled' \in 0 .. Ids - 1 /\ \A j \in 0 .. Ids : (polled' + j) % Ids = (polled + 1 + j) % Ids
  BY <1>1, <1>2, SuccIs
<1>4. ph' = (pt' + (k - 1)) % B
  <2>1. (pt' + (k - 1)) % B = (pt + 1 + (k - 1)) % B /\ pt + 1 + (k - 1) = pt + k
    BY <1>1, <1>2, <1>3
  <2> QED BY <2>1 DEF InLine, KeptAre
<1>5. pk' = [i \in 0 .. B - 1 |-> pk'[i]]
  BY DEF InLine, KeptAre
<1>6. ASSUME NEW j \in 0 .. B - 1
      PROVE  LET x == pk'[(pt' + j) % B]
             IN  (x.dd <=> j < k - 1) /\ (j < k - 1 => x.pkt = (polled' + j) % Ids)
  <2>1. (pt' + j) % B = (pt + 1 + j) % B
    BY <1>1, <1>3
  <2>2. CASE j = B - 1
    <3>1. (pt + 1 + j) % B = pt
      BY <1>1, <1>2, <2>2
    <3>2. pk'[pt] = Vacant
      BY <1>2 DEF InLine, KeptAre
    <3>3. ~ (j < k - 1)
      BY <1>1, <2>2
    <3> QED BY <2>1, <3>1, <3>2, <3>3 DEF Vacant
  <2>3. CASE j < B - 1
    <3>1. j + 1 \in 0 .. B - 1 /\ 0 \in 0 .. B - 1 /\ pt + 1 + j = pt + (j + 1)
      BY <1>1, <1>2, <2>3
    <3>2. (pt + (j + 1)) % B \in 0 .. B - 1 /\ (pt + (j + 1)) % B # (pt + 0) % B
      BY <1>1, <1>2, <3>1
    <3>3. (pt + 0) % B = pt
      BY <1>1, <1>2
    <3>4. pk'[(pt' + j) % B] = pk[(pt + (j + 1)) % B]
      BY <2>1, <3>1, <3>2, <3>3 DEF InLine, KeptAre
    <3>5. j + 1 < k <=> j < k - 1
      BY <1>1
    <3>6. (polled + (j + 1)) % Ids = (polled' + j) % Ids
      <4>1. j \in 0 .. Ids /\ polled + (j + 1) = polled + 1 + j
        BY <1>1, <1>2
      <4> QED BY <1>3, <4>1
    <3> QED BY <3>1, <3>4, <3>5, <3>6 DEF InLine, KeptAre
  <2> QED BY <1>1, <2>2, <2>3
<1>7. KeptAre(k - 1)'
  BY <1>3, <1>4, <1>5, <1>6 DEF KeptAre
<1>8. \A j \in 0 .. f : (polled' + (k - 1) + j) % Ids = (polled + k + j) % Ids
  <2> TAKE j \in 0 .. f
  <2>1. (k - 1) + j \in 0 .. Ids
    BY <1>1
  <2>2. (polled' + ((k - 1) + j)) % Ids = (polled + 1 + ((k - 1) + j)) % Ids
    BY <1>3, <2>1
  <2>3. polled' + ((k - 1) + j) = polled' + (k - 1) + j /\ polled + 1 + ((k - 1) + j) = polled + k + j
    BY <1>1, <1>2, <1>3
  <2> QED BY <2>2, <2>3
<1>9. FilledAre(k - 1, f)'
  <2>1. arrived' = (polled' + (k - 1) + f) % Ids
    BY <1>8 DEF InLine, FilledAre, rxRing
  <2>2. ASSUME NEW j \in 1 .. f
        PROVE  rx_desc_array'[(rdt' + j) % RXDESCS].pkt = (polled' + (k - 1) + j - 1) % Ids
    <3>1. j - 1 \in 0 .. f
      BY <1>1
    <3>2. (polled' + (k - 1) + (j - 1)) % Ids = (polled + k + (j - 1)) % Ids
      BY <1>8, <3>1
    <3>3. polled' + (k - 1) + (j - 1) = polled' + (k - 1) + j - 1 /\ polled + k + (j - 1) = polled + k + j - 1
      BY <1>1, <1>2, <1>3
    <3> QED BY <3>2, <3>3 DEF InLine, FilledAre, rxRing
  <2> QED BY <1>3, <2>1, <2>2 DEF InLine, FilledAre, rxRing
<1> QED BY <1>7, <1>9 DEF InLine
\* the driver takes the oldest packet out of the ring
LEMMA RingGives ==
  ASSUME NEW k \in 0 .. RECV_BUFFER_NUM, NEW f \in 0 .. RXDESCS - 1, FilledAre(k, f),
         RingType, Owned, InRing, e1000_poll
  PROVE  /\ f > 0 /\ Received = (polled + k) % Ids
         /\ rdh' = (rdt' + 1 + (f - 1)) % RXDESCS /\ arrived' = arrived
         /\ \A j \in 1 .. f - 1 :
              rx_desc_array'[(rdt' + j) % RXDESCS].pkt = (polled + k + 1 + j - 1) % Ids
<1> DEFINE R == RXDESCS
<1>1. R \in Nat \ {0, 1} /\ rdh \in 0 .. R - 1 /\ rdt \in 0 .. R - 1
  BY NetAssumption DEF RingType, Slots
<1>2. /\ Succ(rdt, R) = (rdt + 1) % R /\ Succ(rdt, R) \in 0 .. R - 1
      /\ \A j \in 0 .. R : (Succ(rdt, R) + j) % R = (rdt + 1 + j) % R
  BY <1>1, SuccIs
<1>3. rdh' = rdh /\ arrived' = arrived /\ rdt' = Succ(rdt, R)
      /\ rx_desc_array' = [rx_desc_array EXCEPT ![Succ(rdt, R)] = Vacant]
  BY DEF e1000_poll
<1>4. f > 0
  <2>1. Unread(Succ(rdt, R))
    BY <1>2 DEF Owned, InRing, Slots
  <2>2. rdh # Succ(rdt, R)
    BY <1>1, <1>2, <2>1 DEF Unread
  <2>3. f = 0 => rdt + 1 + f = rdt + 1
    BY <1>1
  <2> QED BY <1>2, <2>2, <2>3 DEF FilledAre
<1>5. Received = (polled + k) % Ids
  <2>1. 1 \in 1 .. f
    BY <1>1, <1>4
  <2>2. polled \in Int /\ polled + k + 1 - 1 = polled + k
    BY NetAssumption DEF FilledAre
  <2> QED BY <1>2, <2>1, <2>2 DEF FilledAre, Received
<1>6. rdh' = (rdt' + 1 + (f - 1)) % R
  <2>1. f \in 0 .. R /\ rdt' + 1 + (f - 1) = rdt' + f /\ rdt + 1 + f = rdt + 1 + f
    BY <1>1, <1>2, <1>3
  <2>2. (rdt' + f) % R = (rdt + 1 + f) % R
    BY <1>2, <1>3, <2>1
  <2> QED BY <1>3, <2>1, <2>2 DEF FilledAre
<1>7. ASSUME NEW j \in 1 .. f - 1
      PROVE  rx_desc_array'[(rdt' + j) % R].pkt = (polled + k + 1 + j - 1) % Ids
  <2>1. j \in 0 .. R /\ j + 1 \in 1 .. f /\ rdt + 1 + j = rdt + (j + 1)
    BY <1>1
  <2>2. (rdt' + j) % R = (rdt + (j + 1)) % R
    BY <1>2, <1>3, <2>1
  <2>3. (rdt + (j + 1)) % R \in 0 .. R - 1 /\ (rdt + (j + 1)) % R # (rdt + 1) % R
    BY <1>1, <2>1
  <2>4. rx_desc_array'[(rdt' + j) % R] = rx_desc_array[(rdt + (j + 1)) % R]
    BY <1>2, <1>3, <2>2, <2>3 DEF RingType, Slots
  <2>5. polled \in Int /\ polled + k + (j + 1) - 1 = polled + k + 1 + j - 1
    BY <1>1, NetAssumption DEF FilledAre
  <2> QED BY <2>1, <2>4, <2>5 DEF FilledAre
<1> QED BY <1>3, <1>4, <1>5, <1>6, <1>7

\* taking a packet from the ring, when the kernel keeps none
LEMMA TakeFilled ==
  ASSUME NEW f \in 0 .. RXDESCS - 1, InLine(0, f), RingType, Owned, InRing, e1000_poll,
         polled' = Succ(polled, Ids), UNCHANGED <<pk, pt, ph>>
  PROVE  f > 0 /\ InLine(0, f - 1)'
<1>1. /\ RECV_BUFFER_NUM \in Nat \ {0} /\ Ids \in Nat \ {0} /\ RXDESCS \in Nat \ {0}
      /\ Ids >= RXDESCS + RECV_BUFFER_NUM
  BY NetAssumption
<1>2. 0 \in 0 .. RECV_BUFFER_NUM /\ polled \in 0 .. Ids - 1
  BY <1>1 DEF InLine, FilledAre
<1>3. /\ f > 0 /\ rdh' = (rdt' + 1 + (f - 1)) % RXDESCS /\ arrived' = arrived
      /\ \A j \in 1 .. f - 1 :
           rx_desc_array'[(rdt' + j) % RXDESCS].pkt = (polled + 0 + 1 + j - 1) % Ids
  BY <1>2, RingGives DEF InLine
<1>4. polled' \in 0 .. Ids - 1 /\ \A j \in 0 .. Ids : (polled' + j) % Ids = (polled + 1 + j) % Ids
  BY <1>1, <1>2, SuccIs
<1>5. arrived' = (polled' + 0 + (f - 1)) % Ids
  <2>1. f - 1 \in 0 .. Ids /\ polled' + 0 + (f - 1) = polled' + (f - 1)
        /\ polled + 1 + (f - 1) = polled + 0 + f
    BY <1>1, <1>2, <1>3, <1>4
  <2>2. (polled' + (f - 1)) % Ids = (polled + 1 + (f - 1)) % Ids
    BY <1>4, <2>1
  <2> QED BY <1>3, <2>1, <2>2 DEF InLine, FilledAre
<1>6. ASSUME NEW j \in 1 .. f - 1
      PROVE  rx_desc_array'[(rdt' + j) % RXDESCS].pkt = (polled' + 0 + j - 1) % Ids
  <2>1. j - 1 \in 0 .. Ids /\ polled' + 0 + j - 1 = polled' + (j - 1)
        /\ polled + 1 + (j - 1) = polled + 0 + 1 + j - 1
    BY <1>1, <1>2, <1>4
  <2>2. (polled' + (j - 1)) % Ids = (polled + 1 + (j - 1)) % Ids
    BY <1>4, <2>1
  <2> QED BY <1>3, <2>1, <2>2
<1>7. FilledAre(0, f - 1)'
  BY <1>3, <1>4, <1>5, <1>6 DEF FilledAre
<1>8. KeptAre(0)'
  <2>1. \A j \in 0 .. RECV_BUFFER_NUM - 1 : ~ (j < 0)
    BY <1>1
  <2> QED BY <2>1 DEF InLine, KeptAre
<1> QED BY <1>3, <1>7, <1>8 DEF InLine

\* a packet goes from the ring to those the kernel keeps
LEMMA Keep ==
  ASSUME NEW k \in 0 .. RECV_BUFFER_NUM, NEW f \in 0 .. RXDESCS - 1, InLine(k, f),
         RingType, Owned, InRing, e1000_poll, ~ pk[ph].dd,
         pk' = [pk EXCEPT ![ph] = [dd |-> TRUE, pkt |-> Received]],
         ph' = Succ(ph, RECV_BUFFER_NUM), UNCHANGED <<pt, polled>>
  PROVE  k < RECV_BUFFER_NUM /\ f > 0 /\ InLine(k + 1, f - 1)'
<1> DEFINE B == RECV_BUFFER_NUM
<1>1. B \in Nat \ {0} /\ Ids \in Nat \ {0} /\ Ids >= RXDESCS + B /\ RXDESCS \in Nat \ {0}
  BY NetAssumption
<1>2. pt \in 0 .. B - 1 /\ polled \in 0 .. Ids - 1 /\ ph = (pt + k) % B
  BY DEF InLine, KeptAre, FilledAre
<1>3. /\ f > 0 /\ Received = (polled + k) % Ids /\ rdh' = (rdt' + 1 + (f - 1)) % RXDESCS
      /\ arrived' = arrived
      /\ \A j \in 1 .. f - 1 :
           rx_desc_array'[(rdt' + j) % RXDESCS].pkt = (polled + k + 1 + j - 1) % Ids
  BY RingGives DEF InLine
<1>4. k < B
  <2>1. CASE k = B
    <3>1. (pt + B) % B = pt /\ (pt + 0) % B = pt /\ 0 \in 0 .. B - 1 /\ 0 < k
      BY <1>1, <1>2, <2>1
    <3>2. pk[(pt + 0) % B].dd
      BY <3>1 DEF InLine, KeptAre
    <3> QED BY <1>2, <2>1, <3>1, <3>2
  <2> QED BY <1>1, <2>1
<1>5. ph \in 0 .. B - 1 /\ ph' = (pt' + (k + 1)) % B
  BY <1>1, <1>2, <1>4 DEF Succ
<1>6. pk' = [i \in 0 .. B - 1 |-> pk'[i]]
  BY DEF InLine, KeptAre
<1>7. ASSUME NEW j \in 0 .. B - 1
      PROVE  LET x == pk'[(pt' + j) % B]
             IN  (x.dd <=> j < k + 1) /\ (j < k + 1 => x.pkt = (polled' + j) % Ids)
  <2>1. CASE j = k
    <3>1. pk'[ph] = [dd |-> TRUE, pkt |-> (polled + k) % Ids]
      BY <1>3, <1>5 DEF InLine, KeptAre
    <3> QED BY <1>1, <1>2, <2>1, <3>1
  <2>2. CASE j # k
    <3>1. (pt + j) % B # ph /\ (pt + j) % B \in 0 .. B - 1
      BY <1>1, <1>2, <1>4, <2>2
    <3>2. pk'[(pt' + j) % B] = pk[(pt + j) % B]
      BY <3>1 DEF InLine, KeptAre
    <3>3. j < k + 1 <=> j < k
      BY <1>1, <2>2
    <3> QED BY <3>2, <3>3 DEF InLine, KeptAre
  <2> QED BY <2>1, <2>2
<1>8. KeptAre(k + 1)'
  BY <1>2, <1>5, <1>6, <1>7 DEF KeptAre
<1>9. arrived' = (polled' + (k + 1) + (f - 1)) % Ids
  <2>1. polled' + (k + 1) + (f - 1) = polled + k + f
    BY <1>1, <1>2
  <2> QED BY <1>3, <2>1 DEF InLine, FilledAre
<1>10. \A j \in 1 .. f - 1 : polled' + (k + 1) + j - 1 = polled + k + 1 + j - 1
  BY <1>1, <1>2
<1>11. FilledAre(k + 1, f - 1)'
  BY <1>2, <1>3, <1>9, <1>10 DEF FilledAre
<1> QED BY <1>3, <1>4, <1>8, <1>11 DEF InLine
\* the card fills the next descriptor
LEMMA Fill ==
  ASSUME NEW k \in 0 .. RECV_BUFFER_NUM, NEW f \in 0 .. RXDESCS - 1, InLine(k, f), RingType, Arrives
  PROVE  f + 1 \in 0 .. RXDESCS - 1 /\ InLine(k, f + 1)'
<1> DEFINE R == RXDESCS
<1>1. /\ RECV_BUFFER_NUM \in Nat \ {0} /\ Ids \in Nat \ {0} /\ Ids >= R + RECV_BUFFER_NUM
      /\ R \in Nat \ {0} /\ rdh \in 0 .. R - 1 /\ rdt \in 0 .. R - 1
  BY NetAssumption DEF RingType, Slots
<1>2. /\ rdh # rdt /\ rdt' = rdt /\ rdh' = Succ(rdh, R) /\ arrived' = Succ(arrived, Ids)
      /\ rx_desc_array' = [rx_desc_array EXCEPT ![rdh] = [dd |-> TRUE, pkt |-> arrived]]
      /\ UNCHANGED <<ph, pt, pk, polled>>
  BY DEF Arrives, rxSoft
<1>3. rdh = (rdt + 1 + f) % R /\ polled \in 0 .. Ids - 1 /\ arrived = (polled + k + f) % Ids
  BY DEF InLine, FilledAre
<1>4. f + 1 \in 0 .. R - 1
  <2>1. CASE f = R - 1
    <3>1. (rdt + 1 + f) % R = rdt
      BY <1>1, <2>1
    <3> QED BY <1>2, <1>3, <3>1
  <2> QED BY <1>1, <2>1
<1>5. rdh' = (rdt' + 1 + (f + 1)) % R
  BY <1>1, <1>2, <1>3, <1>4 DEF Succ
<1>6. arrived' = (polled' + k + (f + 1)) % Ids
  <2>1. k + f \in 0 .. Ids - 1
    BY <1>1
  <2>2. polled + k + f = polled + (k + f) /\ polled + k + (f + 1) = polled + (k + f) + 1
    BY <1>1, <1>3
  <2>3. Succ((polled + (k + f)) % Ids, Ids) = (polled + (k + f) + 1) % Ids
    <3> HIDE <1>3
    <3>1. polled \in 0 .. Ids - 1
      BY <1>3
    <3> QED BY <1>1, <2>1, <3>1 DEF Succ
  <2> QED BY <1>2, <1>3, <2>2, <2>3
<1>7. ASSUME NEW j \in 1 .. f + 1
      PROVE  rx_desc_array'[(rdt' + j) % R].pkt = (polled' + k + j - 1) % Ids
  <2>1. CASE j = f + 1
    <3>1. rdt + j = rdt + 1 + f /\ polled + k + j - 1 = polled + k + f
      BY <1>1, <1>3, <2>1
    <3>2. rx_desc_array'[rdh].pkt = arrived
      BY <1>1, <1>2 DEF RingType, Slots
    <3> QED BY <1>2, <1>3, <3>1, <3>2
  <2>2. CASE j # f + 1
    <3>1. j \in 1 .. f
      BY <1>1, <2>2
    <3>2. (rdt + j) % R # rdh /\ (rdt + j) % R \in 0 .. R - 1
      BY <1>1, <1>3, <1>4, <3>1
    <3>3. rx_desc_array'[(rdt' + j) % R] = rx_desc_array[(rdt + j) % R]
      BY <1>2, <3>2 DEF RingType, Slots
    <3> QED BY <1>2, <3>1, <3>3 DEF InLine, FilledAre
  <2> QED BY <2>1, <2>2
<1>8. FilledAre(k, f + 1)'
  BY <1>2, <1>3, <1>5, <1>6, <1>7 DEF FilledAre
<1>9. KeptAre(k)'
  BY <1>2 DEF InLine, KeptAre
<1> QED BY <1>4, <1>8, <1>9 DEF InLine

\* one poll, of the packets kept or of the ring
LEMMA PollInLine ==
  ASSUME IInv, OInv, Found, poll, UNCHANGED ph
  PROVE  OInv'
<1>1. PICK c \in Counts : InLine(c[1], c[2])
  BY DEF OInv
<1> DEFINE k == c[1]  f == c[2]
<1>2. k \in 0 .. RECV_BUFFER_NUM /\ f \in 0 .. RXDESCS - 1
  BY DEF Counts
<1>3. pk[pt].dd <=> k > 0
  <2>1. 0 \in 0 .. RECV_BUFFER_NUM - 1 /\ (pt + 0) % RECV_BUFFER_NUM = pt
    BY <1>1, NetAssumption DEF InLine, KeptAre
  <2>2. pk[(pt + 0) % RECV_BUFFER_NUM].dd <=> 0 < k
    BY <1>1, <2>1 DEF InLine, KeptAre
  <2> QED BY <1>2, <2>1, <2>2
<1>4. CASE k > 0
  <2>1. k \in 1 .. RECV_BUFFER_NUM
    BY <1>2, <1>4
  <2>2. /\ polled' = Succ(polled, Ids) /\ pk' = [pk EXCEPT ![pt] = Vacant]
        /\ pt' = Succ(pt, RECV_BUFFER_NUM) /\ UNCHANGED rxRing
    BY <1>3, <1>4 DEF poll
  <2>3. InLine(k - 1, f)'
    BY <1>1, <1>2, <2>1, <2>2, TakeKept
  <2>4. <<k - 1, f>> \in Counts
    BY <1>2, <2>1, NetAssumption DEF Counts
  <2> QED BY <2>3, <2>4 DEF OInv
<1>5. CASE k = 0
  <2>1. InRing /\ e1000_poll /\ polled' = Succ(polled, Ids) /\ UNCHANGED <<pk, pt, ph>>
    BY <1>3, <1>5 DEF Found, poll
  <2>2. InLine(0, f)
    BY <1>1, <1>5
  <2>3. f > 0 /\ InLine(0, f - 1)'
    BY <1>2, <2>1, <2>2, TakeFilled DEF IInv
  <2>4. <<0, f - 1>> \in Counts
    BY <1>2, <2>3, NetAssumption DEF Counts
  <2> QED BY <2>3, <2>4 DEF OInv
<1> QED BY <1>2, <1>4, <1>5

LEMMA StillInLine ==
  ASSUME OInv, UNCHANGED <<rxRing, pk, pt, ph, polled>>
  PROVE  OInv'
<1>1. PICK c \in Counts : InLine(c[1], c[2])
  BY DEF OInv
<1>2. InLine(c[1], c[2])'
  BY <1>1 DEF InLine, KeptAre, FilledAre, rxRing
<1> QED BY <1>2 DEF OInv

LEMMA InLineFirst == Init => OInv
<1> SUFFICES ASSUME Init PROVE OInv
  OBVIOUS
<1>1. <<0, 0>> \in Counts
  BY NetAssumption DEF Counts
<1>2. KeptAre(0)
  <2>1. 0 % RECV_BUFFER_NUM = 0 /\ 0 \in 0 .. RECV_BUFFER_NUM - 1 /\ pt = 0 /\ ph = 0
        /\ pk = [i \in 0 .. RECV_BUFFER_NUM - 1 |-> Vacant]
    BY NetAssumption DEF Init
  <2>2. ASSUME NEW j \in 0 .. RECV_BUFFER_NUM - 1 PROVE ~ pk[(pt + j) % RECV_BUFFER_NUM].dd /\ ~ (j < 0)
    <3>1. (0 + j) % RECV_BUFFER_NUM = j
      BY NetAssumption
    <3> QED BY <2>1, <3>1 DEF Vacant
  <2>3. pk = [i \in 0 .. RECV_BUFFER_NUM - 1 |-> pk[i]] /\ ph = (pt + 0) % RECV_BUFFER_NUM
    BY <2>1
  <2> QED BY <2>1, <2>2, <2>3 DEF KeptAre
<1>3. FilledAre(0, 0)
  <2>1. (RXDESCS - 1 + 1 + 0) % RXDESCS = 0 /\ (0 + 0 + 0) % Ids = 0
    BY NetAssumption
  <2> QED BY <2>1, NetAssumption DEF Init, FilledAre
<1> QED BY <1>1, <1>2, <1>3 DEF OInv, InLine

LEMMA InLineAlways == IInv /\ OInv /\ [Next]_vars => OInv'
<1> SUFFICES ASSUME IInv, OInv, [Next]_vars PROVE OInv'
  OBVIOUS
<1>1. CASE Arrives
  <2>1. PICK c \in Counts : InLine(c[1], c[2])
    BY DEF OInv
  <2>2. c[1] \in 0 .. RECV_BUFFER_NUM /\ c[2] \in 0 .. RXDESCS - 1
    BY DEF Counts
  <2>3. c[2] + 1 \in 0 .. RXDESCS - 1 /\ InLine(c[1], c[2] + 1)'
    BY <1>1, <2>1, <2>2, Fill DEF IInv
  <2>4. <<c[1], c[2] + 1>> \in Counts
    BY <2>2, <2>3 DEF Counts
  <2> QED BY <2>3, <2>4 DEF OInv
<1>2. CASE TakePacket
  BY <1>2, PollInLine DEF TakePacket
<1>3. CASE EndsSatisfied
  <2>1. CASE Found
    BY <1>3, <2>1, PollInLine DEF EndsSatisfied
  <2>2. CASE ~ Found
    BY <1>3, <2>2, StillInLine DEF EndsSatisfied
  <2> QED BY <2>1, <2>2
<1>4. CASE KeepPacket
  <2>1. CASE ~ pk[ph].dd /\ InRing
    <3>1. PICK c \in Counts : InLine(c[1], c[2])
      BY DEF OInv
    <3>2. c[1] \in 0 .. RECV_BUFFER_NUM /\ c[2] \in 0 .. RXDESCS - 1
      BY DEF Counts
    <3>3. c[1] < RECV_BUFFER_NUM /\ c[2] > 0 /\ InLine(c[1] + 1, c[2] - 1)'
      BY <1>4, <2>1, <3>1, <3>2, Keep DEF KeepPacket, IInv
    <3>4. <<c[1] + 1, c[2] - 1>> \in Counts
      BY <3>2, <3>3, NetAssumption DEF Counts
    <3> QED BY <3>3, <3>4 DEF OInv
  <2>2. CASE ~ (~ pk[ph].dd /\ InRing)
    BY <1>4, <2>2, StillInLine DEF KeepPacket
  <2> QED BY <2>1, <2>2
<1>5. CASE Transmits \/ EndsWaiting \/ HandleTXQE \/ handle_irq_ext
  BY <1>5, StillInLine DEF Transmits, EndsWaiting, HandleTXQE, handle_irq_ext, rxSoft
<1>6. CASE \E p \in Receivers : do_net_recv(p)
  BY <1>6, StillInLine DEF do_net_recv, rxSoft
<1>7. CASE (\E p \in Senders : do_net_send(p)) \/ \E p \in Procs : do_kill(p)
  BY <1>7, StillInLine DEF do_net_send, do_kill, rxSoft
<1>8. CASE UNCHANGED vars
  BY <1>8, StillInLine DEF vars, rxSoft
<1> QED BY <1>1, <1>2, <1>3, <1>4, <1>5, <1>6, <1>7, <1>8 DEF Next, Loops
LEMMA SeqIs ==
  ASSUME NEW S, NEW n \in Nat
  PROVE  /\ \A g \in [1 .. n -> S] : g \in Seq(S) /\ Len(g) = n
         /\ \A s \in Seq(S) : Len(s) = n => s = [i \in 1 .. n |-> s[i]]
OBVIOUS

\* what the sequences of ReceivesInOrder are
LEMMA LineIs ==
  ASSUME NEW k \in 0 .. RECV_BUFFER_NUM, NEW f \in 0 .. RXDESCS - 1, InLine(k, f), RingType
  PROVE  /\ Kept = [i \in 1 .. k |-> (polled + i - 1) % Ids]
         /\ Filled = [i \in 1 .. f |-> (polled + k + i - 1) % Ids]
         /\ Numbers(polled, arrived) = [i \in 1 .. k + f |-> (polled + i - 1) % Ids]
<1> DEFINE B == RECV_BUFFER_NUM
           R == RXDESCS
<1>1. /\ B \in Nat \ {0} /\ Ids \in Nat \ {0} /\ Ids >= R + B /\ R \in Nat \ {0}
      /\ rdh \in 0 .. R - 1 /\ rdt \in 0 .. R - 1
  BY NetAssumption DEF RingType, Slots
<1>2. /\ pt \in 0 .. B - 1 /\ polled \in 0 .. Ids - 1 /\ ph = (pt + k) % B
      /\ rdh = (rdt + 1 + f) % R /\ arrived = (polled + k + f) % Ids
  BY DEF InLine, KeptAre, FilledAre
<1>3. Kept = [i \in 1 .. k |-> (polled + i - 1) % Ids]
  <2>1. pk[pt].dd <=> k > 0
    <3>1. (pt + 0) % B = pt /\ 0 \in 0 .. B - 1
      BY <1>1, <1>2
    <3>2. pk[(pt + 0) % B].dd <=> 0 < k
      BY <3>1 DEF InLine, KeptAre
    <3> QED BY <1>1, <3>1, <3>2
  <2>2. (IF pk[pt].dd /\ pt = ph THEN B ELSE (ph - pt + B) % B) = k
    <3>1. k \in 0 .. B
      OBVIOUS
    <3>2. CASE k = 0 \/ k = B
      BY <1>1, <1>2, <2>1, <3>2
    <3>3. CASE k > 0 /\ k < B
      <4>1. ph # pt /\ (ph - pt = k \/ ph - pt = k - B)
        BY <1>1, <1>2, <3>3
      <4>2. k % B = k /\ (k + B) % B = k
        BY <1>1, <3>3
      <4>3. ph - pt + B = k + B \/ ph - pt + B = k
        BY <1>1, <1>2, <4>1
      <4> QED BY <4>1, <4>2, <4>3
    <3> QED BY <1>1, <3>1, <3>2, <3>3
  <2>3. ASSUME NEW i \in 1 .. k PROVE pk[(pt + i - 1) % B].pkt = (polled + i - 1) % Ids
    <3>1. i - 1 \in 0 .. B - 1 /\ i - 1 < k /\ pt + (i - 1) = pt + i - 1 /\ polled + (i - 1) = polled + i - 1
      BY <1>1, <1>2
    <3>2. pk[(pt + (i - 1)) % B].pkt = (polled + (i - 1)) % Ids
      BY <3>1 DEF InLine, KeptAre
    <3> QED BY <3>1, <3>2
  <2> QED BY <2>2, <2>3 DEF Kept
<1>4. Filled = [i \in 1 .. f |-> (polled + k + i - 1) % Ids]
  <2>1. (rdh - rdt - 1 + R) % R = f
    <3>1. rdh - rdt - 1 = f \/ rdh - rdt - 1 = f - R
      BY <1>1, <1>2
    <3>2. f % R = f /\ (f + R) % R = f
      BY <1>1
    <3>3. rdh - rdt - 1 + R = f + R \/ rdh - rdt - 1 + R = f
      BY <1>1, <1>2, <3>1
    <3> QED BY <3>2, <3>3
  <2> QED BY <2>1 DEF Filled, InLine, FilledAre
<1>5. Numbers(polled, arrived) = [i \in 1 .. k + f |-> (polled + i - 1) % Ids]
  <2> DEFINE n == k + f
  <2>1. n \in 0 .. Ids - 1 /\ arrived = (polled + n) % Ids
    <3>1. polled + k + f = polled + n /\ n \in 0 .. Ids - 1
      BY <1>1, <1>2
    <3> QED BY <1>2, <3>1
  <2> HIDE DEF n
  <2>2. (arrived - polled + Ids) % Ids = n
    <3>1. arrived - polled = n \/ arrived - polled = n - Ids
      BY <1>1, <1>2, <2>1
    <3>2. n % Ids = n /\ (n + Ids) % Ids = n
      BY <1>1, <2>1
    <3>3. arrived - polled + Ids = n + Ids \/ arrived - polled + Ids = n
      BY <1>1, <1>2, <2>1, <3>1
    <3> QED BY <3>2, <3>3
  <2> QED BY <2>2 DEF Numbers, n
<1> QED BY <1>3, <1>4, <1>5

(***************************************************************************)
(* However calls, interrupts and the card interleave, programs get the     *)
(* packets in the order they arrived in, none twice and none left out: the *)
(* kernel's buffer and the ring are one queue.                             *)
(***************************************************************************)
THEOREM PacketsInOrder == Spec => []ReceivesInOrder
<1>1. ASSUME IInv, OInv PROVE ReceivesInOrder
  <2>1. PICK c \in Counts : InLine(c[1], c[2])
    BY <1>1 DEF OInv
  <2> DEFINE k == c[1]
             f == c[2]
             S == 0 .. Ids - 1
  <2>2. k \in 0 .. RECV_BUFFER_NUM /\ f \in 0 .. RXDESCS - 1
    BY DEF Counts
  <2>3. /\ Kept = [i \in 1 .. k |-> (polled + i - 1) % Ids]
        /\ Filled = [i \in 1 .. f |-> (polled + k + i - 1) % Ids]
        /\ Numbers(polled, arrived) = [i \in 1 .. k + f |-> (polled + i - 1) % Ids]
    BY <1>1, <2>1, <2>2, LineIs DEF IInv
  <2>4. polled \in Nat /\ Ids \in Nat \ {0} /\ k \in Nat /\ f \in Nat
    BY <2>1, <2>2, NetAssumption DEF InLine, FilledAre
  <2> HIDE DEF k, f
  <2>5. Kept \in Seq(S) /\ Filled \in Seq(S) /\ Len(Kept) = k /\ Len(Filled) = f
    <3>1. /\ \A i \in 1 .. k : (polled + i - 1) % Ids \in S
          /\ \A i \in 1 .. f : (polled + k + i - 1) % Ids \in S
      BY <2>4
    <3> HIDE DEF S
    <3>2. [i \in 1 .. k |-> (polled + i - 1) % Ids] \in [1 .. k -> S]
          /\ [i \in 1 .. f |-> (polled + k + i - 1) % Ids] \in [1 .. f -> S]
      BY <2>4, <3>1
    <3> QED BY <2>3, <2>4, <3>2, SeqIs
  <2>6. ASSUME NEW i \in 1 .. k + f PROVE (Kept \o Filled)[i] = (polled + i - 1) % Ids
    <3>1. CASE i <= k
      <4>1. (Kept \o Filled)[i] = Kept[i] /\ i \in 1 .. k
        BY <2>4, <2>5, <3>1
      <4> QED BY <2>3, <4>1
    <3>2. CASE i > k
      <4>1. (Kept \o Filled)[i] = Filled[i - k] /\ i - k \in 1 .. f
        BY <2>4, <2>5, <3>2
      <4>2. polled + k + (i - k) - 1 = polled + i - 1
        BY <2>4
      <4> QED BY <2>3, <4>1, <4>2
    <3>3. i <= k \/ i > k
      BY <2>4
    <3> QED BY <3>1, <3>2, <3>3
  <2>7. Kept \o Filled = [i \in 1 .. k + f |-> (Kept \o Filled)[i]]
    <3> DEFINE g == Kept \o Filled
    <3>1. g \in Seq(S) /\ Len(g) = k + f /\ k + f \in Nat
      BY <2>4, <2>5
    <3> HIDE DEF g, S
    <3>2. g = [i \in 1 .. k + f |-> g[i]]
      BY <3>1, SeqIs
    <3> QED BY <3>2 DEF g
  <2> QED BY <2>3, <2>6, <2>7 DEF ReceivesInOrder, k, f
<1>2. Spec => []IInv
  BY Initially, Inductive, PTL DEF Spec
<1>3. Spec => []OInv
  BY <1>2, InLineFirst, InLineAlways, PTL DEF Spec
<1> QED BY <1>1, <1>2, <1>3, PTL

-----------------------------------------------------------------------------
(***************************************************************************)
(* The bytes of packets one after the other: Bytes and Bias unfold from    *)
(* one packet to the next.                                                 *)
(***************************************************************************)
Block(x) == [k \in 1 .. x |-> x]

Sizes == {1, 2}

\* c[n] are the bytes of the first n packets
Catenates(c, lens) ==
  c = [n \in 0 .. Len(lens) |-> IF n = 0 THEN <<>> ELSE c[n - 1] \o Block(lens[n])]

Unrolled(c, lens, m) ==
  /\ c \in [0 .. m -> Seq(Sizes)] /\ c[0] = <<>>
  /\ \A n \in 1 .. m : c[n] = c[n - 1] \o Block(lens[n])

LEMMA BlockIs ==
  ASSUME NEW x \in Sizes
  PROVE  Block(x) \in Seq(Sizes) /\ Len(Block(x)) = x /\ \A k \in 1 .. x : Block(x)[k] = x
<1>1. x \in Nat /\ Block(x) \in [1 .. x -> Sizes]
  BY DEF Block, Sizes
<1> QED BY <1>1, SeqIs DEF Block

LEMMA CatExists ==
  ASSUME NEW lens \in Seq(Sizes)
  PROVE  \E c : Unrolled(c, lens, Len(lens))
<1> DEFINE A == {m \in Nat : m <= Len(lens) => \E c : Unrolled(c, lens, m)}
<1>1. 0 \in A
  <2> DEFINE c == [n \in 0 .. 0 |-> <<>>]
  <2>1. Unrolled(c, lens, 0)
    BY DEF Unrolled
  <2> QED BY <2>1
<1>2. ASSUME NEW m \in Nat, m \in A PROVE m + 1 \in A
  <2> SUFFICES ASSUME m + 1 <= Len(lens) PROVE \E c : Unrolled(c, lens, m + 1)
    OBVIOUS
  <2>1. PICK c : Unrolled(c, lens, m)
    BY <1>2
  <2> DEFINE b == c[m] \o Block(lens[m + 1])
             d == [n \in 0 .. m + 1 |-> IF n = m + 1 THEN b ELSE c[n]]
  <2>2. c[m] \in Seq(Sizes) /\ Block(lens[m + 1]) \in Seq(Sizes)
    <3>1. lens[m + 1] \in Sizes
      OBVIOUS
    <3> QED BY <2>1, <3>1, BlockIs DEF Unrolled
  <2>3. b \in Seq(Sizes)
    BY <2>2
  <2> HIDE DEF b
  <2>4. d \in [0 .. m + 1 -> Seq(Sizes)] /\ d[0] = <<>>
    BY <2>1, <2>3 DEF Unrolled
  <2>5. ASSUME NEW n \in 1 .. m + 1 PROVE d[n] = d[n - 1] \o Block(lens[n])
    <3>1. CASE n = m + 1
      <4>1. d[n] = b /\ d[n - 1] = c[m]
        BY <3>1
      <4> QED BY <3>1, <4>1 DEF b
    <3>2. CASE n # m + 1
      <4>1. n \in 1 .. m /\ d[n] = c[n] /\ d[n - 1] = c[n - 1]
        BY <3>2
      <4> QED BY <2>1, <4>1 DEF Unrolled
    <3> QED BY <3>1, <3>2
  <2> HIDE DEF d
  <2>6. Unrolled(d, lens, m + 1)
    BY <2>4, <2>5 DEF Unrolled
  <2> QED BY <2>6
<1>3. Nat \subseteq A
  <2> HIDE DEF A
  <2> QED BY <1>1, <1>2, Induct
<1> QED BY <1>3

\* Bytes is the last of the c[n], and they are determined by the packets
LEMMA BytesIs ==
  ASSUME NEW lens \in Seq(Sizes)
  PROVE  \E c : Unrolled(c, lens, Len(lens)) /\ Bytes(lens) = c[Len(lens)]
<1> DEFINE m == Len(lens)
<1>1. PICK d : Unrolled(d, lens, m)
  BY CatExists
<1>2. Catenates(d, lens)
  <2>1. d = [n \in 0 .. m |-> d[n]]
    BY <1>1 DEF Unrolled
  <2>2. \A n \in 0 .. m : d[n] = IF n = 0 THEN <<>> ELSE d[n - 1] \o Block(lens[n])
    <3> TAKE n \in 0 .. m
    <3>1. CASE n = 0
      BY <1>1, <3>1 DEF Unrolled
    <3>2. CASE n # 0
      <4>1. n \in 1 .. m
        BY <3>2
      <4> QED BY <1>1, <3>2, <4>1 DEF Unrolled
    <3> QED BY <3>1, <3>2
  <2> QED BY <2>1, <2>2 DEF Catenates
<1> DEFINE c == CHOOSE e : Catenates(e, lens)
<1>3. Bytes(lens) = c[m]
  BY Zenon DEF Bytes, Catenates, Block
<1>4. Catenates(c, lens)
  BY <1>2, Zenon
<1> HIDE DEF c
<1>5. c[0] = <<>> /\ \A n \in 1 .. m : c[n] = c[n - 1] \o Block(lens[n])
  <2> DEFINE F(n) == IF n = 0 THEN <<>> ELSE c[n - 1] \o Block(lens[n])
  <2>1. c = [n \in 0 .. m |-> F(n)]
    BY <1>4 DEF Catenates
  <2> HIDE DEF F
  <2>2. \A n \in 0 .. m : c[n] = F(n)
    BY <2>1
  <2>3. F(0) = <<>> /\ \A n \in 1 .. m : F(n) = c[n - 1] \o Block(lens[n])
    <3>1. F(0) = <<>>
      BY DEF F
    <3>2. ASSUME NEW n \in 1 .. m PROVE F(n) = c[n - 1] \o Block(lens[n])
      <4>1. n # 0
        OBVIOUS
      <4> QED BY <4>1, Zenon DEF F
    <3> QED BY <3>1, <3>2
  <2>4. 0 \in 0 .. m /\ \A n \in 1 .. m : n \in 0 .. m
    OBVIOUS
  <2> QED BY <2>2, <2>3, <2>4, Zenon
<1> DEFINE A == {n \in Nat : n <= m => c[n] = d[n]}
<1>6. Nat \subseteq A
  <2>1. 0 \in A
    BY <1>1, <1>5 DEF Unrolled
  <2>2. ASSUME NEW n \in Nat, n \in A PROVE n + 1 \in A
    <3> SUFFICES ASSUME n + 1 <= m PROVE c[n + 1] = d[n + 1]
      OBVIOUS
    <3>1. n + 1 \in 1 .. m /\ (n + 1) - 1 = n /\ c[n] = d[n]
      BY <2>2
    <3> QED BY <1>1, <1>5, <3>1 DEF Unrolled
  <2> HIDE DEF A
  <2> QED BY <2>1, <2>2, Induct
<1>7. c[m] = d[m]
  BY <1>6
<1> QED BY <1>1, <1>3, <1>7

\* a packet after s
LEMMA ThenBlock ==
  ASSUME NEW s \in Seq(Sizes), NEW x \in Sizes
  PROVE  /\ s \o Block(x) \in Seq(Sizes) /\ Len(s \o Block(x)) = Len(s) + x
         /\ x \in Nat /\ x <= 2 /\ Len(s) \in Nat
         /\ \A k \in 1 .. Len(s) : (s \o Block(x))[k] = s[k]
         /\ \A k \in Len(s) + 1 .. Len(s) + x : (s \o Block(x))[k] = x
<1>1. Block(x) \in Seq(Sizes) /\ Len(Block(x)) = x /\ \A k \in 1 .. x : Block(x)[k] = x
  BY BlockIs
<1>2. x \in Nat /\ x <= 2
  BY DEF Sizes
<1> DEFINE b == Block(x)
<1> HIDE DEF b
<1>3. b \in Seq(Sizes) /\ Len(b) = x /\ \A k \in 1 .. x : b[k] = x
  BY <1>1 DEF b
<1>4. s \o b \in Seq(Sizes) /\ Len(s \o b) = Len(s) + x /\ Len(s) \in Nat
  BY <1>2, <1>3
<1>5. \A k \in 1 .. Len(s) : (s \o b)[k] = s[k]
  BY <1>2, <1>3
<1>6. ASSUME NEW k \in Len(s) + 1 .. Len(s) + x PROVE (s \o b)[k] = x
  <2>1. k - Len(s) \in 1 .. x /\ (s \o b)[k] = b[k - Len(s)]
    BY <1>2, <1>3
  <2> QED BY <1>3, <2>1
<1> QED BY <1>2, <1>4, <1>5, <1>6 DEF b

\* what is left of another sequence is no concern of the first packets
LEMMA SameStart ==
  ASSUME NEW s, NEW t, NEW c, NEW d, NEW m \in Nat, NEW k \in Nat, m <= k,
         Unrolled(c, s, m), Unrolled(d, t, k), \A n \in 1 .. m : s[n] = t[n]
  PROVE  \A n \in 0 .. m : c[n] = d[n]
<1> DEFINE A == {n \in Nat : n <= m => c[n] = d[n]}
<1>1. 0 \in A
  BY DEF Unrolled
<1>2. ASSUME NEW n \in Nat, n \in A PROVE n + 1 \in A
  <2> SUFFICES ASSUME n + 1 <= m PROVE c[n + 1] = d[n + 1]
    OBVIOUS
  <2>1. n + 1 \in 1 .. m /\ n + 1 \in 1 .. k /\ (n + 1) - 1 = n /\ c[n] = d[n]
    BY <1>2
  <2>2. c[n + 1] = c[n] \o Block(s[n + 1])
    BY <2>1 DEF Unrolled
  <2>3. d[n + 1] = d[n] \o Block(t[n + 1])
    BY <2>1 DEF Unrolled
  <2> QED BY <2>1, <2>2, <2>3, Zenon
<1>3. Nat \subseteq A
  <2> HIDE DEF A
  <2> QED BY <1>1, <1>2, Induct
<1> QED BY <1>3

\* one packet more
LEMMA BytesAppend ==
  ASSUME NEW lens \in Seq(Sizes), NEW x \in Sizes
  PROVE  Bytes(Append(lens, x)) = Bytes(lens) \o Block(x)
<1> DEFINE m == Len(lens)
           more == Append(lens, x)
<1>1. more \in Seq(Sizes) /\ Len(more) = m + 1 /\ more[m + 1] = x /\ m \in Nat
      /\ \A n \in 1 .. m : lens[n] = more[n]
  OBVIOUS
<1>2. PICK c : Unrolled(c, lens, m) /\ Bytes(lens) = c[m]
  BY BytesIs
<1> HIDE DEF more, m
<1>3. PICK d : Unrolled(d, more, m + 1) /\ Bytes(more) = d[m + 1]
  BY <1>1, BytesIs
<1>4. \A n \in 0 .. m : c[n] = d[n]
  <2>1. m + 1 \in Nat /\ m <= m + 1
    BY <1>1
  <2> QED BY <1>1, <1>2, <1>3, <2>1, SameStart
<1>5. d[m + 1] = d[m] \o Block(x)
  <2>1. m + 1 \in 1 .. m + 1 /\ (m + 1) - 1 = m
    BY <1>1
  <2> QED BY <1>1, <1>3, <2>1 DEF Unrolled
<1>6. c[m] = d[m]
  BY <1>1, <1>4
<1> QED BY <1>2, <1>3, <1>5, <1>6 DEF more

LEMMA BytesEmpty == Bytes(<<>>) = <<>>
<1>1. <<>> \in Seq(Sizes) /\ Len(<<>>) = 0
  OBVIOUS
<1> QED BY <1>1, BytesIs DEF Unrolled

LEMMA BytesType ==
  ASSUME NEW lens \in Seq(Sizes)
  PROVE  Bytes(lens) \in Seq(Sizes) /\ Len(Bytes(lens)) <= 2 * Len(lens)
<1> DEFINE m == Len(lens)
<1>1. PICK c : Unrolled(c, lens, m) /\ Bytes(lens) = c[m]
  BY BytesIs
<1>2. c \in [0 .. m -> Seq(Sizes)] /\ c[0] = <<>> /\ m \in Nat
  BY <1>1 DEF Unrolled
<1> DEFINE A == {n \in Nat : n <= m => Len(c[n]) <= 2 * n}
<1>3. 0 \in A
  BY <1>2
<1>4. ASSUME NEW n \in Nat, n \in A PROVE n + 1 \in A
  <2> SUFFICES ASSUME n + 1 <= m PROVE Len(c[n + 1]) <= 2 * (n + 1)
    OBVIOUS
  <2>1. n + 1 \in 1 .. m /\ (n + 1) - 1 = n /\ n \in 0 .. m /\ Len(c[n]) <= 2 * n
    BY <1>4
  <2>2. c[n + 1] = c[n] \o Block(lens[n + 1])
    BY <1>1, <2>1 DEF Unrolled
  <2>3. lens[n + 1] \in Sizes
    BY <2>1
  <2>4. c[n] \in Seq(Sizes)
    BY <1>2, <2>1
  <2> DEFINE x == lens[n + 1]
             s == c[n]
  <2> HIDE DEF x, s
  <2>5. Len(s \o Block(x)) = Len(s) + x /\ x \in Nat /\ x <= 2 /\ Len(s) \in Nat
    BY <2>3, <2>4, ThenBlock DEF x, s
  <2>6. Len(s \o Block(x)) <= 2 * (n + 1)
    BY <2>1, <2>5 DEF s
  <2> QED BY <2>2, <2>6 DEF x, s
<1>5. Nat \subseteq A
  <2> HIDE DEF A
  <2> QED BY <1>3, <1>4, Induct
<1> QED BY <1>1, <1>2, <1>5

\* update_net_recv adds up the packets it has already
LEMMA BiasIs ==
  ASSUME NEW p, NEW lens \in Seq(Sizes), net[p].lens = lens, net[p].curr_num = Len(lens)
  PROVE  Bias(p) = Len(Bytes(lens))
<1> DEFINE m == Len(lens)
<1>1. PICK c : Unrolled(c, lens, m) /\ Bytes(lens) = c[m]
  BY BytesIs
<1>2. c \in [0 .. m -> Seq(Sizes)] /\ c[0] = <<>> /\ m \in Nat
  BY <1>1 DEF Unrolled
<1> DEFINE Sums(e) == e = [n \in 0 .. m |-> IF n = 0 THEN 0 ELSE e[n - 1] + lens[n]]
           d == [n \in 0 .. m |-> Len(c[n])]
<1>3. ASSUME NEW n \in 1 .. m PROVE Len(c[n]) = Len(c[n - 1]) + lens[n]
  <2>1. c[n] = c[n - 1] \o Block(lens[n])
    BY <1>1 DEF Unrolled
  <2>2. lens[n] \in Sizes
    OBVIOUS
  <2>3. c[n - 1] \in Seq(Sizes)
    BY <1>2
  <2>4. Len(c[n - 1] \o Block(lens[n])) = Len(c[n - 1]) + lens[n]
    BY <2>2, <2>3, ThenBlock, Zenon
  <2> QED BY <2>1, <2>4, Zenon
<1>4. Sums(d)
  <2>1. ASSUME NEW n \in 0 .. m PROVE d[n] = IF n = 0 THEN 0 ELSE d[n - 1] + lens[n]
    <3>1. CASE n = 0
      BY <1>2, <3>1
    <3>2. CASE n # 0
      <4>1. n \in 1 .. m /\ n - 1 \in 0 .. m
        BY <3>2
      <4> QED BY <1>3, <3>2, <4>1
    <3> QED BY <3>1, <3>2
  <2>2. d = [n \in 0 .. m |-> d[n]]
    OBVIOUS
  <2> HIDE DEF d
  <2> QED BY <2>1, <2>2
<1> DEFINE e == CHOOSE g : Sums(g)
<1>5. Bias(p) = e[m]
  BY Zenon DEF Bias
<1>6. Sums(e)
  <2> HIDE DEF d
  <2> QED BY <1>4, Zenon
<1> HIDE DEF e, Sums
<1>7. e[0] = 0 /\ \A n \in 1 .. m : e[n] = e[n - 1] + lens[n]
  <2> DEFINE F(n) == IF n = 0 THEN 0 ELSE e[n - 1] + lens[n]
  <2>1. e = [n \in 0 .. m |-> F(n)]
    BY <1>6 DEF Sums
  <2>2. F(0) = 0
    OBVIOUS
  <2>3. ASSUME NEW n \in 1 .. m PROVE F(n) = e[n - 1] + lens[n]
    <3>1. n # 0
      OBVIOUS
    <3> QED BY <3>1, Zenon
  <2> HIDE DEF F
  <2>4. \A n \in 0 .. m : e[n] = F(n)
    BY <2>1
  <2>5. 0 \in 0 .. m /\ \A n \in 1 .. m : n \in 0 .. m
    BY <1>2
  <2> QED BY <2>2, <2>3, <2>4, <2>5, Zenon
<1> DEFINE A == {n \in Nat : n <= m => e[n] = Len(c[n])}
<1>8. Nat \subseteq A
  <2>1. 0 \in A
    BY <1>2, <1>7
  <2>2. ASSUME NEW n \in Nat, n \in A PROVE n + 1 \in A
    <3> SUFFICES ASSUME n + 1 <= m PROVE e[n + 1] = Len(c[n + 1])
      OBVIOUS
    <3>1. n + 1 \in 1 .. m /\ (n + 1) - 1 = n /\ e[n] = Len(c[n])
      BY <2>2
    <3> QED BY <1>3, <1>7, <3>1
  <2> HIDE DEF A
  <2> QED BY <2>1, <2>2, Induct
<1>9. e[m] = Len(c[m])
  BY <1>2, <1>8
<1> QED BY <1>1, <1>5, <1>9

-----------------------------------------------------------------------------
(***************************************************************************)
(* The buffers of the programs: p has the packets that are counted, and    *)
(* the handler at work for p, or else net[p], says how many.               *)
(***************************************************************************)
Calling == [mode : {"call", "irq"}, proc : Receivers, num : 0 .. MaxNum, i : 0 .. MaxNum,
            bias : Nat, txqe : BOOLEAN]

BufferType ==
  /\ net \in [Receivers -> [length : 0 .. MaxNum, curr_num : 0 .. MaxNum, lens : Seq(Sizes)]]
  /\ buffer \in [Receivers -> [Offsets -> Sizes \cup {0}]]
  /\ recv_block_queue \in Seq(Receivers)
  /\ InLoop => kernel \in Calling /\ kernel.i <= kernel.num

Holds(buf, lens) ==
  Len(lens) <= MaxNum /\ \A k \in 1 .. Len(Bytes(lens)) : buf[k - 1] = Bytes(lens)[k]

AtWork(p) == InLoop /\ kernel.proc = p

Counted(p) ==
  /\ AtWork(p) => kernel.i = Len(net[p].lens) /\ kernel.bias = Len(Bytes(net[p].lens))
  /\ ~ AtWork(p) => net[p].curr_num = Len(net[p].lens) /\ net[p].curr_num <= net[p].length
  /\ ~ AtWork(p) /\ ~ Waits(p) => net[p] = NoCall

PInv ==
  /\ BufferType
  /\ \A p \in Receivers : Holds(buffer[p], net[p].lens) /\ Counted(p)
  /\ kernel.mode = "irq" => recv_block_queue # <<>> /\ kernel.proc = Head(recv_block_queue)

\* the packet that poll finds is the first of the line
LEMMA OldestIs ==
  ASSUME IInv, OInv, Found
  PROVE  Size(Oldest) \in Sizes
<1>1. PICK c \in Counts : InLine(c[1], c[2])
  BY DEF OInv
<1>2. c[1] \in 0 .. RECV_BUFFER_NUM /\ c[2] \in 0 .. RXDESCS - 1 /\ polled \in 0 .. Ids - 1
  BY <1>1 DEF Counts, InLine, FilledAre
<1>3. Oldest \in Int
  <2>1. CASE pk[pt].dd
    <3>1. 0 \in 0 .. RECV_BUFFER_NUM - 1 /\ (pt + 0) % RECV_BUFFER_NUM = pt
      <4>1. pt \in 0 .. RECV_BUFFER_NUM - 1 /\ RECV_BUFFER_NUM \in Nat \ {0}
        BY <1>1, NetAssumption DEF InLine, KeptAre
      <4> QED BY <4>1
    <3>2. pk[pt].pkt = (polled + 0) % Ids
      BY <1>1, <2>1, <3>1 DEF InLine, KeptAre
    <3> QED BY <1>2, <2>1, <3>2, NetAssumption DEF Oldest
  <2>2. CASE ~ pk[pt].dd
    <3>1. InRing
      BY <2>2 DEF Found
    <3>2. rdt \in Slots /\ Succ(rdt, RXDESCS) \in Slots /\ Succ(rdt, RXDESCS) = (rdt + 1) % RXDESCS
      BY SuccIs, NetAssumption DEF IInv, RingType, Slots
    <3>3. Unread(Succ(rdt, RXDESCS))
      BY <3>1, <3>2 DEF IInv, Owned, InRing
    <3>4. rdh # (rdt + 1) % RXDESCS
      BY <3>2, <3>3, NetAssumption DEF IInv, RingType, Slots, Unread
    <3>5. c[2] # 0
      <4>1. rdh = (rdt + 1 + c[2]) % RXDESCS /\ (c[2] = 0 => rdt + 1 + c[2] = rdt + 1)
        BY <1>1, <1>2, <3>2, NetAssumption DEF InLine, FilledAre, Slots
      <4> QED BY <3>4, <4>1
    <3>6. 1 \in 1 .. c[2]
      BY <1>2, <3>5, NetAssumption
    <3>7. Received = (polled + c[1] + 1 - 1) % Ids
      BY <1>1, <3>2, <3>6 DEF InLine, FilledAre, Received
    <3> QED BY <1>2, <2>2, <3>7, NetAssumption DEF Oldest
  <2> QED BY <2>1, <2>2
<1> QED BY <1>3 DEF Size, Sizes

\* the next packet goes behind those that are there
LEMMA HoldsMore ==
  ASSUME NEW buf \in [Offsets -> Sizes \cup {0}], NEW lens \in Seq(Sizes), Holds(buf, lens),
         NEW x \in Sizes, Len(lens) < MaxNum,
         NEW new, new = [o \in Offsets |->
           IF o \in Len(Bytes(lens)) .. Len(Bytes(lens)) + x - 1 THEN x ELSE buf[o]]
  PROVE  Holds(new, Append(lens, x)) /\ new \in [Offsets -> Sizes \cup {0}]
<1> DEFINE b == Bytes(lens)
           more == Bytes(Append(lens, x))
<1>1. b \in Seq(Sizes) /\ Len(b) <= 2 * Len(lens) /\ more = b \o Block(x)
  BY BytesType, BytesAppend
<1>2. /\ Len(more) = Len(b) + x /\ x \in Nat /\ x <= 2 /\ Len(b) \in Nat
      /\ \A k \in 1 .. Len(b) : more[k] = b[k]
      /\ \A k \in Len(b) + 1 .. Len(b) + x : more[k] = x
  <2> HIDE DEF b, more
  <2>1. /\ Len(b \o Block(x)) = Len(b) + x /\ x \in Nat /\ x <= 2 /\ Len(b) \in Nat
        /\ \A k \in 1 .. Len(b) : (b \o Block(x))[k] = b[k]
        /\ \A k \in Len(b) + 1 .. Len(b) + x : (b \o Block(x))[k] = x
    BY <1>1, ThenBlock, Zenon
  <2> QED BY <1>1, <2>1, Zenon
<1>3. Len(lens) \in Nat /\ MaxNum \in Nat /\ Len(Append(lens, x)) = Len(lens) + 1
  BY NetAssumption
<1>4. \A k \in 1 .. Len(b) : buf[k - 1] = b[k]
  BY DEF Holds
<1> DEFINE l == Len(b)
<1>5. new = [o \in Offsets |-> IF o \in l .. l + x - 1 THEN x ELSE buf[o]]
  OBVIOUS
<1>6. l \in Nat /\ l <= 2 * Len(lens) /\ Len(more) = l + x
      /\ (\A k \in 1 .. l : more[k] = b[k] /\ buf[k - 1] = b[k])
      /\ \A k \in l + 1 .. l + x : more[k] = x
  BY <1>1, <1>2, <1>4
<1> HIDE DEF more, b, l
<1>7. ASSUME NEW k \in 1 .. Len(more) PROVE new[k - 1] = more[k]
  <2>1. k - 1 \in Offsets
    BY <1>2, <1>3, <1>6 DEF Offsets
  <2>2. CASE k <= l
    <3>1. k \in 1 .. l /\ k - 1 \notin l .. l + x - 1
      BY <1>2, <1>6, <2>2
    <3> QED BY <1>5, <1>6, <2>1, <3>1
  <2>3. CASE k > l
    <3>1. k \in l + 1 .. l + x /\ k - 1 \in l .. l + x - 1
      BY <1>2, <1>6, <2>3
    <3> QED BY <1>5, <1>6, <2>1, <3>1
  <2> QED BY <1>6, <2>2, <2>3
<1>8. new \in [Offsets -> Sizes \cup {0}]
  BY <1>5
<1> QED BY <1>3, <1>7, <1>8 DEF Holds, more

LEMMA TakeHolds ==
  ASSUME IInv, OInv, PInv, TakePacket
  PROVE  PInv'
<1> DEFINE p == kernel.proc
           x == Size(Oldest)
           lens == net[p].lens
<1>1. InLoop /\ Found /\ kernel.i < kernel.num
  BY DEF TakePacket
<1>2. x \in Sizes
  BY <1>1, OldestIs
<1>3. kernel \in Calling /\ kernel.i <= kernel.num /\ p \in Receivers
  BY <1>1 DEF PInv, BufferType, Calling
<1>4. /\ net \in [Receivers -> [length : 0 .. MaxNum, curr_num : 0 .. MaxNum, lens : Seq(Sizes)]]
      /\ buffer \in [Receivers -> [Offsets -> Sizes \cup {0}]]
      /\ recv_block_queue \in Seq(Receivers)
  BY DEF PInv, BufferType
<1>5. /\ lens \in Seq(Sizes) /\ Holds(buffer[p], lens) /\ kernel.i = Len(lens)
      /\ kernel.bias = Len(Bytes(lens)) /\ buffer[p] \in [Offsets -> Sizes \cup {0}]
  BY <1>1, <1>3, <1>4 DEF PInv, Counted, AtWork
<1>6. kernel.num \in 0 .. MaxNum /\ MaxNum \in Nat /\ kernel.i \in 0 .. MaxNum
  BY <1>3, NetAssumption DEF Calling
<1>7. /\ net' = [net EXCEPT ![p].lens = Append(SubSeq(@, 1, kernel.i), x)]
      /\ buffer' = [buffer EXCEPT ![p] = [o \in Offsets |->
           IF o \in kernel.bias .. kernel.bias + x - 1 THEN x ELSE @[o]]]
      /\ kernel' = [kernel EXCEPT !.i = @ + 1, !.bias = @ + x]
      /\ recv_block_queue' = recv_block_queue
  BY DEF TakePacket, Copied
<1> HIDE DEF x
<1>8. SubSeq(lens, 1, kernel.i) = lens
  BY <1>5
<1>9. net'[p].lens = Append(lens, x) /\ \A q \in Receivers : q # p => net'[q] = net[q]
  BY <1>3, <1>4, <1>7, <1>8
<1> DEFINE new == [o \in Offsets |->
                     IF o \in Len(Bytes(lens)) .. Len(Bytes(lens)) + x - 1 THEN x ELSE buffer[p][o]]
<1>10. buffer'[p] = new /\ \A q \in Receivers : q # p => buffer'[q] = buffer[q]
  BY <1>3, <1>4, <1>5, <1>7
<1>11. Holds(new, Append(lens, x)) /\ new \in [Offsets -> Sizes \cup {0}]
  <2>1. Len(lens) < MaxNum
    BY <1>1, <1>5, <1>6
  <2> HIDE DEF new, lens
  <2> QED BY <1>2, <1>5, <2>1, HoldsMore DEF new
<1> HIDE DEF new
<1>12. Append(lens, x) \in Seq(Sizes) /\ Len(Append(lens, x)) = kernel.i + 1
  BY <1>2, <1>5
<1>13. Len(Bytes(Append(lens, x))) = kernel.bias + x /\ x \in Nat
  <2>1. Bytes(lens) \in Seq(Sizes) /\ Bytes(Append(lens, x)) = Bytes(lens) \o Block(x)
    BY <1>2, <1>5, BytesType, BytesAppend
  <2>2. Len(Bytes(lens) \o Block(x)) = Len(Bytes(lens)) + x /\ x \in Nat
    BY <1>2, <2>1, ThenBlock, Zenon
  <2> QED BY <1>5, <2>1, <2>2
<1>14. /\ kernel' \in Calling /\ kernel'.i = kernel.i + 1 /\ kernel'.bias = kernel.bias + x
       /\ kernel'.num = kernel.num /\ kernel'.proc = p /\ kernel'.mode = kernel.mode
  <2>1. kernel.i + 1 \in 0 .. MaxNum /\ kernel.bias + x \in Nat
    BY <1>1, <1>3, <1>6, <1>13 DEF Calling
  <2> QED BY <1>3, <1>7, <2>1 DEF Calling
<1>15. InLoop' /\ \A q \in Receivers : (AtWork(q)' <=> AtWork(q)) /\ (AtWork(q) <=> q = p) /\ (Waits(q)' <=> Waits(q))
  BY <1>1, <1>7, <1>14 DEF AtWork, InLoop, Waits
<1>16. BufferType'
  <2>1. net' \in [Receivers -> [length : 0 .. MaxNum, curr_num : 0 .. MaxNum, lens : Seq(Sizes)]]
    <3>1. SubSeq(lens, 1, kernel.i) = lens
      BY <1>8
    <3> QED BY <1>3, <1>4, <1>7, <1>8, <1>12
  <2>2. buffer' \in [Receivers -> [Offsets -> Sizes \cup {0}]]
    <3>1. buffer' = [buffer EXCEPT ![p] = new]
      BY <1>3, <1>4, <1>5, <1>7 DEF new
    <3> QED BY <1>3, <1>4, <1>11, <3>1
  <2>3. kernel'.i <= kernel'.num
    BY <1>1, <1>6, <1>14
  <2> QED BY <1>4, <1>7, <1>14, <2>1, <2>2, <2>3 DEF BufferType
<1>17. ASSUME NEW q \in Receivers
       PROVE  Holds(buffer[q], net[q].lens)' /\ Counted(q)'
  <2>1. CASE q = p
    <3>1. Counted(q)'
      BY <1>9, <1>12, <1>13, <1>14, <1>15, <2>1 DEF Counted
    <3>2. Holds(buffer'[q], net'[q].lens)
      BY <1>9, <1>10, <1>11, <2>1
    <3>3. Holds(buffer[q], net[q].lens)'
      BY <3>2 DEF Holds, Bytes
    <3> QED BY <3>1, <3>3
  <2>2. CASE q # p
    <3>1. Holds(buffer[q], net[q].lens) /\ Counted(q) /\ net'[q] = net[q] /\ buffer'[q] = buffer[q]
      BY <1>9, <1>10, <2>2 DEF PInv
    <3>2. Counted(q)'
      BY <1>15, <2>2, <3>1 DEF Counted
    <3>3. Holds(buffer[q], net[q].lens)'
      BY <3>1 DEF Holds
    <3> QED BY <3>2, <3>3
  <2> QED BY <2>1, <2>2
<1> QED BY <1>7, <1>14, <1>16, <1>17 DEF PInv

\* a program that no handler works for keeps what it has
LEMMA Apart ==
  ASSUME NEW q \in Receivers, Holds(buffer[q], net[q].lens), Counted(q), ~AtWork(q), ~AtWork(q)',
         net'[q] = net[q], buffer'[q] = buffer[q], Waits(q) => Waits(q)'
  PROVE  Holds(buffer[q], net[q].lens)' /\ Counted(q)'
<1>1. Holds(buffer[q], net[q].lens)'
  BY DEF Holds
<1>2. Counted(q)'
  BY DEF Counted
<1> QED BY <1>1, <1>2

\* a program without a call has an empty buffer
LEMMA BlankHolds ==
  /\ Holds(Blank, NoCall.lens) /\ Blank \in [Offsets -> Sizes \cup {0}]
  /\ NoCall \in [length : 0 .. MaxNum, curr_num : 0 .. MaxNum, lens : Seq(Sizes)]
<1>1. MaxNum \in Nat /\ NoCall.lens = <<>> /\ Len(<<>>) = 0
  BY NetAssumption DEF NoCall
<1>2. Holds(Blank, NoCall.lens)
  BY <1>1, BytesEmpty DEF Holds
<1> QED BY <1>1, <1>2 DEF Blank, NoCall

LEMMA Fresh ==
  ASSUME NEW q \in Receivers, net'[q] = NoCall, buffer'[q] = Blank, ~AtWork(q)'
  PROVE  Holds(buffer[q], net[q].lens)' /\ Counted(q)'
<1>1. Holds(buffer'[q], net'[q].lens)
  BY BlankHolds
<1>2. Holds(buffer[q], net[q].lens)'
  BY <1>1 DEF Holds
<1>3. Counted(q)'
  <2>1. NoCall.curr_num = 0 /\ Len(NoCall.lens) = 0 /\ NoCall.length = 0
    BY DEF NoCall
  <2> QED BY <2>1 DEF Counted
<1> QED BY <1>2, <1>3

LEMMA PackedFirst == Init => PInv
<1> SUFFICES ASSUME Init PROVE PInv
  OBVIOUS
<1>1. /\ net = [p \in Receivers |-> NoCall] /\ buffer = [p \in Receivers |-> Blank]
      /\ recv_block_queue = <<>> /\ kernel.mode = "user"
  BY DEF Init, User
<1>2. ~ InLoop /\ \A p \in Receivers : ~AtWork(p)
  BY <1>1 DEF InLoop, AtWork
<1>3. BufferType
  BY <1>1, <1>2, BlankHolds DEF BufferType
<1>4. NoCall.curr_num = 0 /\ Len(NoCall.lens) = 0 /\ NoCall.length = 0
  BY DEF NoCall
<1>5. ASSUME NEW p \in Receivers PROVE Holds(buffer[p], net[p].lens) /\ Counted(p)
  BY <1>1, <1>2, <1>4, BlankHolds DEF Counted
<1> QED BY <1>1, <1>3, <1>5 DEF PInv

LEMMA EndsSatisfiedHolds ==
  ASSUME PInv, EndsSatisfied
  PROVE  PInv'
<1> DEFINE p == kernel.proc
           Call == [length : 0 .. MaxNum, curr_num : 0 .. MaxNum, lens : Seq(Sizes)]
<1>1. kernel \in Calling /\ p \in Receivers /\ InLoop
  BY DEF EndsSatisfied, PInv, BufferType, Calling
<1>2. /\ net \in [Receivers -> Call] /\ buffer \in [Receivers -> [Offsets -> Sizes \cup {0}]]
      /\ recv_block_queue \in Seq(Receivers)
  BY DEF PInv, BufferType
<1>3. /\ net' = [net EXCEPT ![p] = NoCall] /\ buffer' = [buffer EXCEPT ![p] = Blank]
      /\ recv_block_queue' = IF kernel.mode = "irq" THEN Tail(recv_block_queue) ELSE recv_block_queue
      /\ kernel'.mode \in {"user", "txqe"}
  BY LeaveMode DEF EndsSatisfied
<1>4. ~InLoop' /\ \A q \in Receivers : ~AtWork(q)'
  BY <1>3 DEF InLoop, AtWork
<1>5. recv_block_queue' \in Seq(Receivers)
      /\ \A q \in Receivers : q # p /\ Waits(q) => Waits(q)'
  <2>1. CASE kernel.mode = "irq"
    <3>1. recv_block_queue # <<>> /\ p = recv_block_queue[1] /\ recv_block_queue' = Tail(recv_block_queue)
      BY <1>2, <1>3, <2>1 DEF PInv
    <3>2. recv_block_queue' \in Seq(Receivers)
      BY <1>2, <3>1
    <3>3. ASSUME NEW q \in Receivers, q # p, Waits(q) PROVE Waits(q)'
      <4>1. PICK k \in DOMAIN recv_block_queue : recv_block_queue[k] = q
        BY <3>3 DEF Waits
      <4>2. k # 1 /\ k \in 1 .. Len(recv_block_queue)
        BY <1>2, <3>1, <3>3, <4>1
      <4>3. k - 1 \in DOMAIN recv_block_queue' /\ recv_block_queue'[k - 1] = q
        <5>1. k - 1 \in 1 .. Len(recv_block_queue) - 1 /\ (k - 1) + 1 = k
          <6>1. Len(recv_block_queue) \in Nat
            BY <1>2
          <6> QED BY <4>2, <6>1
        <5>2. /\ DOMAIN Tail(recv_block_queue) = 1 .. Len(recv_block_queue) - 1
              /\ \A j \in 1 .. Len(recv_block_queue) - 1 : Tail(recv_block_queue)[j] = recv_block_queue[j + 1]
          BY <1>2, <3>1
        <5> QED BY <3>1, <4>1, <5>1, <5>2
      <4> QED BY <4>3 DEF Waits
    <3> QED BY <3>2, <3>3
  <2>2. CASE kernel.mode # "irq"
    BY <1>2, <1>3, <2>2 DEF Waits
  <2> QED BY <2>1, <2>2
<1>6. BufferType'
  BY <1>1, <1>2, <1>3, <1>4, <1>5, BlankHolds DEF BufferType
<1>7. ASSUME NEW q \in Receivers
      PROVE  Holds(buffer[q], net[q].lens)' /\ Counted(q)'
  <2>1. CASE q = p
    BY <1>1, <1>2, <1>3, <1>4, <2>1, Fresh
  <2>2. CASE q # p
    <3>1. ~AtWork(q) /\ net'[q] = net[q] /\ buffer'[q] = buffer[q]
      BY <1>2, <1>3, <2>2 DEF AtWork
    <3> QED BY <1>4, <1>5, <2>2, <3>1, Apart DEF PInv
  <2> QED BY <2>1, <2>2
<1> QED BY <1>3, <1>6, <1>7 DEF PInv

LEMMA EndsWaitingHolds ==
  ASSUME PInv, EndsWaiting
  PROVE  PInv'
<1> DEFINE Call == [length : 0 .. MaxNum, curr_num : 0 .. MaxNum, lens : Seq(Sizes)]
<1>0. PICK p \in Receivers : p = kernel.proc
  BY DEF EndsWaiting, PInv, BufferType, Calling
<1>1. kernel \in Calling /\ InLoop /\ AtWork(p) /\ kernel.i <= kernel.num
  BY <1>0 DEF EndsWaiting, PInv, BufferType, Calling, AtWork
<1>2. /\ net \in [Receivers -> Call] /\ buffer \in [Receivers -> [Offsets -> Sizes \cup {0}]]
      /\ recv_block_queue \in Seq(Receivers)
  BY DEF PInv, BufferType
<1>3. /\ net' = [net EXCEPT ![p].curr_num = kernel.i, ![p].length = kernel.num]
      /\ buffer' = buffer
      /\ recv_block_queue' = IF kernel.mode = "call" THEN Append(recv_block_queue, p)
                                                     ELSE recv_block_queue
      /\ kernel'.mode \in {"user", "txqe"}
  BY <1>0, LeaveMode DEF EndsWaiting, LeftWaiting
<1>4. ~InLoop' /\ \A q \in Receivers : ~AtWork(q)'
  BY <1>3 DEF InLoop, AtWork
<1>5. recv_block_queue' \in Seq(Receivers)
      /\ Waits(p)' /\ \A q \in Receivers : Waits(q) => Waits(q)'
  <2>1. CASE kernel.mode = "call"
    <3>1. recv_block_queue' = Append(recv_block_queue, p)
      BY <1>3, <2>1
    <3>2. /\ recv_block_queue' \in Seq(Receivers)
          /\ Len(recv_block_queue') = Len(recv_block_queue) + 1
          /\ recv_block_queue'[Len(recv_block_queue) + 1] = p
          /\ \A k \in 1 .. Len(recv_block_queue) : recv_block_queue'[k] = recv_block_queue[k]
      BY <1>1, <1>2, <3>1
    <3>3. /\ DOMAIN recv_block_queue = 1 .. Len(recv_block_queue)
          /\ DOMAIN recv_block_queue' = 1 .. Len(recv_block_queue) + 1
          /\ Len(recv_block_queue) \in Nat
      BY <1>2, <3>2
    <3>4. Waits(p)'
      BY <3>2, <3>3 DEF Waits
    <3>5. \A q \in Receivers : Waits(q) => Waits(q)'
      BY <3>2, <3>3 DEF Waits
    <3> QED BY <3>2, <3>4, <3>5
  <2>2. CASE kernel.mode = "irq"
    <3>1. recv_block_queue # <<>> /\ p = recv_block_queue[1] /\ recv_block_queue' = recv_block_queue
      BY <1>0, <1>2, <1>3, <2>2 DEF PInv
    <3>2. 1 \in DOMAIN recv_block_queue
      BY <1>2, <3>1
    <3> QED BY <1>2, <3>1, <3>2 DEF Waits
  <2> QED BY <1>1, <2>1, <2>2 DEF InLoop
<1>6. /\ net'[p] = [net[p] EXCEPT !.curr_num = kernel.i, !.length = kernel.num]
      /\ net[p] \in Call /\ net'[p].lens = net[p].lens
      /\ net'[p].curr_num = kernel.i /\ net'[p].length = kernel.num
      /\ \A q \in Receivers : q # p => net'[q] = net[q]
  BY <1>1, <1>2, <1>3
<1>7. BufferType'
  <2>1. kernel.i \in 0 .. MaxNum /\ kernel.num \in 0 .. MaxNum
    BY <1>1 DEF Calling
  <2>2. net' \in [Receivers -> Call]
    BY <1>1, <1>2, <1>3, <2>1
  <2> QED BY <1>2, <1>3, <1>4, <1>5, <2>2 DEF BufferType
<1>8. ASSUME NEW q \in Receivers
      PROVE  Holds(buffer[q], net[q].lens)' /\ Counted(q)'
  <2>1. CASE q = p
    <3>1. Holds(buffer[q], net[q].lens) /\ kernel.i = Len(net[p].lens)
      BY <1>1, <2>1 DEF PInv, Counted
    <3>2. Holds(buffer[q], net[q].lens)'
      <4>1. Holds(buffer'[q], net'[q].lens)
        BY <1>3, <1>6, <2>1, <3>1
      <4> QED BY <4>1 DEF Holds
    <3>3. Counted(q)'
      BY <1>1, <1>4, <1>5, <1>6, <2>1, <3>1 DEF Counted
    <3> QED BY <3>2, <3>3
  <2>2. CASE q # p
    <3>1. ~AtWork(q) /\ net'[q] = net[q] /\ buffer'[q] = buffer[q]
      BY <1>0, <1>3, <1>6, <2>2 DEF AtWork
    <3> QED BY <1>4, <1>5, <3>1, Apart DEF PInv
  <2> QED BY <2>1, <2>2
<1> QED BY <1>3, <1>7, <1>8 DEF PInv

LEMMA CallHolds ==
  ASSUME PInv, NEW p \in Receivers, do_net_recv(p)
  PROVE  PInv'
<1> DEFINE Call == [length : 0 .. MaxNum, curr_num : 0 .. MaxNum, lens : Seq(Sizes)]
<1>1. /\ net' = net /\ buffer' = buffer /\ recv_block_queue' = recv_block_queue
      /\ kernel.mode = "user" /\ ~Blocked(p)
  BY DEF do_net_recv, Calls, rxSoft
<1>2. PICK num \in 0 .. MaxNum : kernel' = Receiving("call", p, num, 0, 0, FALSE)
  BY DEF do_net_recv
<1>3. /\ kernel'.mode = "call" /\ kernel'.proc = p /\ kernel'.num = num
      /\ kernel'.i = 0 /\ kernel'.bias = 0 /\ kernel' \in Calling /\ kernel'.i <= kernel'.num
  BY <1>2, NetAssumption DEF Receiving, Calling
<1>4. ~InLoop /\ ~AtWork(p) /\ ~Waits(p) /\ InLoop' /\ AtWork(p)'
  BY <1>1, <1>3 DEF InLoop, AtWork, Blocked, Waits
<1>5. BufferType'
  BY <1>1, <1>3 DEF PInv, BufferType
<1>6. net[p] = NoCall /\ Len(NoCall.lens) = 0 /\ Len(Bytes(NoCall.lens)) = 0
  <2>1. net[p] = NoCall
    BY <1>4 DEF PInv, Counted
  <2>2. NoCall.lens = <<>> /\ Len(<<>>) = 0
    BY DEF NoCall
  <2> QED BY <2>1, <2>2, BytesEmpty
<1>7. ASSUME NEW q \in Receivers
      PROVE  Holds(buffer[q], net[q].lens)' /\ Counted(q)'
  <2>1. CASE q = p
    <3>1. Holds(buffer[q], net[q].lens)'
      BY <1>1 DEF PInv, Holds
    <3>2. net'[q] = NoCall
      BY <1>1, <1>6, <2>1
    <3>3. Len(Bytes(net[q].lens))' = 0
      BY <1>6, <3>2
    <3>4. Counted(q)'
      BY <1>3, <1>4, <1>6, <2>1, <3>2, <3>3 DEF Counted
    <3> QED BY <3>1, <3>4
  <2>2. CASE q # p
    <3>1. ~AtWork(q) /\ ~AtWork(q)' /\ (Waits(q) => Waits(q)')
      BY <1>1, <1>3, <1>4, <2>2 DEF AtWork, Waits
    <3> QED BY <1>1, <3>1, Apart DEF PInv
  <2> QED BY <2>1, <2>2
<1> QED BY <1>3, <1>5, <1>7 DEF PInv

LEMMA InterruptHolds ==
  ASSUME PInv, handle_irq_ext
  PROVE  PInv'
<1>1. /\ net' = net /\ buffer' = buffer /\ recv_block_queue' = recv_block_queue
      /\ kernel.mode = "user"
  BY DEF handle_irq_ext, rxSoft
<1>2. ~InLoop /\ \A q \in Receivers : ~AtWork(q) /\ (Waits(q) => Waits(q)')
  BY <1>1 DEF InLoop, AtWork, Waits
<1>3. CASE "RXDMT0" \in icr /\ recv_block_queue # <<>>
  <2> DEFINE Call == [length : 0 .. MaxNum, curr_num : 0 .. MaxNum, lens : Seq(Sizes)]
             txqe == "TXQE" \in icr
  <2>1. recv_block_queue \in Seq(Receivers) /\ net \in [Receivers -> Call]
    BY DEF PInv, BufferType
  <2>2. PICK p \in Receivers : p = Head(recv_block_queue)
    BY <1>3, <2>1
  <2>3. kernel' = Receiving("irq", p, net[p].length, net[p].curr_num, Bias(p), txqe)
    BY <1>3, <2>2 DEF handle_irq_ext, update_net_recv
  <2>4. /\ Holds(buffer[p], net[p].lens) /\ net[p].curr_num = Len(net[p].lens)
        /\ net[p].curr_num <= net[p].length /\ net[p] \in Call
    BY <1>2, <2>1 DEF PInv, Counted
  <2>5. Bias(p) = Len(Bytes(net[p].lens)) /\ Bias(p) \in Nat
    <3>1. net[p].lens \in Seq(Sizes)
      BY <2>4
    <3>2. Bias(p) = Len(Bytes(net[p].lens))
      BY <2>4, <3>1, BiasIs
    <3>3. Bytes(net[p].lens) \in Seq(Sizes)
      BY <3>1, BytesType
    <3> QED BY <3>2, <3>3
  <2>6. /\ kernel'.mode = "irq" /\ kernel'.proc = p /\ kernel'.num = net[p].length
        /\ kernel'.i = net[p].curr_num /\ kernel'.bias = Bias(p) /\ kernel' \in Calling
    <3>1. txqe \in BOOLEAN
      OBVIOUS
    <3> HIDE DEF txqe
    <3> QED BY <2>3, <2>4, <2>5, <3>1 DEF Receiving, Calling
  <2>7. InLoop' /\ BufferType'
    BY <1>1, <2>4, <2>6 DEF PInv, BufferType, InLoop
  <2>8. ASSUME NEW q \in Receivers
        PROVE  Holds(buffer[q], net[q].lens)' /\ Counted(q)'
    <3>1. CASE q = p
      <4>1. Holds(buffer[q], net[q].lens)'
        BY <1>1 DEF PInv, Holds
      <4>2. AtWork(q)'
        BY <2>6, <2>7, <3>1 DEF AtWork
      <4>3. net'[q].lens = net[p].lens
        BY <1>1, <3>1
      <4>4. kernel'.i = Len(net'[q].lens) /\ kernel'.bias = Len(Bytes(net'[q].lens))
        BY <2>4, <2>5, <2>6, <4>3
      <4>5. Counted(q)'
        BY <4>2, <4>4 DEF Counted
      <4> QED BY <4>1, <4>5
    <3>2. CASE q # p
      <4>1. ~AtWork(q)'
        BY <2>6, <3>2 DEF AtWork
      <4> QED BY <1>1, <1>2, <4>1, Apart DEF PInv
    <3> QED BY <3>1, <3>2
  <2> QED BY <1>1, <1>3, <2>2, <2>6, <2>7, <2>8 DEF PInv
<1>4. CASE ~("RXDMT0" \in icr /\ recv_block_queue # <<>>)
  <2>1. kernel'.mode \in {"keep", "txqe"}
    BY <1>4 DEF handle_irq_ext, update_net_recv
  <2>2. ~InLoop' /\ \A q \in Receivers : ~AtWork(q)'
    BY <2>1 DEF InLoop, AtWork
  <2>3. \A q \in Receivers : Holds(buffer[q], net[q].lens)' /\ Counted(q)'
    BY <1>1, <1>2, <2>2, Apart DEF PInv
  <2> QED BY <1>1, <2>1, <2>2, <2>3 DEF PInv, BufferType
<1> QED BY <1>3, <1>4

\* what is before and what is behind an element
LEMMA PartsAre ==
  ASSUME NEW S, NEW q \in Seq(S), NEW at \in 1 .. Len(q)
  PROVE  /\ SubSeq(q, 1, at - 1) \in Seq(S) /\ SubSeq(q, at + 1, Len(q)) \in Seq(S)
         /\ Len(SubSeq(q, 1, at - 1)) = at - 1 /\ Len(SubSeq(q, at + 1, Len(q))) = Len(q) - at
         /\ \A k \in 1 .. at - 1 : SubSeq(q, 1, at - 1)[k] = q[k]
         /\ \A k \in 1 .. Len(q) - at : SubSeq(q, at + 1, Len(q))[k] = q[at + k]
<1>1. SubSeq(q, 1, at - 1) \in Seq(S) /\ Len(SubSeq(q, 1, at - 1)) = at - 1
  OBVIOUS
<1>2. SubSeq(q, at + 1, Len(q)) \in Seq(S)
  OBVIOUS
<1>3. Len(SubSeq(q, at + 1, Len(q))) = Len(q) - at
  OBVIOUS
<1>4. \A k \in 1 .. at - 1 : SubSeq(q, 1, at - 1)[k] = q[k]
  OBVIOUS
<1>5. \A k \in 1 .. Len(q) - at : SubSeq(q, at + 1, Len(q))[k] = q[at + k]
  OBVIOUS
<1> QED BY <1>1, <1>2, <1>3, <1>4, <1>5

Stands(q, x) == \E k \in DOMAIN q : q[k] = x

\* unlinking one program leaves the others in the queue
LEMMA WithoutIs ==
  ASSUME NEW S, NEW q \in Seq(S), NEW p
  PROVE  /\ Without(q, p) \in Seq(S)
         /\ \A x : x # p /\ Stands(q, x) => Stands(Without(q, p), x)
<1>1. CASE ~ \E k \in DOMAIN q : q[k] = p
  <2>1. Without(q, p) = q
    BY <1>1 DEF Without
  <2> QED BY <2>1 DEF Stands
<1>2. CASE \E k \in DOMAIN q : q[k] = p
  <2> DEFINE at == CHOOSE k \in DOMAIN q : q[k] = p
             n == Len(q)
             w == SubSeq(q, 1, at - 1) \o SubSeq(q, at + 1, n)
  <2>1. at \in DOMAIN q /\ q[at] = p
    BY <1>2, Zenon
  <2>2. Without(q, p) = w
    BY <1>2, Zenon DEF Without
  <2> HIDE DEF at
  <2>3. at \in 1 .. n /\ n \in Nat /\ DOMAIN q = 1 .. n
    BY <2>1
  <2>4. SubSeq(q, 1, at - 1) \in Seq(S) /\ SubSeq(q, at + 1, n) \in Seq(S)
        /\ Len(SubSeq(q, 1, at - 1)) = at - 1 /\ Len(SubSeq(q, at + 1, n)) = n - at
        /\ (\A k \in 1 .. at - 1 : SubSeq(q, 1, at - 1)[k] = q[k])
        /\ \A k \in 1 .. n - at : SubSeq(q, at + 1, n)[k] = q[at + k]
    BY <2>3, PartsAre
  <2> DEFINE a == SubSeq(q, 1, at - 1)
             b == SubSeq(q, at + 1, n)
  <2> HIDE DEF a, b, n
  <2>5. /\ w \in Seq(S) /\ DOMAIN w = 1 .. n - 1
        /\ \A k \in 1 .. at - 1 : w[k] = q[k]
        /\ \A k \in at .. n - 1 : w[k] = q[k + 1]
    <3>1. a \in Seq(S) /\ b \in Seq(S) /\ Len(a) = at - 1 /\ Len(b) = n - at
          /\ (\A k \in 1 .. at - 1 : a[k] = q[k]) /\ \A k \in 1 .. n - at : b[k] = q[at + k]
      BY <2>4 DEF a, b
    <3>2. w = a \o b
      BY DEF a, b
    <3>3. a \o b \in Seq(S) /\ Len(a \o b) = n - 1
      BY <2>3, <3>1
    <3>4. \A k \in 1 .. at - 1 : (a \o b)[k] = q[k]
      BY <2>3, <3>1
    <3>5. ASSUME NEW k \in at .. n - 1 PROVE (a \o b)[k] = q[k + 1]
      <4>1. k - (at - 1) \in 1 .. n - at /\ at + (k - (at - 1)) = k + 1
        BY <2>3
      <4>2. (a \o b)[k] = b[k - (at - 1)]
        BY <2>3, <3>1, <4>1
      <4> QED BY <3>1, <4>1, <4>2
    <3>6. DOMAIN (a \o b) = 1 .. n - 1
      BY <3>3
    <3> QED BY <3>2, <3>3, <3>4, <3>5, <3>6
  <2> HIDE DEF w
  <2>6. ASSUME NEW x, x # p, NEW k \in DOMAIN q, q[k] = x
        PROVE  \E j \in DOMAIN w : w[j] = x
    <3>1. k # at
      BY <2>1, <2>6
    <3>2. CASE k < at
      <4>1. k \in 1 .. at - 1 /\ k \in 1 .. n - 1
        BY <2>3, <3>2
      <4> QED BY <2>5, <2>6, <4>1
    <3>3. CASE k > at
      <4>1. k - 1 \in at .. n - 1 /\ k - 1 \in 1 .. n - 1 /\ (k - 1) + 1 = k
        BY <2>3, <3>3
      <4> QED BY <2>5, <2>6, <4>1
    <3> QED BY <2>3, <3>1, <3>2, <3>3
  <2> QED BY <2>2, <2>5, <2>6 DEF Stands
<1> QED BY <1>1, <1>2

LEMMA KillHolds ==
  ASSUME PInv, NEW p, do_kill(p)
  PROVE  PInv'
<1> DEFINE Call == [length : 0 .. MaxNum, curr_num : 0 .. MaxNum, lens : Seq(Sizes)]
<1>1. /\ net' = [q \in Receivers |-> IF q = p THEN NoCall ELSE net[q]]
      /\ buffer' = [q \in Receivers |-> IF q = p THEN Blank ELSE buffer[q]]
      /\ recv_block_queue' = Without(recv_block_queue, p)
      /\ kernel' = kernel /\ kernel.mode = "user"
  BY DEF do_kill
<1>2. /\ net \in [Receivers -> Call] /\ buffer \in [Receivers -> [Offsets -> Sizes \cup {0}]]
      /\ recv_block_queue \in Seq(Receivers)
  BY DEF PInv, BufferType
<1>3. ~InLoop /\ ~InLoop' /\ \A q \in Receivers : ~AtWork(q) /\ ~AtWork(q)'
  BY <1>1 DEF InLoop, AtWork
<1>4. recv_block_queue' \in Seq(Receivers)
  BY <1>1, <1>2, WithoutIs
<1>5. BufferType'
  BY <1>1, <1>2, <1>3, <1>4, BlankHolds DEF BufferType
<1>6. ASSUME NEW q \in Receivers
      PROVE  Holds(buffer[q], net[q].lens)' /\ Counted(q)'
  <2>1. CASE q = p
    BY <1>1, <1>3, <2>1, Fresh
  <2>2. CASE q # p
    <3>1. Waits(q) => Waits(q)'
      <4>1. Stands(recv_block_queue, q) => Stands(Without(recv_block_queue, p), q)
        BY <1>2, <2>2, WithoutIs
      <4> QED BY <1>1, <4>1 DEF Waits, Stands
    <3> QED BY <1>1, <1>3, <2>2, <3>1, Apart DEF PInv
  <2> QED BY <2>1, <2>2
<1> QED BY <1>1, <1>5, <1>6 DEF PInv

\* steps of the card, and handlers that work for nobody
LEMMA LeftAlone ==
  ASSUME PInv, UNCHANGED <<net, buffer, recv_block_queue>>, ~InLoop, ~InLoop'
  PROVE  PInv'
<1>1. \A q \in Receivers : ~AtWork(q) /\ ~AtWork(q)' /\ (Waits(q) => Waits(q)')
  BY DEF AtWork, Waits
<1>2. \A q \in Receivers : Holds(buffer[q], net[q].lens)' /\ Counted(q)'
  BY <1>1, Apart DEF PInv
<1> QED BY <1>2 DEF PInv, BufferType, InLoop

LEMMA Untouched ==
  ASSUME PInv, UNCHANGED <<net, buffer, recv_block_queue, kernel>>
  PROVE  PInv'
<1>1. \A q \in Receivers : (Holds(buffer[q], net[q].lens) => Holds(buffer[q], net[q].lens)')
                           /\ (Counted(q) => Counted(q)')
  BY DEF Holds, Counted, AtWork, Waits, InLoop
<1> QED BY <1>1 DEF PInv, BufferType, InLoop

LEMMA PackedAlways == IInv /\ OInv /\ PInv /\ [Next]_vars => PInv'
<1> SUFFICES ASSUME IInv, OInv, PInv, [Next]_vars PROVE PInv'
  OBVIOUS
<1>1. CASE Transmits
  BY <1>1, Untouched DEF Transmits, rxSoft
<1>2. CASE Arrives
  BY <1>2, Untouched DEF Arrives, rxSoft
<1>3. CASE TakePacket
  BY <1>3, TakeHolds
<1>4. CASE EndsSatisfied
  BY <1>4, EndsSatisfiedHolds
<1>5. CASE EndsWaiting
  BY <1>5, EndsWaitingHolds
<1>6. CASE KeepPacket
  <2>1. UNCHANGED <<net, buffer, recv_block_queue>> /\ kernel.mode = "keep"
    BY <1>6 DEF KeepPacket
  <2>2. kernel'.mode \in {"keep", "user", "txqe"}
    BY <1>6, <2>1, LeaveMode DEF KeepPacket
  <2> QED BY <2>1, <2>2, LeftAlone DEF InLoop
<1>7. CASE HandleTXQE
  <2>1. UNCHANGED <<net, buffer, recv_block_queue>> /\ kernel.mode = "txqe" /\ kernel'.mode = "user"
    BY <1>7 DEF HandleTXQE, rxSoft, User
  <2> QED BY <2>1, LeftAlone DEF InLoop
<1>8. CASE handle_irq_ext
  BY <1>8, InterruptHolds
<1>9. CASE \E p \in Senders : do_net_send(p)
  BY <1>9, Untouched DEF do_net_send, rxSoft
<1>10. CASE \E p \in Receivers : do_net_recv(p)
  BY <1>10, CallHolds
<1>11. CASE \E p \in Procs : do_kill(p)
  BY <1>11, KillHolds
<1>12. CASE UNCHANGED vars
  BY <1>12, Untouched DEF vars, rxSoft
<1> QED BY <1>1, <1>2, <1>3, <1>4, <1>5, <1>6, <1>7, <1>8, <1>9, <1>10, <1>11, <1>12 DEF Next, Loops

(***************************************************************************)
(* The buffer of a receive is packed, however the packets are spread over  *)
(* calls and interrupts: what the loop knows of the packets before it, and *)
(* what the next interrupt works out again, is the place behind the last   *)
(* byte written.                                                           *)
(***************************************************************************)
THEOREM BuffersStayPacked == Spec => []BuffersPacked
<1>1. PInv => BuffersPacked
  BY DEF PInv, Holds, Counted, AtWork, BuffersPacked
<1>2. Init => IInv /\ OInv /\ PInv
  BY Initially, InLineFirst, PackedFirst
<1>3. IInv /\ OInv /\ PInv /\ [Next]_vars => (IInv /\ OInv /\ PInv)'
  BY Inductive, InLineAlways, PackedAlways
<1> QED BY <1>1, <1>2, <1>3, PTL DEF Spec

-----------------------------------------------------------------------------
(***************************************************************************)
(* Frames that are not empty, out of a sequence: Proper unfolds from its   *)
(* end and from its beginning.                                             *)
(***************************************************************************)
Frames == Senders \cup {Empty}

\* one frame more behind g
Behind(g, x) == IF x = Empty THEN g ELSE Append(g, x)

Follows(c, s, m) == c[0] = <<>> /\ \A n \in 1 .. m : c[n] = Behind(c[n - 1], s[n])

Picked(c, s, m) == c \in [0 .. m -> Seq(Senders)] /\ Follows(c, s, m)

LEMMA BehindType ==
  ASSUME NEW g \in Seq(Senders), NEW x \in Frames
  PROVE  Behind(g, x) \in Seq(Senders)
  BY DEF Behind, Frames

LEMMA PickExists ==
  ASSUME NEW s \in Seq(Frames)
  PROVE  \E c : Picked(c, s, Len(s))
<1> DEFINE A == {m \in Nat : m <= Len(s) => \E c : Picked(c, s, m)}
<1>1. 0 \in A
  <2> DEFINE c == [n \in 0 .. 0 |-> <<>>]
  <2>1. Picked(c, s, 0)
    BY DEF Picked, Follows
  <2> QED BY <2>1
<1>2. ASSUME NEW m \in Nat, m \in A PROVE m + 1 \in A
  <2> SUFFICES ASSUME m + 1 <= Len(s) PROVE \E c : Picked(c, s, m + 1)
    OBVIOUS
  <2>1. PICK c : Picked(c, s, m)
    BY <1>2
  <2> DEFINE b == Behind(c[m], s[m + 1])
             d == [n \in 0 .. m + 1 |-> IF n = m + 1 THEN b ELSE c[n]]
  <2>2. b \in Seq(Senders)
    <3>1. s[m + 1] \in Frames /\ c[m] \in Seq(Senders)
      BY <2>1 DEF Picked, Follows
    <3> QED BY <3>1, BehindType
  <2> HIDE DEF b
  <2>3. d \in [0 .. m + 1 -> Seq(Senders)] /\ d[0] = <<>>
    BY <2>1, <2>2 DEF Picked, Follows
  <2>4. ASSUME NEW n \in 1 .. m + 1 PROVE d[n] = Behind(d[n - 1], s[n])
    <3>1. CASE n = m + 1
      <4>1. d[n] = b /\ d[n - 1] = c[m]
        BY <3>1
      <4> QED BY <3>1, <4>1 DEF b
    <3>2. CASE n # m + 1
      <4>1. n \in 1 .. m /\ d[n] = c[n] /\ d[n - 1] = c[n - 1]
        BY <3>2
      <4> QED BY <2>1, <4>1 DEF Picked, Follows
    <3> QED BY <3>1, <3>2
  <2> HIDE DEF d
  <2>5. Picked(d, s, m + 1)
    BY <2>3, <2>4 DEF Picked, Follows
  <2> QED BY <2>5
<1>3. Nat \subseteq A
  <2> HIDE DEF A
  <2> QED BY <1>1, <1>2, Induct
<1> QED BY <1>3

Alike(s, t, m) == \A n \in 1 .. m : s[n] = t[n]

\* the beginnings of two sequences that begin alike
LEMMA SamePick ==
  ASSUME NEW s, NEW t, NEW c, NEW d, NEW m \in Nat, NEW k \in Nat, m <= k,
         Follows(c, s, m), Follows(d, t, k), Alike(s, t, m)
  PROVE  c[m] = d[m]
<1> DEFINE A == {n \in Nat : n <= m => c[n] = d[n]}
<1>1. 0 \in A
  BY DEF Follows
<1>2. ASSUME NEW n \in Nat, n \in A PROVE n + 1 \in A
  <2> SUFFICES ASSUME n + 1 <= m PROVE c[n + 1] = d[n + 1]
    OBVIOUS
  <2>1. n + 1 \in 1 .. m /\ n + 1 \in 1 .. k /\ (n + 1) - 1 = n /\ c[n] = d[n]
    BY <1>2
  <2>2. c[n + 1] = Behind(c[n], s[n + 1])
    BY <2>1 DEF Follows
  <2>3. d[n + 1] = Behind(d[n], t[n + 1])
    BY <2>1 DEF Follows
  <2> QED BY <2>1, <2>2, <2>3, Zenon DEF Alike
<1>3. Nat \subseteq A
  <2> HIDE DEF A
  <2> QED BY <1>1, <1>2, Induct
<1> QED BY <1>3

LEMMA ProperIs ==
  ASSUME NEW s \in Seq(Frames)
  PROVE  \E c : Picked(c, s, Len(s)) /\ Proper(s) = c[Len(s)]
<1> DEFINE m == Len(s)
           Folds(e) == e = [n \in 0 .. m |-> IF n = 0 THEN <<>> ELSE Behind(e[n - 1], s[n])]
<1>1. PICK d : Picked(d, s, m)
  BY PickExists
<1>2. Folds(d)
  <2>1. d = [n \in 0 .. m |-> d[n]]
    BY <1>1 DEF Picked, Follows
  <2>2. \A n \in 0 .. m : d[n] = IF n = 0 THEN <<>> ELSE Behind(d[n - 1], s[n])
    <3> TAKE n \in 0 .. m
    <3>1. CASE n = 0
      BY <1>1, <3>1 DEF Picked, Follows
    <3>2. CASE n # 0
      <4>1. n \in 1 .. m
        BY <3>2
      <4> QED BY <1>1, <3>2, <4>1 DEF Picked, Follows
    <3> QED BY <3>1, <3>2
  <2> QED BY <2>1, <2>2
<1> DEFINE c == CHOOSE e : Folds(e)
<1>3. Proper(s) = c[m]
  BY Zenon DEF Proper, Behind
<1>4. Folds(c)
  BY <1>2, Zenon
<1> HIDE DEF c, Folds
<1>5. Follows(c, s, m)
  <2> DEFINE F(n) == IF n = 0 THEN <<>> ELSE Behind(c[n - 1], s[n])
  <2>1. c = [n \in 0 .. m |-> F(n)]
    BY <1>4 DEF Folds
  <2>2. F(0) = <<>>
    OBVIOUS
  <2>3. ASSUME NEW n \in 1 .. m PROVE F(n) = Behind(c[n - 1], s[n])
    <3>1. n # 0
      OBVIOUS
    <3> QED BY <3>1, Zenon
  <2> HIDE DEF F
  <2>4. \A n \in 0 .. m : c[n] = F(n)
    BY <2>1
  <2>5. 0 \in 0 .. m /\ \A n \in 1 .. m : n \in 0 .. m
    OBVIOUS
  <2> QED BY <2>2, <2>3, <2>4, <2>5, Zenon DEF Follows
<1>6. c[m] = d[m]
  <2>1. m \in Nat /\ m <= m /\ Alike(s, s, m)
    BY DEF Alike
  <2> HIDE DEF m
  <2> QED BY <1>1, <1>5, <2>1, SamePick DEF Picked
<1> QED BY <1>1, <1>3, <1>6

LEMMA ProperType ==
  ASSUME NEW s \in Seq(Frames)
  PROVE  Proper(s) \in Seq(Senders)
<1>1. PICK c : Picked(c, s, Len(s)) /\ Proper(s) = c[Len(s)]
  BY ProperIs
<1> QED BY <1>1 DEF Picked, Follows

LEMMA ProperEmpty == Proper(<<>>) = <<>>
<1>1. <<>> \in Seq(Frames) /\ Len(<<>>) = 0
  OBVIOUS
<1> QED BY <1>1, ProperIs DEF Picked, Follows

\* the driver queues a frame
LEMMA ProperAppend ==
  ASSUME NEW s \in Seq(Frames), NEW x \in Frames
  PROVE  Proper(Append(s, x)) = Behind(Proper(s), x)
<1> DEFINE m == Len(s)
           more == Append(s, x)
<1>1. more \in Seq(Frames) /\ Len(more) = m + 1 /\ more[m + 1] = x /\ m \in Nat
      /\ \A n \in 1 .. m : s[n] = more[n]
  OBVIOUS
<1>2. PICK c : Picked(c, s, m) /\ Proper(s) = c[m]
  BY ProperIs
<1> HIDE DEF more, m
<1>3. PICK d : Picked(d, more, m + 1) /\ Proper(more) = d[m + 1]
  BY <1>1, ProperIs
<1>4. c[m] = d[m]
  <2>1. PICK k \in Nat : k = m + 1
    BY <1>1
  <2>2. m \in Nat /\ m <= k
    BY <1>1, <2>1
  <2>3. Follows(c, s, m)
    BY <1>2 DEF Picked
  <2>4. Follows(d, more, k)
    BY <1>3, <2>1 DEF Picked
  <2>5. Alike(s, more, m)
    BY <1>1 DEF Alike
  <2> QED BY <2>2, <2>3, <2>4, <2>5, SamePick
<1>5. d[m + 1] = Behind(d[m], x)
  <2>1. m + 1 \in 1 .. m + 1 /\ (m + 1) - 1 = m
    BY <1>1
  <2> QED BY <1>1, <1>3, <2>1 DEF Picked, Follows
<1> QED BY <1>2, <1>3, <1>4, <1>5 DEF more

\* the card sends a frame
Ahead(g, x) == IF x = Empty THEN g ELSE Tail(g)

LEMMA AheadBehind ==
  ASSUME NEW g \in Seq(Senders), NEW x \in Frames, NEW y \in Frames, x # Empty => g # <<>>
  PROVE  /\ Behind(Ahead(g, x), y) = Ahead(Behind(g, y), x)
         /\ x # Empty => Behind(g, y) # <<>>
<1>1. CASE x = Empty \/ y = Empty
  BY <1>1 DEF Ahead, Behind
<1>2. CASE x # Empty /\ y # Empty
  <2>1. y \in Senders /\ g # <<>>
    BY <1>2 DEF Frames
  <2>2. Append(g, y) # <<>> /\ Append(Tail(g), y) = Tail(Append(g, y))
    BY <2>1
  <2> QED BY <1>2, <2>2 DEF Ahead, Behind
<1> QED BY <1>1, <1>2

LEMMA ProperTail ==
  ASSUME NEW s \in Seq(Frames), s # <<>>
  PROVE  Proper(Tail(s)) = Ahead(Proper(s), s[1])
<1> DEFINE m == Len(s)
           t == Tail(s)
           x == s[1]
<1>1. t \in Seq(Frames) /\ Len(t) = m - 1 /\ m \in Nat \ {0} /\ x \in Frames
      /\ \A n \in 1 .. m - 1 : t[n] = s[n + 1]
  OBVIOUS
<1>2. PICK c : Picked(c, s, m) /\ Proper(s) = c[m]
  BY ProperIs
<1>3. \A n \in 1 .. m : s[n] \in Frames
  OBVIOUS
<1> HIDE DEF t, m
<1>4. PICK d : Picked(d, t, m - 1) /\ Proper(t) = d[m - 1]
  BY <1>1, ProperIs
<1> DEFINE A == {n \in Nat : n + 1 <= m => /\ d[n] = Ahead(c[n + 1], x)
                                           /\ x # Empty => c[n + 1] # <<>>}
<1>5. 0 \in A
  <2>1. 1 \in 1 .. m /\ 1 - 1 = 0 /\ 0 + 1 = 1
    BY <1>1
  <2>2. c[1] = Behind(<<>>, x) /\ d[0] = <<>>
    BY <1>2, <1>4, <2>1 DEF Picked, Follows
  <2>3. <<>> = Ahead(Behind(<<>>, x), x) /\ (x # Empty => Behind(<<>>, x) # <<>>)
    <3>1. Tail(Append(<<>>, x)) = <<>> /\ Append(<<>>, x) # <<>>
      <4>1. <<>> \in Seq(Frames) /\ Len(<<>>) = 0
        OBVIOUS
      <4> HIDE DEF x
      <4>2. Append(<<>>, x) \in Seq(Frames) /\ Len(Append(<<>>, x)) = 1
        BY <1>1, <4>1
      <4>3. Tail(Append(<<>>, x)) \in Seq(Frames) /\ Len(Tail(Append(<<>>, x))) = 0
        BY <4>2
      <4> QED BY <4>2, <4>3
    <3> QED BY <3>1 DEF Ahead, Behind
  <2> QED BY <2>1, <2>2, <2>3
<1>6. ASSUME NEW n \in Nat, n \in A PROVE n + 1 \in A
  <2> SUFFICES ASSUME (n + 1) + 1 <= m
               PROVE  /\ d[n + 1] = Ahead(c[(n + 1) + 1], x)
                      /\ x # Empty => c[(n + 1) + 1] # <<>>
    OBVIOUS
  <2> DEFINE y == s[(n + 1) + 1]
             g == c[n + 1]
  <2>1. (n + 1) + 1 \in 1 .. m /\ ((n + 1) + 1) - 1 = n + 1 /\ n + 1 \in 1 .. m - 1 /\ (n + 1) - 1 = n
        /\ n + 1 \in 0 .. m /\ n + 1 <= m
    BY <1>1
  <2>2. d[n] = Ahead(g, x) /\ (x # Empty => g # <<>>)
    BY <1>6, <2>1
  <2>3. c[(n + 1) + 1] = Behind(g, y) /\ g \in Seq(Senders)
    BY <1>2, <2>1 DEF Picked, Follows
  <2>4. d[n + 1] = Behind(d[n], y)
    <3>1. t[n + 1] = y
      BY <1>1, <2>1
    <3> QED BY <1>4, <2>1, <3>1 DEF Picked, Follows
  <2>5. y \in Frames
    BY <1>3, <2>1
  <2> HIDE DEF y, g, x
  <2>6. Behind(Ahead(g, x), y) = Ahead(Behind(g, y), x) /\ (x # Empty => Behind(g, y) # <<>>)
    BY <1>1, <2>2, <2>3, <2>5, AheadBehind
  <2> QED BY <2>2, <2>3, <2>4, <2>6
<1>7. Nat \subseteq A
  <2> HIDE DEF A
  <2> QED BY <1>5, <1>6, Induct
<1>8. m - 1 \in Nat /\ (m - 1) + 1 = m
  BY <1>1
<1>9. d[m - 1] = Ahead(c[(m - 1) + 1], x)
  BY <1>7, <1>8
<1> QED BY <1>2, <1>4, <1>8, <1>9 DEF t
-----------------------------------------------------------------------------
(***************************************************************************)
(* The transmit ring: the n descriptors from the card's end on are not     *)
(* done, and their frames are the ones not yet sent.                       *)
(***************************************************************************)
Outgoing(n) == [k \in 1 .. n |-> tx_desc_array[(tdh + k - 1) % TXDESCS].pkt]

Flying(n) ==
  /\ tdh \in 0 .. TXDESCS - 1 /\ tdt = (tdh + n) % TXDESCS
  /\ tx_desc_array = [i \in 0 .. TXDESCS - 1 |-> tx_desc_array[i]]
  /\ \A j \in 0 .. TXDESCS - 1 :
       LET x == tx_desc_array[(tdh + j) % TXDESCS]
       IN  (x.dd <=> j >= n) /\ (j < n => x.pkt \in Frames)
  /\ unsent = Proper(Outgoing(n))

TInv == \E n \in 0 .. TXDESCS : Flying(n)

LEMMA LineType ==
  ASSUME NEW n \in 0 .. TXDESCS, Flying(n)
  PROVE  /\ Outgoing(n) \in Seq(Frames) /\ Len(Outgoing(n)) = n
         /\ \A k \in 1 .. n : Outgoing(n)[k] = tx_desc_array[(tdh + (k - 1)) % TXDESCS].pkt
<1>1. n \in Nat /\ TXDESCS \in Nat /\ tdh \in Nat
  BY NetAssumption DEF Flying
<1>2. ASSUME NEW k \in 1 .. n
      PROVE  /\ tx_desc_array[(tdh + k - 1) % TXDESCS].pkt \in Frames
             /\ tx_desc_array[(tdh + k - 1) % TXDESCS].pkt = tx_desc_array[(tdh + (k - 1)) % TXDESCS].pkt
  <2>1. k - 1 \in 0 .. TXDESCS - 1 /\ k - 1 < n /\ tdh + (k - 1) = tdh + k - 1
    BY <1>1
  <2>2. tx_desc_array[(tdh + (k - 1)) % TXDESCS].pkt \in Frames
    BY <2>1 DEF Flying
  <2> QED BY <2>1, <2>2
<1>3. Outgoing(n) \in [1 .. n -> Frames]
  BY <1>2 DEF Outgoing
<1>4. Outgoing(n) \in Seq(Frames) /\ Len(Outgoing(n)) = n
  BY <1>1, <1>3, SeqIs
<1> QED BY <1>2, <1>4 DEF Outgoing

LEMMA CardSends ==
  ASSUME NEW n \in 0 .. TXDESCS, Flying(n), Transmits
  PROVE  n - 1 \in 0 .. TXDESCS /\ Flying(n - 1)'
<1> DEFINE T == TXDESCS
<1>1. T \in Nat \ {0} /\ tdh \in 0 .. T - 1
  BY NetAssumption DEF Flying
<1>2. /\ tdh # tdt /\ tx_desc_array' = [tx_desc_array EXCEPT ![tdh] = Unused]
      /\ tdh' = Succ(tdh, T) /\ tdt' = tdt
      /\ unsent' = IF tx_desc_array[tdh].pkt = Empty THEN unsent ELSE Tail(unsent)
  BY DEF Transmits
<1>3. n \in 1 .. T
  <2>1. (tdh + 0) % T = tdh
    BY <1>1
  <2> QED BY <1>1, <1>2, <2>1 DEF Flying
<1>4. tdh' \in 0 .. T - 1 /\ \A j \in 0 .. T : (tdh' + j) % T = (tdh + 1 + j) % T
  BY <1>1, <1>2, SuccIs
<1>5. tdt' = (tdh' + (n - 1)) % T
  <2>1. (tdh' + (n - 1)) % T = (tdh + 1 + (n - 1)) % T /\ tdh + 1 + (n - 1) = tdh + n
    BY <1>1, <1>3, <1>4
  <2> QED BY <1>2, <2>1 DEF Flying
<1>6. tx_desc_array' = [i \in 0 .. T - 1 |-> tx_desc_array'[i]]
  BY <1>2 DEF Flying
<1>7. ASSUME NEW j \in 0 .. T - 2
      PROVE  /\ (tdh' + j) % T = (tdh + (j + 1)) % T /\ (tdh + (j + 1)) % T # tdh
             /\ tx_desc_array'[(tdh' + j) % T] = tx_desc_array[(tdh + (j + 1)) % T]
  <2>1. j + 1 \in 0 .. T - 1 /\ 0 \in 0 .. T - 1 /\ tdh + 1 + j = tdh + (j + 1) /\ j \in 0 .. T
    BY <1>1
  <2>2. (tdh + (j + 1)) % T \in 0 .. T - 1 /\ (tdh + (j + 1)) % T # (tdh + 0) % T
    <3>1. j + 1 # 0
      OBVIOUS
    <3> QED BY <1>1, <2>1, <3>1, PlacesDiffer
  <2>3. (tdh + 0) % T = tdh
    BY <1>1
  <2> QED BY <1>2, <1>4, <2>1, <2>2, <2>3 DEF Flying
<1>8. ASSUME NEW j \in 0 .. T - 1
      PROVE  LET x == tx_desc_array'[(tdh' + j) % T]
             IN  (x.dd <=> j >= n - 1) /\ (j < n - 1 => x.pkt \in Frames)
  <2>1. CASE j = T - 1
    <3>1. (tdh + 1 + j) % T = tdh /\ (tdh' + j) % T = (tdh + 1 + j) % T
      <4>1. (tdh + 1 + j) % T = tdh /\ j \in 0 .. T
        BY <1>1, <2>1
      <4> QED BY <1>4, <4>1
    <3>2. tx_desc_array'[tdh] = Unused
      BY <1>1, <1>2 DEF Flying
    <3>3. j >= n - 1
      BY <1>1, <1>3, <2>1
    <3> QED BY <1>1, <1>3, <3>1, <3>2, <3>3 DEF Unused
  <2>2. CASE j # T - 1
    <3>1. j \in 0 .. T - 2 /\ j + 1 \in 0 .. T - 1 /\ (j + 1 >= n <=> j >= n - 1) /\ (j + 1 < n <=> j < n - 1)
      BY <1>1, <1>3, <2>2
    <3> QED BY <1>7, <3>1 DEF Flying
  <2> QED BY <2>1, <2>2
<1>9. Outgoing(n - 1)' = Tail(Outgoing(n))
  <2>1. /\ Outgoing(n) \in Seq(Frames) /\ Len(Outgoing(n)) = n
        /\ \A k \in 1 .. n : Outgoing(n)[k] = tx_desc_array[(tdh + (k - 1)) % T].pkt
    BY LineType
  <2>2. ASSUME NEW k \in 1 .. n - 1
        PROVE  tx_desc_array'[(tdh' + k - 1) % T].pkt = Outgoing(n)[k + 1]
    <3>1. k - 1 \in 0 .. T - 2 /\ k + 1 \in 1 .. n /\ tdh' + k - 1 = tdh' + (k - 1) /\ (k + 1) - 1 = (k - 1) + 1
      BY <1>1, <1>3, <1>4
    <3>2. tx_desc_array'[(tdh' + (k - 1)) % T] = tx_desc_array[(tdh + ((k - 1) + 1)) % T]
      BY <1>7, <3>1
    <3> QED BY <2>1, <3>1, <3>2
  <2>3. Outgoing(n - 1)' = [k \in 1 .. n - 1 |-> tx_desc_array'[(tdh' + k - 1) % T].pkt]
    BY DEF Outgoing
  <2> DEFINE l == Outgoing(n)
  <2>4. Outgoing(n - 1)' = [k \in 1 .. n - 1 |-> l[k + 1]]
    BY <2>2, <2>3
  <2>5. l \in Seq(Frames) /\ Len(l) = n /\ l # <<>>
    BY <1>3, <2>1
  <2> HIDE DEF l
  <2>6. Tail(l) = [k \in 1 .. n - 1 |-> l[k + 1]]
    <3>1. n \in Nat \ {0} /\ Tail(l) \in Seq(Frames) /\ Len(Tail(l)) = n - 1
      BY <1>1, <1>3, <2>5
    <3>2. \A k \in 1 .. n - 1 : Tail(l)[k] = l[k + 1]
      BY <2>5, <3>1
    <3>3. Tail(l) = [k \in 1 .. n - 1 |-> Tail(l)[k]]
      <4> DEFINE r == Tail(l)
      <4>1. PICK j \in Nat : j = n - 1
        BY <3>1
      <4>2. r \in Seq(Frames) /\ Len(r) = j
        BY <3>1, <4>1
      <4> HIDE DEF r
      <4>3. r = [k \in 1 .. j |-> r[k]]
        BY <4>2, SeqIs
      <4> QED BY <4>1, <4>3 DEF r
    <3> QED BY <3>2, <3>3
  <2> QED BY <2>4, <2>6 DEF l
<1>10. unsent' = Proper(Tail(Outgoing(n)))
  <2>1. /\ Outgoing(n) \in Seq(Frames) /\ Len(Outgoing(n)) = n
        /\ \A k \in 1 .. n : Outgoing(n)[k] = tx_desc_array[(tdh + (k - 1)) % T].pkt
    BY LineType
  <2>2. Outgoing(n) # <<>> /\ 1 \in 1 .. n /\ (tdh + (1 - 1)) % T = tdh
    <3>1. 1 \in 1 .. n /\ (tdh + (1 - 1)) % T = tdh
      BY <1>1, <1>3
    <3> QED BY <1>3, <2>1, <3>1
  <2>3. Outgoing(n)[1] = tx_desc_array[tdh].pkt
    BY <2>1, <2>2
  <2>4. Proper(Tail(Outgoing(n))) = Ahead(Proper(Outgoing(n)), Outgoing(n)[1])
    BY <2>1, <2>2, ProperTail
  <2> QED BY <1>2, <2>3, <2>4 DEF Ahead, Flying
<1>11. unsent' = Proper(Outgoing(n - 1)')
  BY <1>9, <1>10
<1>12. Flying(n - 1)'
  BY <1>4, <1>5, <1>6, <1>8, <1>11 DEF Flying
<1> QED BY <1>1, <1>3, <1>12

LEMMA DriverQueues ==
  ASSUME NEW n \in 0 .. TXDESCS, Flying(n), NEW pkt \in Frames, Done, Queue(pkt),
         tdh' = tdh, unsent' = Behind(unsent, pkt)
  PROVE  n + 1 \in 0 .. TXDESCS /\ Flying(n + 1)'
<1> DEFINE T == TXDESCS
<1>1. T \in Nat \ {0} /\ tdh \in 0 .. T - 1 /\ tdt = (tdh + n) % T
  BY NetAssumption DEF Flying
<1>2. /\ tx_desc_array' = [tx_desc_array EXCEPT ![tdt] = [dd |-> FALSE, pkt |-> pkt]]
      /\ tdt' = Succ(tdt, T) /\ tx_desc_array[tdt].dd
  BY DEF Queue, Done
<1>3. n \in 0 .. T - 1
  <2>1. CASE n = T
    <3>1. tdt = tdh /\ (tdh + 0) % T = tdh /\ 0 \in 0 .. T - 1 /\ ~ (0 >= n)
      BY <1>1, <2>1
    <3> QED BY <1>2, <3>1 DEF Flying
  <2> QED BY <1>1, <2>1
<1>4. tdt \in 0 .. T - 1 /\ tdt' = (tdt + 1) % T
  BY <1>1, <1>2, SuccIs
<1>5. tdt' = (tdh' + (n + 1)) % T
  <2>1. Succ((tdh + n) % T, T) = (tdh + (n + 1)) % T
    <3> HIDE <1>2, <1>4
    <3>1. tdh \in 0 .. T - 1
      BY <1>1
    <3> QED BY <1>1, <1>3, <3>1 DEF Succ
  <2> QED BY <1>1, <1>2, <2>1
<1>6. tx_desc_array' = [i \in 0 .. T - 1 |-> tx_desc_array'[i]]
  BY <1>2 DEF Flying
<1>7. ASSUME NEW j \in 0 .. T - 1, j # n
      PROVE  tx_desc_array'[(tdh' + j) % T] = tx_desc_array[(tdh + j) % T]
  <2>1. (tdh + j) % T \in 0 .. T - 1 /\ (tdh + j) % T # (tdh + n) % T
    BY <1>1, <1>3, <1>7, PlacesDiffer
  <2> QED BY <1>1, <1>2, <2>1 DEF Flying
<1>8. tx_desc_array'[(tdh' + n) % T] = [dd |-> FALSE, pkt |-> pkt]
  BY <1>1, <1>2, <1>4 DEF Flying
<1>9. ASSUME NEW j \in 0 .. T - 1
      PROVE  LET x == tx_desc_array'[(tdh' + j) % T]
             IN  (x.dd <=> j >= n + 1) /\ (j < n + 1 => x.pkt \in Frames)
  <2>1. CASE j = n
    <3>1. ~ (n >= n + 1)
      BY <1>3
    <3> QED BY <1>8, <2>1, <3>1
  <2>2. CASE j # n
    <3>1. (j >= n + 1 <=> j >= n) /\ (j < n + 1 <=> j < n)
      BY <1>1, <1>3, <2>2
    <3> QED BY <1>7, <2>2, <3>1 DEF Flying
  <2> QED BY <2>1, <2>2
<1>10. /\ Outgoing(n) \in Seq(Frames) /\ Len(Outgoing(n)) = n
       /\ \A k \in 1 .. n : Outgoing(n)[k] = tx_desc_array[(tdh + (k - 1)) % T].pkt
  BY LineType
<1>11. Outgoing(n + 1)' = Append(Outgoing(n), pkt)
  <2>1. Outgoing(n + 1)' = [k \in 1 .. n + 1 |-> tx_desc_array'[(tdh' + k - 1) % T].pkt]
    BY DEF Outgoing
  <2> DEFINE l == Outgoing(n)
             more == Append(l, pkt)
  <2>2. /\ more \in Seq(Frames) /\ Len(more) = n + 1 /\ more[n + 1] = pkt
        /\ \A k \in 1 .. n : more[k] = l[k]
    <3>1. l \in Seq(Frames) /\ Len(l) = n
      BY <1>10
    <3> HIDE DEF l
    <3> QED BY <3>1
  <2> HIDE DEF l, more
  <2>3. ASSUME NEW k \in 1 .. n + 1
        PROVE  tx_desc_array'[(tdh' + k - 1) % T].pkt = more[k]
    <3>1. k - 1 \in 0 .. T - 1 /\ tdh' + k - 1 = tdh' + (k - 1)
      BY <1>1, <1>3
    <3>2. CASE k = n + 1
      <4>1. k - 1 = n
        BY <1>3, <3>2
      <4> QED BY <1>8, <2>2, <3>1, <3>2, <4>1
    <3>3. CASE k # n + 1
      <4>1. k \in 1 .. n /\ k - 1 # n
        BY <1>3, <3>3
      <4>2. tx_desc_array'[(tdh' + (k - 1)) % T] = tx_desc_array[(tdh + (k - 1)) % T]
        BY <1>7, <3>1, <4>1
      <4> QED BY <1>10, <2>2, <3>1, <4>1, <4>2 DEF l
    <3> QED BY <3>2, <3>3
  <2>4. more = [k \in 1 .. n + 1 |-> more[k]]
    <3>1. n + 1 \in Nat
      BY <1>3
    <3> QED BY <2>2, <3>1, SeqIs
  <2>5. Outgoing(n + 1)' = more
    BY <2>1, <2>3, <2>4
  <2> QED BY <2>5 DEF more, l
<1>12. unsent' = Proper(Outgoing(n + 1)')
  <2>1. Proper(Append(Outgoing(n), pkt)) = Behind(Proper(Outgoing(n)), pkt)
    BY <1>10, ProperAppend
  <2> QED BY <1>11, <2>1 DEF Flying
<1>13. Flying(n + 1)'
  BY <1>1, <1>5, <1>6, <1>9, <1>12 DEF Flying
<1> QED BY <1>1, <1>3, <1>13

LEMMA StillFlying ==
  ASSUME TInv, UNCHANGED <<tdh, tdt, tx_desc_array, unsent>>
  PROVE  TInv'
<1>1. PICK n \in 0 .. TXDESCS : Flying(n)
  BY DEF TInv
<1>2. Outgoing(n)' = Outgoing(n)
  BY DEF Outgoing
<1>3. Flying(n)'
  BY <1>1, <1>2 DEF Flying
<1> QED BY <1>3 DEF TInv

\* a frame goes to the ring, or the ring is full
LEMMA DriverSends ==
  ASSUME TInv, NEW pkt \in Frames, e1000_transmit(pkt), tdh' = tdh,
         unsent' = IF Done THEN Behind(unsent, pkt) ELSE unsent
  PROVE  TInv'
<1>1. CASE Done
  <2>1. PICK n \in 0 .. TXDESCS : Flying(n)
    BY DEF TInv
  <2>2. Queue(pkt) /\ unsent' = Behind(unsent, pkt)
    BY <1>1 DEF e1000_transmit
  <2>3. n + 1 \in 0 .. TXDESCS /\ Flying(n + 1)'
    BY <1>1, <2>1, <2>2, DriverQueues
  <2> QED BY <2>3 DEF TInv
<1>2. CASE ~Done
  BY <1>2, StillFlying DEF e1000_transmit
<1> QED BY <1>1, <1>2

LEMMA FlyingFirst == Init => TInv
<1> SUFFICES ASSUME Init PROVE TInv
  OBVIOUS
<1>1. /\ tdh = 0 /\ tdt = 0 /\ unsent = <<>> /\ TXDESCS \in Nat \ {0}
      /\ tx_desc_array = [i \in 0 .. TXDESCS - 1 |-> Unused]
  BY NetAssumption DEF Init
<1>2. Outgoing(0) = <<>>
  BY DEF Outgoing
<1>3. ASSUME NEW j \in 0 .. TXDESCS - 1
      PROVE  tx_desc_array[(tdh + j) % TXDESCS].dd /\ j >= 0 /\ ~ (j < 0)
  <2>1. (0 + j) % TXDESCS = j
    BY <1>1
  <2> QED BY <1>1, <2>1 DEF Unused
<1>4. (0 + 0) % TXDESCS = 0 /\ 0 \in 0 .. TXDESCS - 1
  BY <1>1
<1>5. unsent = Proper(Outgoing(0))
  BY <1>1, <1>2, ProperEmpty
<1>6. Flying(0)
  BY <1>1, <1>3, <1>4, <1>5 DEF Flying
<1>7. 0 \in 0 .. TXDESCS
  BY <1>1
<1> QED BY <1>6, <1>7 DEF TInv

LEMMA FlyingAlways == TInv /\ [Next]_vars => TInv'
<1> SUFFICES ASSUME TInv, [Next]_vars PROVE TInv'
  OBVIOUS
<1>1. CASE Transmits
  <2>1. PICK n \in 0 .. TXDESCS : Flying(n)
    BY DEF TInv
  <2>2. n - 1 \in 0 .. TXDESCS /\ Flying(n - 1)'
    BY <1>1, <2>1, CardSends
  <2> QED BY <2>2 DEF TInv
<1>2. CASE \E p \in Senders : do_net_send(p)
  <2>1. PICK p \in Senders : do_net_send(p)
    BY <1>2
  <2>2. p \in Frames /\ p # Empty
    BY NetAssumption DEF Frames
  <2>3. e1000_transmit(p) /\ tdh' = tdh /\ unsent' = IF Done THEN Behind(unsent, p) ELSE unsent
    BY <2>1, <2>2 DEF do_net_send, Behind
  <2> QED BY <2>2, <2>3, DriverSends
<1>3. CASE HandleTXQE
  <2>1. CASE send_block_queue # <<>>
    <3>1. Empty \in Frames /\ e1000_transmit(Empty) /\ tdh' = tdh
          /\ unsent' = IF Done THEN Behind(unsent, Empty) ELSE unsent
      BY <1>3, <2>1 DEF HandleTXQE, update_net_send, Frames, Behind
    <3> QED BY <3>1, DriverSends
  <2>2. CASE send_block_queue = <<>>
    BY <1>3, <2>2, StillFlying DEF HandleTXQE, update_net_send, txVars
  <2> QED BY <2>1, <2>2
<1>4. CASE Arrives \/ TakePacket \/ EndsSatisfied \/ EndsWaiting \/ KeepPacket \/ handle_irq_ext
  BY <1>4, StillFlying
     DEF Arrives, TakePacket, EndsSatisfied, EndsWaiting, KeepPacket, handle_irq_ext, txVars
<1>5. CASE \E p \in Receivers : do_net_recv(p)
  BY <1>5, StillFlying DEF do_net_recv, txVars
<1>6. CASE \E p \in Procs : do_kill(p)
  BY <1>6, StillFlying DEF do_kill
<1>7. CASE UNCHANGED vars
  BY <1>7, StillFlying DEF vars, txVars
<1> QED BY <1>1, <1>2, <1>3, <1>4, <1>5, <1>6, <1>7 DEF Next, Loops

(***************************************************************************)
(* What calls reported as sent is in the ring in that order until the card *)
(* has sent it, in a ring of any size, also when the driver has filled it  *)
(* and the card takes it for empty.                                        *)
(***************************************************************************)
THEOREM PacketsSentInOrder == Spec => []SendsInOrder
<1>1. TInv => SendsInOrder
  <2> SUFFICES ASSUME NEW n \in 0 .. TXDESCS, Flying(n) PROVE SendsInOrder
    BY DEF TInv
  <2> DEFINE T == TXDESCS
             m == IF tdh = tdt THEN (IF Done THEN 0 ELSE T) ELSE (tdt - tdh + T) % T
  <2>1. T \in Nat \ {0} /\ tdh \in 0 .. T - 1 /\ tdt = (tdh + n) % T
    BY NetAssumption DEF Flying
  <2>2. m = n
    <3>1. CASE n = 0 \/ n = T
      <4>1. tdt = tdh /\ (tdh + 0) % T = tdh /\ 0 \in 0 .. T - 1
        BY <2>1, <3>1
      <4>2. tx_desc_array[tdt].dd <=> 0 >= n
        BY <4>1 DEF Flying
      <4> QED BY <2>1, <3>1, <4>1, <4>2 DEF Done
    <3>2. CASE n # 0 /\ n # T
      <4>1. n \in 1 .. T - 1
        BY <2>1, <3>2
      <4>2. tdt = tdh + n \/ tdt = tdh + n - T
        BY <2>1, <4>1
      <4>3. tdt - tdh + T = n + T \/ tdt - tdh + T = n
        BY <2>1, <4>1, <4>2
      <4>4. (n + T) % T = n /\ n % T = n
        BY <2>1, <4>1
      <4>5. tdh # tdt
        BY <2>1, <4>1, <4>2
      <4> QED BY <4>3, <4>4, <4>5
    <3> QED BY <3>1, <3>2
  <2>3. InFlight = [k \in 1 .. m |-> tx_desc_array[(tdh + k - 1) % T].pkt]
    BY Zenon DEF InFlight
  <2> HIDE DEF m
  <2> QED BY <2>2, <2>3 DEF SendsInOrder, Flying, Outgoing
<1> QED BY <1>1, FlyingFirst, FlyingAlways, PTL DEF Spec
=============================================================================
