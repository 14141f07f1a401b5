------------------------------ MODULE NetProps ------------------------------
(***************************************************************************)
(* What the network code must keep true.                                   *)
(***************************************************************************)
EXTENDS Net

\* the numbers from a up to, not including, b
Numbers(a, b) == [k \in 1 .. (b - a + Ids) % Ids |-> (a + k - 1) % Ids]

\* the frames from the card's end of the transmit ring, oldest first; a ring
\* that the driver has filled completely looks empty to the card
InFlight ==
  LET n == IF tdh = tdt THEN (IF Done THEN 0 ELSE TXDESCS) ELSE (tdt - tdh + TXDESCS) % TXDESCS
  IN  [k \in 1 .. n |-> tx_desc_array[(tdh + k - 1) % TXDESCS].pkt]

\* those that are not empty
Proper(frames) ==
  LET f[n \in 0 .. Len(frames)] ==
        IF n = 0 THEN <<>> ELSE IF frames[n] = Empty THEN f[n-1] ELSE Append(f[n-1], frames[n])
  IN  f[Len(frames)]

(***************************************************************************)
(* Every packet that do_net_send reported as transmitted is on the wire or *)
(* in the ring, in the order of the calls, once: no descriptor is filled   *)
(* again before the card has sent it (e1000.c:143-150, net.c:30-53).       *)
(***************************************************************************)
SendsInOrder == Proper(InFlight) = unsent

\* packets the kernel keeps, then packets in the ring, oldest first
Kept == LET slot(k) == pk[(pt + k - 1) % RECV_BUFFER_NUM]
            n == IF pk[pt].dd /\ pt = ph THEN RECV_BUFFER_NUM
                 ELSE (ph - pt + RECV_BUFFER_NUM) % RECV_BUFFER_NUM
        IN  [k \in 1 .. n |-> slot(k).pkt]

Filled == [k \in 1 .. (rdh - rdt - 1 + RXDESCS) % RXDESCS |-> rx_desc_array[(rdt + k) % RXDESCS].pkt]

(***************************************************************************)
(* What the programs have still to get, from the kernel's buffer and then  *)
(* from the ring, is exactly what has arrived since the last packet a call *)
(* took, in order: the card never overwrites a packet nobody has taken,    *)
(* and no packet is taken twice or before an older one, although calls,    *)
(* the interrupt handler and the card work on one ring (e1000.c:168-187,   *)
(* net.c:65-107, 140-153).                                                 *)
(***************************************************************************)
ReceivesInOrder == Kept \o Filled = Numbers(polled, arrived)

Bytes(lens) ==
  LET cat[n \in 0 .. Len(lens)] == IF n = 0 THEN <<>> ELSE cat[n-1] \o [k \in 1 .. lens[n] |-> lens[n]]
  IN  cat[Len(lens)]

(***************************************************************************)
(* The buffer of a receive holds the packets its length array counts, one  *)
(* after the other, and the next goes behind them, also when the buffer is *)
(* filled in several interrupts (net.c:71-88, 120-126).                    *)
(***************************************************************************)
BuffersPacked ==
  \A p \in Receivers :
    LET b == Bytes(net[p].lens)
    IN  /\ \A k \in 1 .. Len(b) : buffer[p][k - 1] = b[k]
        /\ InLoop /\ kernel.proc = p => kernel.bias = Len(b)

(***************************************************************************)
(* A receiver never sleeps over a full ring: the card is silent then, so   *)
(* nothing but an interrupt that is already pending can wake it            *)
(* (net.c:78-94, 120-136, e1000.c:48, 114).                                *)
(***************************************************************************)
NoDeafReceiver ==
  /\ recv_block_queue # <<>> /\ kernel.mode \in {"user", "txqe"} /\ rdh = rdt
  => "RXDMT0" \in icr \cap ims

(***************************************************************************)
(* While packets keep arriving a blocked receiver gets what it asked for,  *)
(* unless calls of other programs take packets past it for ever: the       *)
(* interrupt comes when half the ring is full, and serves the first in the *)
(* queue only (net.c:67-94).                                               *)
(***************************************************************************)
Waits(p)  == \E k \in DOMAIN recv_block_queue : recv_block_queue[k] = p
PassesBy  == recv_block_queue # <<>> /\ \E p \in Receivers : do_net_recv(p)

ReceiversServed == (\A p \in Receivers : Waits(p) ~> ~Waits(p)) \/ []<><<PassesBy>>_vars
=============================================================================
