-------------------------------- MODULE Net --------------------------------
(***************************************************************************)
(* The network: the system calls and interrupt handlers of net.c, the      *)
(* driver of the e1000 card and the PLIC, and the card itself, which moves *)
(* its end of the two descriptor rings at any time, also between two polls *)
(* of one handler.  Handlers run under the big kernel lock, so there is    *)
(* one at a time: kernel says which, and what it has still to do.          *)
(*                                                                         *)
(* A packet that is sent bears the name of its sender.  Packets that       *)
(* arrive are numbered, modulo Ids; packet n is Size(n) bytes long, and    *)
(* its bytes are that number.  A program takes its packets away when the   *)
(* call returns.                                                           *)
(***************************************************************************)
EXTENDS Integers, Sequences

CONSTANTS
  Senders, Receivers, \* programs
  TXDESCS, RXDESCS, \* descriptors in the rings
  RECV_BUFFER_NUM,  \* packets the kernel keeps for nobody
  NrIrqs,           \* what the device tree says
  MaxNum,           \* bound: packets asked for in one call
  Ids               \* bound: packets are numbered modulo Ids

Empty == "empty"                  \* a frame of length 0

ASSUME NetAssumption ==
  /\ TXDESCS \in Nat \ {0} /\ RXDESCS \in Nat \ {0, 1} /\ RECV_BUFFER_NUM \in Nat \ {0}
  /\ NrIrqs \in Nat /\ MaxNum \in Nat /\ Empty \notin Senders
  /\ Ids \in Nat /\ Ids >= RXDESCS + RECV_BUFFER_NUM

Procs == Senders \cup Receivers

VARIABLES
  tdh, tdt, tx_desc_array,    \* transmit ring: device's end, driver's end, [dd, pkt]
  rdh, rdt, rx_desc_array,    \* receive ring
  icr, ims,                   \* causes pending and enabled, of {"RXDMT0", "TXQE"}
  send_block_queue, recv_block_queue,
  net,                        \* net_length, net_curr_num, pkt_lens of each program's receive
  buffer,                     \* rxbuffer of each program
  ph, pt, pk,                 \* packets kept by the kernel, [dd, pkt]
  kernel,                     \* the handler that runs
  unsent,                     \* history: what calls have handed over and is not on the wire
  arrived, polled             \* history: packets taken by the card, by programs

txVars == <<tdh, tdt, tx_desc_array, send_block_queue, unsent>>
rxRing == <<rdh, rdt, rx_desc_array, arrived>>
rxSoft == <<recv_block_queue, net, buffer, ph, pt, pk, polled>>
vars   == <<txVars, rxRing, rxSoft, icr, ims, kernel>>

Succ(i, n) == IF i + 1 = n THEN 0 ELSE i + 1

Unused  == [dd |-> TRUE, pkt |-> Empty]
Vacant  == [dd |-> FALSE, pkt |-> 0]
Size(n) == 1 + (n % 2)
Offsets == 0 .. 2 * MaxNum - 1
NoCall  == [length |-> 0, curr_num |-> 0, lens |-> <<>>]
Blank   == [o \in Offsets |-> 0]

\* do_net_recv or update_net_recv for proc, at packet i and byte bias;
\* update_net_recv for nobody; update_net_send.  txqe: update_net_send follows.
User  == [mode |-> "user"]
Receiving(mode, p, num, i, bias, txqe) ==
  [mode |-> mode, proc |-> p, num |-> num, i |-> i, bias |-> bias, txqe |-> txqe]

\* e1000_reset, e1000_configure_tx, e1000_configure_rx
Init ==
  /\ tdh = 0 /\ tdt = 0
  /\ tx_desc_array = [i \in 0 .. TXDESCS - 1 |-> Unused]
  /\ rdh = 0 /\ rdt = RXDESCS - 1
  /\ rx_desc_array = [i \in 0 .. RXDESCS - 1 |-> Vacant]
  /\ icr = {} /\ ims = {"TXQE", "RXDMT0"}
  /\ send_block_queue = <<>> /\ recv_block_queue = <<>>
  /\ net = [p \in Receivers |-> NoCall]
  /\ buffer = [p \in Receivers |-> Blank]
  /\ ph = 0 /\ pt = 0 /\ pk = [k \in 0 .. RECV_BUFFER_NUM - 1 |-> Vacant]
  /\ kernel = User
  /\ unsent = <<>> /\ arrived = 0 /\ polled = 0

Blocked(p) == \/ \E k \in DOMAIN send_block_queue : send_block_queue[k] = p
              \/ \E k \in DOMAIN recv_block_queue : recv_block_queue[k] = p

Calls(p) == kernel.mode = "user" /\ ~Blocked(p)

-----------------------------------------------------------------------------
(***************************************************************************)
(* The card.                                                               *)
(***************************************************************************)
Transmits ==
  /\ tdh # tdt
  /\ tx_desc_array' = [tx_desc_array EXCEPT ![tdh] = Unused]
  /\ tdh' = Succ(tdh, TXDESCS)
  /\ unsent' = IF tx_desc_array[tdh].pkt = Empty THEN unsent ELSE Tail(unsent)
  /\ icr' = IF tdh' = tdt THEN icr \cup {"TXQE"} ELSE icr
  /\ UNCHANGED <<tdt, send_block_queue, rxRing, rxSoft, ims, kernel>>

\* descriptors the card may still fill
Free(h, t) == IF t >= h THEN t - h ELSE t + RXDESCS - h

Arrives ==
  /\ rdh # rdt
  /\ rx_desc_array' = [rx_desc_array EXCEPT ![rdh] = [dd |-> TRUE, pkt |-> arrived]]
  /\ rdh' = Succ(rdh, RXDESCS) /\ arrived' = Succ(arrived, Ids)
  /\ icr' = IF 2 * Free(rdh', rdt) <= RXDESCS THEN icr \cup {"RXDMT0"} ELSE icr
  /\ UNCHANGED <<rdt, txVars, rxSoft, ims, kernel>>

-----------------------------------------------------------------------------
(***************************************************************************)
(* Sending.                                                                *)
(***************************************************************************)
Done == tx_desc_array[tdt].dd

\* the frame goes to descriptor tdt
Queue(pkt) ==
  /\ tx_desc_array' = [tx_desc_array EXCEPT ![tdt] = [dd |-> FALSE, pkt |-> pkt]]
  /\ tdt' = Succ(tdt, TXDESCS)

\* forgets to look at the descriptor
e1000_transmit_unchecked(pkt) == Queue(pkt)

e1000_transmit(pkt) == IF Done THEN Queue(pkt) ELSE UNCHANGED <<tx_desc_array, tdt>>

\* a call that has to block has overwritten its length with 0
do_net_send(p) ==
  /\ Calls(p)
  /\ ims' = ims \cup {"TXQE"}
  /\ e1000_transmit(p)
  /\ unsent' = IF Done THEN Append(unsent, p) ELSE unsent
  /\ send_block_queue' = IF Done THEN send_block_queue ELSE Append(send_block_queue, p)
  /\ UNCHANGED <<tdh, rxRing, rxSoft, icr, kernel>>

\* the first blocked sender goes on, whether its frame was accepted or not
update_net_send ==
  \/ /\ send_block_queue # <<>>
     /\ e1000_transmit(Empty) /\ send_block_queue' = Tail(send_block_queue)
     /\ UNCHANGED <<tdh, unsent, ims>>
  \/ /\ send_block_queue = <<>>
     /\ ims' = ims \ {"TXQE"} /\ UNCHANGED txVars

-----------------------------------------------------------------------------
(***************************************************************************)
(* Receiving.                                                              *)
(***************************************************************************)
InRing   == rx_desc_array[Succ(rdt, RXDESCS)].dd
Received == rx_desc_array[Succ(rdt, RXDESCS)].pkt

e1000_poll ==
  /\ rx_desc_array' = [rx_desc_array EXCEPT ![Succ(rdt, RXDESCS)] = Vacant]
  /\ rdt' = Succ(rdt, RXDESCS) /\ UNCHANGED <<rdh, arrived>>

\* poll() finds a packet: the oldest
Found  == pk[pt].dd \/ InRing
Oldest == IF pk[pt].dd THEN pk[pt].pkt ELSE Received

poll_ringFirst ==
  /\ polled' = Succ(polled, Ids)
  /\ IF InRing THEN e1000_poll /\ UNCHANGED <<pk, pt>>
     ELSE pk' = [pk EXCEPT ![pt] = Vacant] /\ pt' = Succ(pt, RECV_BUFFER_NUM) /\ UNCHANGED rxRing

poll ==
  /\ polled' = Succ(polled, Ids)
  /\ IF pk[pt].dd
       THEN pk' = [pk EXCEPT ![pt] = Vacant] /\ pt' = Succ(pt, RECV_BUFFER_NUM) /\ UNCHANGED rxRing
       ELSE e1000_poll /\ UNCHANGED <<pk, pt>>

Copied(p) ==
  buffer' = [buffer EXCEPT ![p] = [o \in Offsets |->
               IF o \in kernel.bias .. kernel.bias + Size(Oldest) - 1 THEN Size(Oldest) ELSE @[o]]]

do_net_recv(p) == \E num \in 0 .. MaxNum :
  /\ Calls(p)
  /\ kernel' = Receiving("call", p, num, 0, 0, FALSE)
  /\ UNCHANGED <<txVars, rxRing, rxSoft, icr, ims>>

InLoop == kernel.mode \in {"call", "irq"}
Leave  == kernel' = IF kernel.txqe THEN [mode |-> "txqe"] ELSE User

\* one turn of the loop of do_net_recv or update_net_recv
TakePacket ==
  /\ InLoop /\ Found /\ kernel.i < kernel.num
  /\ poll /\ Copied(kernel.proc)
  /\ net' = [net EXCEPT ![kernel.proc].lens = Append(SubSeq(@, 1, kernel.i), Size(Oldest))]
  /\ kernel' = [kernel EXCEPT !.i = @ + 1, !.bias = @ + Size(Oldest)]
  /\ UNCHANGED <<txVars, recv_block_queue, ph, icr, ims>>

LeftWaiting ==
  /\ net' = [net EXCEPT ![kernel.proc].curr_num = kernel.i, ![kernel.proc].length = kernel.num]
  /\ recv_block_queue' = IF kernel.mode = "call" THEN Append(recv_block_queue, kernel.proc)
                                                 ELSE recv_block_queue

\* The loop polls before it looks whether a packet is wanted: one more goes
\* behind those that were, and is forgotten.
EndsSatisfied ==
  /\ InLoop /\ kernel.i = kernel.num
  /\ IF Found THEN poll ELSE UNCHANGED <<pk, pt, rxRing, polled>>
  /\ recv_block_queue' = IF kernel.mode = "irq" THEN Tail(recv_block_queue) ELSE recv_block_queue
  /\ Leave
  /\ net' = [net EXCEPT ![kernel.proc] = NoCall] /\ buffer' = [buffer EXCEPT ![kernel.proc] = Blank]
  /\ UNCHANGED <<txVars, ph, icr, ims>>

EndsWaiting ==
  /\ InLoop /\ kernel.i < kernel.num /\ ~Found
  /\ LeftWaiting /\ Leave
  /\ UNCHANGED <<txVars, rxRing, buffer, ph, pt, pk, polled, icr, ims>>

\* update_net_recv with nobody waiting: one turn of its loop
KeepPacket ==
  /\ kernel.mode = "keep"
  /\ IF ~pk[ph].dd /\ InRing
       THEN /\ e1000_poll /\ pk' = [pk EXCEPT ![ph] = [dd |-> TRUE, pkt |-> Received]]
            /\ ph' = Succ(ph, RECV_BUFFER_NUM) /\ UNCHANGED kernel
       ELSE Leave /\ UNCHANGED <<rxRing, pk, ph>>
  /\ UNCHANGED <<txVars, recv_block_queue, net, buffer, pt, polled, icr, ims>>

-----------------------------------------------------------------------------
(***************************************************************************)
(* Interrupts.                                                             *)
(***************************************************************************)
\* plic_init enables the line of the card in the emulator or, when there are
\* fewer lines, of the card on the board; handle_irq_ext knows only the first
PLIC_E1000_IRQ == 33
Line == IF NrIrqs + 1 > 33 THEN 33 ELSE 3

\* the bytes before the first packet still missing
Bias_zero(p) == 0

Bias(p) ==
  LET sum[n \in 0 .. net[p].curr_num] == IF n = 0 THEN 0 ELSE sum[n-1] + net[p].lens[n]
  IN  sum[net[p].curr_num]

\* the queue is looked at when nobody waits
update_net_recv(txqe) ==
  IF recv_block_queue # <<>>
    THEN LET p == Head(recv_block_queue)
         IN  kernel' = Receiving("irq", p, net[p].length, net[p].curr_num, Bias(p), txqe)
    ELSE kernel' = [mode |-> "keep", txqe |-> txqe]

\* answers one cause of the two that may be pending
handle_irq_ext_oneCause ==
  /\ kernel.mode = "user" /\ icr \cap ims # {} /\ Line = PLIC_E1000_IRQ
  /\ icr' = {}
  /\ IF "TXQE" \in icr THEN kernel' = [mode |-> "txqe"] ELSE update_net_recv(FALSE)
  /\ UNCHANGED <<txVars, rxRing, rxSoft, ims>>

\* handle_irq_ext with net_handle_irq: reading ICR clears it
handle_irq_ext ==
  /\ kernel.mode = "user" /\ icr \cap ims # {} /\ Line = PLIC_E1000_IRQ
  /\ icr' = {}
  /\ IF "RXDMT0" \in icr THEN update_net_recv("TXQE" \in icr) ELSE kernel' = [mode |-> "txqe"]
  /\ UNCHANGED <<txVars, rxRing, rxSoft, ims>>

HandleTXQE ==
  /\ kernel.mode = "txqe" /\ update_net_send /\ kernel' = User
  /\ UNCHANGED <<rxRing, rxSoft, icr>>

\* a blocked program is killed (do_kill unlinks it)
Without(q, p) ==
  IF \E k \in DOMAIN q : q[k] = p
    THEN LET at == CHOOSE k \in DOMAIN q : q[k] = p
         IN  SubSeq(q, 1, at - 1) \o SubSeq(q, at + 1, Len(q))
    ELSE q

do_kill(p) ==
  /\ kernel.mode = "user" /\ Blocked(p)
  /\ send_block_queue' = Without(send_block_queue, p)
  /\ recv_block_queue' = Without(recv_block_queue, p)
  /\ net' = [q \in Receivers |-> IF q = p THEN NoCall ELSE net[q]]
  /\ buffer' = [q \in Receivers |-> IF q = p THEN Blank ELSE buffer[q]]
  /\ UNCHANGED <<tdh, tdt, tx_desc_array, unsent, rxRing, ph, pt, pk, polled, icr, ims, kernel>>

Loops == TakePacket \/ EndsSatisfied \/ EndsWaiting \/ KeepPacket \/ HandleTXQE

Next ==
  \/ Transmits \/ Arrives \/ Loops \/ handle_irq_ext
  \/ \E p \in Senders : do_net_send(p)
  \/ \E p \in Receivers : do_net_recv(p)
  \/ \E p \in Procs : do_kill(p)

\* handlers end, interrupts are taken (some CPU is always in user mode or
\* idle with interrupts on) and packets keep arriving
Fairness == WF_vars(Loops) /\ WF_vars(handle_irq_ext) /\ WF_vars(Arrives)

Spec == Init /\ [][Next]_vars /\ Fairness
=============================================================================
