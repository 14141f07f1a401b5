------------------------------ MODULE Mailbox -------------------------------
(***************************************************************************)
(* One mailbox of kernel/locking/lock.c: a bounded buffer of bytes and one *)
(* wait queue for blocked senders and receivers alike.  Whoever completes  *)
(* a transfer walks the queue once and completes the calls of the peers it *)
(* can now serve; a peer never retries.                                    *)
(*                                                                         *)
(* The walk copies from and to pcb.mbox_buf, a virtual address of the peer,*)
(* in the address space of the process that walks: mem is indexed by       *)
(* address space and address.  put and got are history: the bytes accepted *)
(* from senders, and the bytes receivers find in their buffers.  An        *)
(* operator X_y that precedes X is X with a bug.                           *)
(***************************************************************************)
EXTENDS Naturals, FiniteSets, SequencesExt

CONSTANTS
  Procs,
  Space, Addr,   \* the address space of a process and the address of its buffer
  MAX_MBOX_LENGTH, Sizes,
  Junk,          \* a byte no sender sent
  MaxBytes,      \* bound: bytes sent while the mailbox is in use
  MaxRefs        \* bound: opens, counting those of processes killed since

ASSUME MailboxAssumption ==
  /\ Procs \subseteq DOMAIN Space /\ Procs \subseteq DOMAIN Addr
  /\ MAX_MBOX_LENGTH \in Nat /\ Sizes \subseteq Nat \ {0}
  /\ MaxBytes \in Nat /\ MaxRefs \in Nat /\ Junk \notin 1..MaxBytes

VARIABLES
  buffer,        \* the first mboxes[].length bytes
  waiting,       \* mboxes[].wait_queue
  ref_count,
  holders,       \* processes that opened the mailbox and have not closed it
  blocked,       \* processes with status TASK_BLOCKED
  rw, size,      \* pcb.mbox_rw and pcb.mbox_size of a blocked process
  mem,
  sent, put, got,
  asked          \* history: the sizes that sends and receives were called with

vars == <<buffer, waiting, ref_count, holders, blocked, rw, size, mem, sent, put, got, asked>>

Cells == Range(Space) \X Range(Addr)
Own(p) == <<Space[p], Addr[p]>>

Init ==
  /\ buffer = <<>> /\ waiting = <<>> /\ ref_count = 0 /\ holders = {}
  /\ blocked = {} /\ rw = [p \in Procs |-> "none"] /\ size = [p \in Procs |-> 0]
  /\ mem = [c \in Cells |-> <<>>]
  /\ sent = 0 /\ put = <<>> /\ got = <<>> /\ asked = {}

-----------------------------------------------------------------------------
(***************************************************************************)
(* Inside a handler, s is a snapshot of what the walk changes.             *)
(***************************************************************************)
Here == [buffer |-> buffer, waiting |-> waiting, blocked |-> blocked, rw |-> rw,
         mem |-> mem, put |-> put, got |-> got]

Commit(s) ==
  /\ buffer' = s.buffer /\ waiting' = s.waiting /\ blocked' = s.blocked
  /\ rw' = s.rw /\ mem' = s.mem /\ put' = s.put /\ got' = s.got

\* the first k bytes at a cell
Bytes(cell, k) == [i \in 1..k |-> IF i <= Len(cell) THEN cell[i] ELSE Junk]

HasRoom(s, k) == Len(s.buffer) + k <= MAX_MBOX_LENGTH
HasData(s, k) == Len(s.buffer) >= k

\* in the handler of w, k bytes move from the buffer of p to the mailbox ...
CopyIn(s, w, p, k) ==
  [s EXCEPT !.buffer = @ \o Bytes(s.mem[<<Space[w], Addr[p]>>], k),
            !.put    = @ \o Bytes(s.mem[Own(p)], k)]

\* ... and from the mailbox to the buffer of p
CopyOut_noShift(s, w, p, k) ==
  LET m == [s.mem EXCEPT ![<<Space[w], Addr[p]>>] = Bytes(s.buffer, k)]
  IN  [s EXCEPT !.mem = m, !.got = @ \o Bytes(m[Own(p)], k),
                !.buffer = SubSeq(@, 1, Len(@) - k)]

CopyOut(s, w, p, k) ==
  LET m == [s.mem EXCEPT ![<<Space[w], Addr[p]>>] = Bytes(s.buffer, k)]
  IN  [s EXCEPT !.mem = m, !.got = @ \o Bytes(m[Own(p)], k),
                !.buffer = SubSeq(@, k + 1, Len(@))]

Unblock(s, p) == [s EXCEPT !.rw[p] = "none", !.waiting = RemoveFirst(@, p), !.blocked = @ \ {p}]

\* the walks: w serves every blocked receiver, or sender, that it can in turn
ServeReceivers_lastFirst(s, w) == FoldRight(LAMBDA p, t :
  IF t.rw[p] = "recv" /\ HasData(t, size[p]) THEN Unblock(CopyOut(t, w, p, size[p]), p) ELSE t,
  s.waiting, s)

ServeReceivers(s, w) == FoldLeft(LAMBDA t, p :
  IF t.rw[p] = "recv" /\ HasData(t, size[p]) THEN Unblock(CopyOut(t, w, p, size[p]), p) ELSE t,
  s, s.waiting)

ServeSenders_strict(s, w) == FoldLeft(LAMBDA t, p :
  IF t.rw[p] = "send" /\ HasRoom(t, size[p] + 1) THEN Unblock(CopyIn(t, w, p, size[p]), p) ELSE t,
  s, s.waiting)

ServeSenders(s, w) == FoldLeft(LAMBDA t, p :
  IF t.rw[p] = "send" /\ HasRoom(t, size[p]) THEN Unblock(CopyIn(t, w, p, size[p]), p) ELSE t,
  s, s.waiting)

Block(s, p, kind, k) ==
  /\ Commit([s EXCEPT !.waiting = Append(@, p), !.blocked = @ \cup {p}, !.rw[p] = kind])
  /\ size' = [size EXCEPT ![p] = k]

-----------------------------------------------------------------------------
\* do_mbox_open, of the one name: a further reference
do_mbox_open(p) ==
  /\ p \notin blocked \cup holders /\ ref_count < MaxRefs
  /\ ref_count' = ref_count + 1 /\ holders' = holders \cup {p}
  /\ UNCHANGED <<buffer, waiting, blocked, rw, size, mem, sent, put, got, asked>>

\* the last close empties the mailbox and forgets its wait queue
Closed(r) == r = 0

do_mbox_close(p) ==
  /\ p \in holders \ blocked
  /\ ref_count' = ref_count - 1 /\ holders' = holders \ {p}
  /\ IF Closed(ref_count')
     THEN buffer' = <<>> /\ waiting' = <<>> /\ put' = <<>> /\ got' = <<>> /\ sent' = 0 /\ asked' = {}
     ELSE UNCHANGED <<buffer, waiting, put, got, sent, asked>>
  /\ UNCHANGED <<blocked, rw, size, mem>>

\* the caller has just written a message of k new bytes to its buffer
do_mbox_send(p, k) ==
  LET s == [Here EXCEPT !.mem[Own(p)] = [i \in 1..k |-> sent + i]]
  IN  /\ p \in holders \ blocked /\ sent + k <= MaxBytes
      /\ sent' = sent + k /\ asked' = asked \cup {k}
      /\ \/ HasRoom(s, k) /\ Commit(ServeReceivers(CopyIn(s, p, p, k), p)) /\ UNCHANGED size
         \/ ~HasRoom(s, k) /\ Block(s, p, "send", k)
      /\ UNCHANGED <<ref_count, holders>>

do_mbox_recv(p, k) ==
  /\ p \in holders \ blocked /\ asked' = asked \cup {k}
  /\ \/ HasData(Here, k) /\ Commit(ServeSenders(CopyOut(Here, p, p, k), p)) /\ UNCHANGED size
     \/ ~HasData(Here, k) /\ Block(Here, p, "recv", k)
  /\ UNCHANGED <<ref_count, holders, sent>>

\* do_kill unlinks a blocked process and closes nothing; its slot is used again
do_kill(p) ==
  /\ p \in holders
  /\ holders' = holders \ {p} /\ blocked' = blocked \ {p} /\ waiting' = RemoveFirst(waiting, p)
  /\ UNCHANGED <<buffer, ref_count, rw, size, mem, sent, put, got, asked>>

Next == \E p \in Procs :
  \/ do_mbox_open(p) \/ do_mbox_close(p) \/ do_kill(p)
  \/ \E k \in Sizes : do_mbox_send(p, k) \/ do_mbox_recv(p, k)

Spec == Init /\ [][Next]_vars

-----------------------------------------------------------------------------
\* Receivers find the bytes the senders sent, in the order the mailbox
\* accepted them, whoever made the copy: none lost, doubled or torn.
Stream == got \o buffer = put

\* A process blocked in send or receive is on the wait queue, once, and
\* nobody else is: neither a walk nor the last close leaves a sleeper behind.
BlockedWait == Len(waiting) = Cardinality(blocked) /\ ToSet(waiting) = blocked

\* Besides, while all messages have one size, a sender waits only while the
\* mailbox is too full and a receiver only while it is too empty: no walk
\* misses a peer it could have served.  With two sizes a send whose walk
\* empties the mailbox leaves senders asleep that fit (do_mbox_send looks for
\* receivers only).
NoLostWakeup ==
  /\ BlockedWait
  /\ Cardinality(asked) <= 1 => \A p \in blocked :
       \/ rw[p] = "send" /\ ~HasRoom(Here, size[p])
       \/ rw[p] = "recv" /\ ~HasData(Here, size[p])

\* A waiter is served before a later one of its kind that wants as much.
Before(p, q) == \E i, j \in 1..Len(waiting) : i < j /\ waiting[i] = p /\ waiting[j] = q

NoOvertaking == [][\A p, q \in blocked :
  (Before(p, q) /\ rw[p] = rw[q] /\ size[p] <= size[q] /\ rw'[q] = "none")
    => rw'[p] = "none"]_vars
=============================================================================
