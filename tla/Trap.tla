-------------------------------- MODULE Trap --------------------------------
(***************************************************************************)
(* The way into the kernel and out of it: SAVE_CONTEXT, lock_kernel, the   *)
(* handler, unlock_kernel and RESTORE_CONTEXT of arch/riscv/kernel/entry.S *)
(* with the big kernel lock of kernel/smp/smp.c.  Kernel takes all of this *)
(* as one action; here the two ends run outside the lock, and the handler  *)
(* goes on using the context and the kernel stack of the task it entered   *)
(* with after do_scheduler has put another one in tp.                      *)
(*                                                                         *)
(* The registers of a task are one value.  An operator X_y that precedes X *)
(* is X with a bug.                                                        *)
(***************************************************************************)
EXTENDS Naturals

CONSTANTS
  Harts, Tasks,  \* Tasks: pcb[] and the idle tasks
  Values,        \* of the registers
  None,
  KernelFaults   \* may a handler touch user memory that is not mapped?

ASSUME TrapAssumption == None \notin Harts /\ KernelFaults \in BOOLEAN

VARIABLES
  pc,       \* where a CPU is: user, spin, handler, result, restore
  tp,       \* current_running
  regs,     \* the registers of a CPU
  stack,    \* the task whose kernel stack and context the handler uses
  context,  \* what SAVE_CONTEXT stored at pcb.kernel_sp
  ready,    \* tasks that do_scheduler may pick
  blocked,
  locked,
  holder,   \* history: the CPU that took the lock
  own       \* history: the registers as the task left them or a handler set them

trapVars == <<pc, tp, regs, stack, context, ready, blocked, locked, holder, own>>

TypeOK ==
  /\ pc \in [Harts -> {"user", "spin", "handler", "result", "restore"}]
  /\ tp \in [Harts -> Tasks] /\ stack \in [Harts -> Tasks]
  /\ regs \in [Harts -> Values] /\ context \in [Tasks -> Values] /\ own \in [Tasks -> Values]
  /\ ready \subseteq Tasks /\ blocked \subseteq Tasks
  /\ locked \in BOOLEAN /\ holder \in Harts \cup {None}

\* Both CPUs idle, the first processes ready with the context that
\* do_exec made for them.
TrapInit ==
  /\ pc = [h \in Harts |-> "user"]
  /\ tp \in [Harts -> Tasks] /\ (\A g, h \in Harts : tp[g] = tp[h] => g = h) /\ stack = tp
  /\ own \in [Tasks -> Values] /\ context = own /\ regs = [h \in Harts |-> own[tp[h]]]
  /\ ready = Tasks \ {tp[h] : h \in Harts} /\ blocked = {}
  /\ locked = FALSE /\ holder = None

-----------------------------------------------------------------------------
\* the task computes
User(h) == \E v \in Values :
  /\ pc[h] = "user"
  /\ regs' = [regs EXCEPT ![h] = v] /\ own' = [own EXCEPT ![tp[h]] = v]
  /\ UNCHANGED <<pc, tp, stack, context, ready, blocked, locked, holder>>

\* Where a trap finds the CPU.  Interrupts are off in the kernel: only a fault
\* of a handler can come from there.
Interruptible == IF KernelFaults THEN {"user", "handler", "result"} ELSE {"user"}

\* an interrupt, a system call or a fault: exception_handler_entry, which
\* starts on the kernel stack of the task in tp
SaveContext(h) == \E v \in Values :
  /\ pc[h] \in Interruptible /\ (pc[h] = "user" => v = regs[h])
  /\ pc' = [pc EXCEPT ![h] = "spin"]
  /\ context' = [context EXCEPT ![tp[h]] = v]
  /\ stack' = [stack EXCEPT ![h] = tp[h]]
  /\ UNCHANGED <<tp, regs, ready, blocked, locked, holder, own>>

lock_kernel_unchecked(h) ==
  /\ pc[h] = "spin"
  /\ locked' = TRUE /\ holder' = h /\ pc' = [pc EXCEPT ![h] = "handler"]
  /\ UNCHANGED <<tp, regs, stack, context, ready, blocked, own>>

\* the swap that finds the lock free
lock_kernel(h) ==
  /\ pc[h] = "spin" /\ ~locked
  /\ locked' = TRUE /\ holder' = h /\ pc' = [pc EXCEPT ![h] = "handler"]
  /\ UNCHANGED <<tp, regs, stack, context, ready, blocked, own>>

\* A handler wakes a task, ...
Wake(h) == \E t \in blocked :
  /\ pc[h] = "handler"
  /\ ready' = ready \cup {t} /\ blocked' = blocked \ {t}
  /\ UNCHANGED <<pc, tp, regs, stack, context, locked, holder, own>>

\* ... or calls do_scheduler, which puts a ready task in tp and queues the old
\* one, to run again or to wait, ...
do_scheduler(h) == \E t \in ready :
  /\ pc[h] = "handler"
  /\ pc' = [pc EXCEPT ![h] = "result"] /\ tp' = [tp EXCEPT ![h] = t]
  /\ \/ ready' = (ready \ {t}) \cup {tp[h]} /\ UNCHANGED blocked
     \/ ready' = ready \ {t} /\ blocked' = blocked \cup {tp[h]}
  /\ UNCHANGED <<regs, stack, context, locked, holder, own>>

\* ... or goes on with the same task.
Stay(h) ==
  /\ pc[h] = "handler" /\ pc' = [pc EXCEPT ![h] = "result"]
  /\ UNCHANGED <<tp, regs, stack, context, ready, blocked, locked, holder, own>>

\* handle_syscall stores the result and the new sepc in the context that the
\* handler was entered with, whoever is current now
SetResult(h) == \E v \in Values :
  /\ pc[h] = "result"
  /\ context' = [context EXCEPT ![stack[h]] = v] /\ own' = [own EXCEPT ![stack[h]] = v]
  /\ UNCHANGED <<pc, tp, regs, stack, ready, blocked, locked, holder>>

unlock_kernel_early(h) ==
  /\ pc[h] \in {"handler", "result"}
  /\ locked' = FALSE /\ holder' = None
  /\ pc' = [pc EXCEPT ![h] = IF @ = "result" THEN "restore" ELSE @]
  /\ UNCHANGED <<tp, regs, stack, context, ready, blocked, own>>

unlock_kernel_unswitched(h) ==
  /\ pc[h] = "result" /\ pc' = [pc EXCEPT ![h] = "restore"]
  /\ locked' = (stack[h] # tp[h]) /\ holder' = (IF stack[h] = tp[h] THEN None ELSE holder)
  /\ UNCHANGED <<tp, regs, stack, context, ready, blocked, own>>

\* ret_from_exception
unlock_kernel(h) ==
  /\ pc[h] = "result"
  /\ locked' = FALSE /\ holder' = None /\ pc' = [pc EXCEPT ![h] = "restore"]
  /\ UNCHANGED <<tp, regs, stack, context, ready, blocked, own>>

RestoreContext_entered(h) ==
  /\ pc[h] = "restore" /\ pc' = [pc EXCEPT ![h] = "user"]
  /\ regs' = [regs EXCEPT ![h] = context[stack[h]]]
  /\ UNCHANGED <<tp, stack, context, ready, blocked, locked, holder, own>>

RestoreContext(h) ==
  /\ pc[h] = "restore" /\ pc' = [pc EXCEPT ![h] = "user"]
  /\ regs' = [regs EXCEPT ![h] = context[tp[h]]]
  /\ UNCHANGED <<tp, stack, context, ready, blocked, locked, holder, own>>

InKernel(h) == \/ lock_kernel(h) \/ do_scheduler(h) \/ Stay(h) \/ unlock_kernel(h)
               \/ RestoreContext(h)

TrapNext == \E h \in Harts :
  User(h) \/ SaveContext(h) \/ Wake(h) \/ SetResult(h) \/ InKernel(h)

TrapSpec == TrapInit /\ [][TrapNext]_trapVars

\* a CPU in the kernel keeps running
FairSpec == TrapSpec /\ \A h \in Harts : WF_trapVars(InKernel(h))

-----------------------------------------------------------------------------
InHandler(h) == pc[h] \in {"handler", "result"}

\* One CPU at a time is between lock_kernel and unlock_kernel, and only then
\* is the lock taken: the handlers of Kernel are atomic.
MutualExclusion ==
  /\ \A g, h \in Harts : InHandler(g) /\ InHandler(h) => g = h
  /\ locked <=> \E h \in Harts : InHandler(h)

\* Two CPUs never use one kernel stack, although a handler stays on the stack
\* of a task it has put back in the ready queue.
OnStack(h) == pc[h] \in {"spin", "handler", "result"}
StacksApart == \A g, h \in Harts : OnStack(g) /\ OnStack(h) /\ stack[g] = stack[h] => g = h

\* A task returns to user mode, on whatever CPU, with the registers it left
\* user mode with, except for what a handler stored for it.
ContextsKept ==
  /\ \A h \in Harts : pc[h] = "user" => regs[h] = own[tp[h]]
  /\ \A t \in ready \cup blocked : context[t] = own[t]

\* A CPU never waits for a lock that it holds.
NoSelfWait == \A h \in Harts : pc[h] = "spin" => holder # h

\* The kernel lock is always released again.
LockReleased == locked ~> ~locked

(***************************************************************************)
(* The inductive invariant: the task in tp of a CPU is on no other CPU and *)
(* in no queue; a CPU that waits for the lock is still on the stack of its *)
(* own task; a CPU inside, and only it, may be on the stack of a task that *)
(* is in a queue, but not on that of a task another CPU has in tp.         *)
(***************************************************************************)
IInv ==
  /\ TypeOK /\ MutualExclusion /\ ContextsKept
  /\ ready \cap blocked = {}
  /\ \A g, h \in Harts : tp[g] = tp[h] => g = h
  /\ \A h \in Harts :
       /\ tp[h] \notin ready \cup blocked
       /\ pc[h] \in {"spin", "handler"} => stack[h] = tp[h]
       /\ pc[h] = "result" => stack[h] \in ready \cup blocked \cup {tp[h]}
       /\ pc[h] # "user" => context[tp[h]] = own[tp[h]]
=============================================================================
