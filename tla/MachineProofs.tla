--------------------------- MODULE MachineProofs ---------------------------
(***************************************************************************)
(* Three parts that know nothing of the scheduler's queues: the way into   *)
(* the kernel and out of it, proved of Trap for any number of CPUs and     *)
(* tasks while no handler faults; the booting of both harts, proved of     *)
(* Boot; and what the file system leaves on the disk, proved of Files.     *)
(***************************************************************************)
EXTENDS Trap, Boot, FilesProps, Recursion

LEMMA InitInv == TrapInit => IInv
<1> SUFFICES ASSUME TrapInit PROVE IInv
  OBVIOUS
<1> USE DEF TrapInit
<1>1. TypeOK
  BY DEF TypeOK
<1>2. MutualExclusion
  BY DEF MutualExclusion, InHandler
<1>3. ContextsKept
  BY DEF ContextsKept
<1>4. ready \cap blocked = {} /\ \A g, h \in Harts : tp[g] = tp[h] => g = h
  OBVIOUS
<1>5. \A h \in Harts : /\ tp[h] \notin ready \cup blocked
                       /\ pc[h] = "user"
  OBVIOUS
<1> QED BY <1>1, <1>2, <1>3, <1>4, <1>5 DEF IInv

(***************************************************************************)
(* One action at a time.                                                   *)
(***************************************************************************)
LEMMA UserInv ==
  ASSUME IInv, NEW h \in Harts, User(h) PROVE IInv'
BY DEF User, IInv, TypeOK, MutualExclusion, ContextsKept, InHandler

LEMMA SaveInv ==
  ASSUME ~KernelFaults, IInv, NEW h \in Harts, SaveContext(h) PROVE IInv'
<1>1. PICK v \in Values :
        /\ pc[h] = "user" /\ v = regs[h]
        /\ pc' = [pc EXCEPT ![h] = "spin"]
        /\ context' = [context EXCEPT ![tp[h]] = v]
        /\ stack' = [stack EXCEPT ![h] = tp[h]]
        /\ UNCHANGED <<tp, regs, ready, blocked, locked, holder, own>>
  BY DEF SaveContext, Interruptible
<1> USE <1>1 DEF IInv
<1>2. TypeOK'
  BY DEF TypeOK
<1>3. MutualExclusion'
  BY DEF TypeOK, MutualExclusion, InHandler
<1>4. ContextsKept'
  BY DEF TypeOK, ContextsKept
<1>5. (\A g \in Harts :
         /\ tp[g] \notin ready \cup blocked
         /\ pc[g] \in {"spin", "handler"} => stack[g] = tp[g]
         /\ pc[g] = "result" => stack[g] \in ready \cup blocked \cup {tp[g]}
         /\ pc[g] # "user" => context[tp[g]] = own[tp[g]])'
  BY DEF TypeOK, ContextsKept
<1> QED BY <1>2, <1>3, <1>4, <1>5

LEMMA LockInv ==
  ASSUME IInv, NEW h \in Harts, lock_kernel(h) PROVE IInv'
BY DEF lock_kernel, IInv, TypeOK, MutualExclusion, ContextsKept, InHandler

LEMMA UnlockInv ==
  ASSUME IInv, NEW h \in Harts, unlock_kernel(h) PROVE IInv'
<1> USE DEF unlock_kernel, IInv, TypeOK
<1>1. TypeOK'
  OBVIOUS
<1>2. MutualExclusion'
  BY DEF MutualExclusion, InHandler
<1>3. ContextsKept'
  BY DEF ContextsKept
<1>4. (\A g \in Harts :
         /\ tp[g] \notin ready \cup blocked
         /\ pc[g] \in {"spin", "handler"} => stack[g] = tp[g]
         /\ pc[g] = "result" => stack[g] \in ready \cup blocked \cup {tp[g]}
         /\ pc[g] # "user" => context[tp[g]] = own[tp[g]])'
  OBVIOUS
<1> QED BY <1>1, <1>2, <1>3, <1>4

LEMMA WakeInv ==
  ASSUME IInv, NEW h \in Harts, Wake(h) PROVE IInv'
BY DEF Wake, IInv, TypeOK, MutualExclusion, ContextsKept, InHandler

LEMMA StayInv ==
  ASSUME IInv, NEW h \in Harts, Stay(h) PROVE IInv'
BY DEF Stay, IInv, TypeOK, MutualExclusion, ContextsKept, InHandler

\* The task that a CPU leaves is on no other CPU, and the handler that stays
\* on its stack keeps the kernel lock.
LEMMA SchedulerInv ==
  ASSUME IInv, NEW h \in Harts, do_scheduler(h) PROVE IInv'
<1>1. PICK t \in ready :
        /\ pc[h] = "handler"
        /\ pc' = [pc EXCEPT ![h] = "result"] /\ tp' = [tp EXCEPT ![h] = t]
        /\ \/ ready' = (ready \ {t}) \cup {tp[h]} /\ UNCHANGED blocked
           \/ ready' = ready \ {t} /\ blocked' = blocked \cup {tp[h]}
        /\ UNCHANGED <<regs, stack, context, locked, holder, own>>
  BY DEF do_scheduler
<1> USE <1>1 DEF IInv
<1>2. TypeOK'
  BY DEF TypeOK
<1>3. MutualExclusion'
  BY DEF TypeOK, MutualExclusion, InHandler
<1>4. context[t] = own[t] /\ context[tp[h]] = own[tp[h]]
  BY DEF ContextsKept
<1>5. ContextsKept'
  BY <1>4 DEF TypeOK, ContextsKept
<1>6. (ready \cap blocked)' = {}
  BY DEF TypeOK
<1>7. (\A g, k \in Harts : tp[g] = tp[k] => g = k)'
  BY DEF TypeOK
<1>8. (\A g \in Harts :
         /\ tp[g] \notin ready \cup blocked
         /\ pc[g] \in {"spin", "handler"} => stack[g] = tp[g]
         /\ pc[g] = "result" => stack[g] \in ready \cup blocked \cup {tp[g]}
         /\ pc[g] # "user" => context[tp[g]] = own[tp[g]])'
  <2> SUFFICES ASSUME NEW g \in Harts
               PROVE  (/\ tp[g] \notin ready \cup blocked
                       /\ pc[g] \in {"spin", "handler"} => stack[g] = tp[g]
                       /\ pc[g] = "result" => stack[g] \in ready \cup blocked \cup {tp[g]}
                       /\ pc[g] # "user" => context[tp[g]] = own[tp[g]])'
    OBVIOUS
  <2>1. CASE g = h
    BY <1>4, <2>1 DEF TypeOK
  <2>2. CASE g # h
    <3>1. pc[g] # "result"
      BY <2>2 DEF MutualExclusion, InHandler
    <3> QED BY <2>2, <3>1 DEF TypeOK
  <2> QED BY <2>1, <2>2
<1> QED BY <1>2, <1>3, <1>5, <1>6, <1>7, <1>8

\* The stack the result is stored through belongs to no task on another CPU.
LEMMA ResultInv ==
  ASSUME IInv, NEW h \in Harts, SetResult(h) PROVE IInv'
<1>1. PICK v \in Values :
        /\ pc[h] = "result"
        /\ context' = [context EXCEPT ![stack[h]] = v] /\ own' = [own EXCEPT ![stack[h]] = v]
        /\ UNCHANGED <<pc, tp, regs, stack, ready, blocked, locked, holder>>
  BY DEF SetResult
<1>2. \A g \in Harts : pc[g] = "user" => tp[g] # stack[h]
  BY <1>1 DEF IInv, TypeOK
<1> QED BY <1>1, <1>2 DEF IInv, TypeOK, MutualExclusion, ContextsKept, InHandler

LEMMA RestoreInv ==
  ASSUME IInv, NEW h \in Harts, RestoreContext(h) PROVE IInv'
BY DEF RestoreContext, IInv, TypeOK, MutualExclusion, ContextsKept, InHandler

LEMMA StutterInv == ASSUME IInv, UNCHANGED trapVars PROVE IInv'
BY DEF trapVars, IInv, TypeOK, MutualExclusion, ContextsKept, InHandler

(***************************************************************************)
(* The invariant of entry.S and of the kernel lock.                        *)
(***************************************************************************)
\* While the kernel does not fault, SAVE_CONTEXT, lock_kernel, the handlers,
\* unlock_kernel and RESTORE_CONTEXT keep the inductive invariant.
THEOREM Inductive == ~KernelFaults => (TrapSpec => []IInv)
<1> SUFFICES ASSUME ~KernelFaults PROVE TrapSpec => []IInv
  OBVIOUS
<1>1. IInv /\ [TrapNext]_trapVars => IInv'
  <2> SUFFICES ASSUME IInv, [TrapNext]_trapVars PROVE IInv'
    OBVIOUS
  <2>1. CASE UNCHANGED trapVars
    BY <2>1, StutterInv
  <2>2. CASE TrapNext
    <3>1. PICK h \in Harts :
            User(h) \/ SaveContext(h) \/ Wake(h) \/ SetResult(h) \/ InKernel(h)
      BY <2>2 DEF TrapNext
    <3> QED BY <3>1, UserInv, SaveInv, LockInv, UnlockInv, WakeInv, StayInv,
               SchedulerInv, ResultInv, RestoreInv DEF InKernel
  <2> QED BY <2>1, <2>2
<1> QED BY <1>1, InitInv, PTL DEF TrapSpec

\* One CPU at a time runs between lock_kernel and unlock_kernel, whatever
\* number of CPUs there is.
THEOREM Exclusion == ~KernelFaults => (TrapSpec => []MutualExclusion)
<1> SUFFICES ASSUME ~KernelFaults PROVE TrapSpec => []MutualExclusion
  OBVIOUS
<1>1. IInv => MutualExclusion
  BY DEF IInv
<1> QED BY <1>1, Inductive, PTL

\* No two CPUs use one kernel stack, even between do_scheduler and
\* ret_from_exception, where a handler runs on the stack of a queued task.
THEOREM OwnStacks == ~KernelFaults => (TrapSpec => []StacksApart)
<1> SUFFICES ASSUME ~KernelFaults PROVE TrapSpec => []StacksApart
  OBVIOUS
<1>1. IInv => StacksApart
  <2> SUFFICES ASSUME IInv, NEW g \in Harts, NEW h \in Harts,
                      OnStack(g), OnStack(h), stack[g] = stack[h]
               PROVE  g = h
    BY DEF StacksApart
  <2>1. CASE pc[g] = "result" /\ pc[h] = "result"
    BY <2>1 DEF IInv, MutualExclusion, InHandler
  <2>2. CASE pc[g] # "result"
    BY <2>2 DEF IInv, OnStack
  <2>3. CASE pc[h] # "result"
    BY <2>3 DEF IInv, OnStack
  <2> QED BY <2>1, <2>2, <2>3
<1> QED BY <1>1, Inductive, PTL

\* A task comes back to user mode, on whatever CPU, with the registers it left
\* with or that a handler stored for it.
THEOREM Contexts == ~KernelFaults => (TrapSpec => []ContextsKept)
<1> SUFFICES ASSUME ~KernelFaults PROVE TrapSpec => []ContextsKept
  OBVIOUS
<1>1. IInv => ContextsKept
  BY DEF IInv
<1> QED BY <1>1, Inductive, PTL

-----------------------------------------------------------------------------
(***************************************************************************)
(* Boot.                                                                   *)
(***************************************************************************)
LEMMA Numbers ==
  /\ Phys = 640 /\ PTEs = 512 /\ Code = 641 /\ LowStack = 642
  /\ Code \div PTEs = 1 /\ Code % PTEs = 129
  /\ LowStack \div PTEs = 1 /\ LowStack % PTEs = 130
  /\ Phys \div PTEs = 1 /\ Phys % PTEs = 128
  /\ pa2kva(Phys) \div PTEs = 257 /\ pa2kva(Phys) % PTEs = 128
  /\ pa2kva(Code) \div PTEs = 257 /\ pa2kva(Code) % PTEs = 129
  /\ IO_ADDR_START = 196608 /\ IO_ADDR_START \div PTEs = 384
BY DEF Phys, PTEs, Code, LowStack, pa2kva, IO_ADDR_START

LEMMA PowerOnInv == PowerOn => BootInv
<1> SUFFICES ASSUME PowerOn PROVE BootInv
  OBVIOUS
<1> QED BY DEF PowerOn, BootInv, CPUs, Stages, Unpaged, Asleep, Done, IoMapped

LEMMA WithIs ==
  ASSUME NEW f, NEW i, NEW e
  PROVE  /\ DOMAIN With(f, i, e) = DOMAIN f \cup {i} /\ With(f, i, e)[i] = e
         /\ \A j \in DOMAIN f \ {i} : With(f, i, e)[j] = f[j]
BY DEF With

\* t is tabs with n more pages from pa on, behind entry x in the new table fresh
Mapped(t, tabs, fresh, x, y, pa, n) ==
  /\ t = [i \in DOMAIN t |-> t[i]] /\ DOMAIN t = DOMAIN tabs \cup {fresh}
  /\ t[0] = With(tabs[0], x, [pfn |-> fresh, leaf |-> FALSE])
  /\ \A i \in DOMAIN tabs \ {0} : t[i] = tabs[i]
  /\ DOMAIN t[fresh] = y .. y + n - 1
  /\ \A v \in y .. y + n - 1 : t[fresh][v] = [pfn |-> pa + v - y, leaf |-> TRUE]

\* a gigabyte that has no table yet: the pages are in a new one
LEMMA OneMapping ==
  ASSUME NEW tabs, NEW va \in Nat, NEW pa \in Nat, NEW n \in Nat,
         0 \in DOMAIN tabs, tabs = [i \in DOMAIN tabs |-> tabs[i]],
         Cardinality(DOMAIN tabs) \notin DOMAIN tabs,
         va \div 512 \notin DOMAIN tabs[0]
  PROVE  Mapped(map_pages(tabs, va, pa, n), tabs, Cardinality(DOMAIN tabs),
                va \div 512, va % 512, pa, n)
<1> DEFINE fresh == Cardinality(DOMAIN tabs)
           x == va \div 512
           y == va % 512
           root == With(tabs[0], x, [pfn |-> fresh, leaf |-> FALSE])
           grown == [tabs EXCEPT ![0] = root]
           up == With(grown, fresh, <<>>)
           leafs(f) == [v \in DOMAIN f \cup (y .. y + n - 1) |->
                          IF v \in y .. y + n - 1 THEN [pfn |-> pa + v - y, leaf |-> TRUE] ELSE f[v]]
           t == map_pages(tabs, va, pa, n)
<1>1. t = [up EXCEPT ![up[0][x].pfn] = leafs(@)]
  <2> DEFINE any == IF x \in DOMAIN tabs[0] THEN tabs ELSE up
  <2>1. t = [any EXCEPT ![any[0][x].pfn] = leafs(@)]
    BY DEF map_pages, PTEs
  <2>2. any = up
    OBVIOUS
  <2> HIDE DEF any, up, t, leafs
  <2> QED BY <2>1, <2>2
<1> HIDE DEF x, fresh
<1>2. root[x] = [pfn |-> fresh, leaf |-> FALSE]
  <2> HIDE DEF root
  <2>1. With(tabs[0], x, [pfn |-> fresh, leaf |-> FALSE])[x] = [pfn |-> fresh, leaf |-> FALSE]
    BY DEF With
  <2> QED BY <2>1 DEF root
<1> USE DEF x, fresh
<1> HIDE DEF root
<1>3. fresh # 0 /\ DOMAIN grown = DOMAIN tabs /\ grown[0] = root
      /\ \A i \in DOMAIN tabs \ {0} : grown[i] = tabs[i]
  OBVIOUS
<1> HIDE DEF grown, fresh
<1>4. DOMAIN up = DOMAIN tabs \cup {fresh} /\ up[0] = root /\ up[fresh] = <<>>
      /\ up = [i \in DOMAIN up |-> up[i]]
      /\ \A i \in DOMAIN tabs \ {0} : up[i] = tabs[i]
  <2>1. up = [i \in DOMAIN up |-> up[i]]
    BY DEF With
  <2>2. fresh \notin DOMAIN tabs
    BY DEF fresh
  <2> QED BY <1>3, <2>1, <2>2, WithIs
<1> HIDE DEF up
<1>5. up[0][x].pfn = fresh
  BY <1>2, <1>4
<1>6. DOMAIN t = DOMAIN up /\ t[fresh] = leafs(<<>>) /\ (\A i \in DOMAIN up \ {fresh} : t[i] = up[i])
      /\ t = [i \in DOMAIN t |-> t[i]]
  <2> HIDE DEF t, leafs
  <2>1. t = [up EXCEPT ![fresh] = leafs(up[fresh])]
    BY <1>1, <1>5 DEF leafs
  <2> QED BY <1>4, <2>1
<1> HIDE DEF t, x, y
<1>7. DOMAIN leafs(<<>>) = y .. y + n - 1
      /\ \A v \in y .. y + n - 1 : leafs(<<>>)[v] = [pfn |-> pa + v - y, leaf |-> TRUE]
  <2>1. DOMAIN <<>> = {}
    OBVIOUS
  <2> QED BY <2>1
<1> HIDE DEF leafs
<1>8. fresh \notin DOMAIN tabs
  BY DEF fresh
<1>9. Mapped(t, tabs, fresh, x, y, pa, n)
  BY <1>3, <1>4, <1>6, <1>7, <1>8 DEF Mapped, root
<1> QED BY <1>9 DEF t, x, y, fresh

\* the same, with names for the table's number and the two indices
LEMMA MappingIs ==
  ASSUME NEW tabs, NEW va \in Nat, NEW pa \in Nat, NEW n \in Nat, NEW f, NEW x, NEW y,
         0 \in DOMAIN tabs, tabs = [i \in DOMAIN tabs |-> tabs[i]],
         Cardinality(DOMAIN tabs) = f, f \notin DOMAIN tabs,
         va \div 512 = x, va % 512 = y, x \notin DOMAIN tabs[0]
  PROVE  Mapped(map_pages(tabs, va, pa, n), tabs, f, x, y, pa, n)
BY OneMapping

\* setup_vm maps all memory behind entry 257 and the low 16 MB behind entry 1
LEMMA TwoMappings ==
  /\ DOMAIN Tables = {0, 1, 2} /\ Tables = [i \in DOMAIN Tables |-> Tables[i]]
  /\ 257 \in DOMAIN Tables[0] /\ Tables[0][257] = [pfn |-> 1, leaf |-> FALSE]
  /\ 1 \in DOMAIN Tables[0] /\ Tables[0][1] = [pfn |-> 2, leaf |-> FALSE]
  /\ \A v \in {129, 130} : v \in DOMAIN Tables[1] /\ Tables[1][v].pfn = 512 + v
  /\ \A v \in {129, 130} : v \in DOMAIN Tables[2] /\ Tables[2][v].pfn = 512 + v
<1> DEFINE high == pa2kva(Phys)
           low == Phys
           one == map_pages(NoTables, high, low, 128)
           two == map_pages(one, low, low, 8)
<1>1. high \in Nat /\ high \div 512 = 257 /\ high % 512 = 128
  BY SMT DEF pa2kva, Phys, PTEs
<1>2. low \in Nat /\ low \div 512 = 1 /\ low % 512 = 128
  BY DEF Phys
<1> HIDE DEF high, low
<1>3. DOMAIN NoTables = {0} /\ NoTables = [i \in DOMAIN NoTables |-> NoTables[i]]
      /\ DOMAIN NoTables[0] = {}
  BY DEF NoTables
<1>4. Cardinality({0}) = 1 /\ Cardinality({0, 1}) = 2
  <2>1. Cardinality({0}) = 1 /\ IsFiniteSet({0})
    BY FS_Singleton
  <2>2. {0, 1} = {0} \cup {1} /\ 1 \notin {0}
    OBVIOUS
  <2> QED BY <2>1, <2>2, FS_AddElement
<1>5. Mapped(one, NoTables, 1, 257, 128, low, 128)
  <2>1. 0 \in DOMAIN NoTables /\ Cardinality(DOMAIN NoTables) = 1 /\ 1 \notin DOMAIN NoTables
        /\ 257 \notin DOMAIN NoTables[0]
    BY <1>3, <1>4
  <2>2. NoTables = [i \in DOMAIN NoTables |-> NoTables[i]]
    BY <1>3
  <2> QED BY <1>1, <1>2, <2>1, <2>2, MappingIs
<1> HIDE DEF one
<1>6. DOMAIN one = {0, 1} /\ one = [i \in DOMAIN one |-> one[i]]
  BY <1>3, <1>5 DEF Mapped
<1>7. DOMAIN one[0] = {257} /\ one[0][257] = [pfn |-> 1, leaf |-> FALSE]
  <2>1. one[0] = With(NoTables[0], 257, [pfn |-> 1, leaf |-> FALSE])
    BY <1>5 DEF Mapped
  <2> QED BY <1>3, <2>1 DEF With
<1>8. Mapped(two, one, 2, 1, 128, low, 8)
  <2>1. 0 \in DOMAIN one /\ Cardinality(DOMAIN one) = 2 /\ 2 \notin DOMAIN one
        /\ 1 \notin DOMAIN one[0]
    BY <1>4, <1>6, <1>7
  <2>2. one = [i \in DOMAIN one |-> one[i]]
    BY <1>6
  <2> QED BY <1>2, <2>1, <2>2, MappingIs
<1>9. two = Tables
  BY DEF Tables, one, two, high, low
<1> HIDE DEF two
<1>10. DOMAIN two = {0, 1, 2} /\ two = [i \in DOMAIN two |-> two[i]] /\ two[1] = one[1]
  BY <1>6, <1>8 DEF Mapped
<1>11. /\ 257 \in DOMAIN two[0] /\ two[0][257] = [pfn |-> 1, leaf |-> FALSE]
       /\ 1 \in DOMAIN two[0] /\ two[0][1] = [pfn |-> 2, leaf |-> FALSE]
  <2>1. two[0] = With(one[0], 1, [pfn |-> 2, leaf |-> FALSE])
    BY <1>8 DEF Mapped
  <2> QED BY <1>7, <2>1 DEF With
<1>12. \A v \in {129, 130} : v \in 128 .. 128 + 128 - 1 /\ v \in 128 .. 128 + 8 - 1
                             /\ low + v - 128 = 512 + v
  BY DEF low, Phys
<1>13. \A v \in {129, 130} : v \in DOMAIN one[1] /\ one[1][v].pfn = 512 + v
  <2> TAKE v \in {129, 130}
  <2>1. DOMAIN one[1] = 128 .. 128 + 128 - 1
    BY <1>5 DEF Mapped
  <2>2. v \in 128 .. 128 + 128 - 1 => one[1][v] = [pfn |-> low + v - 128, leaf |-> TRUE]
    BY <1>5 DEF Mapped
  <2> QED BY <1>12, <2>1, <2>2
<1>14. \A v \in {129, 130} : v \in DOMAIN two[2] /\ two[2][v].pfn = 512 + v
  <2> TAKE v \in {129, 130}
  <2>1. DOMAIN two[2] = 128 .. 128 + 8 - 1
    BY <1>8 DEF Mapped
  <2>2. v \in 128 .. 128 + 8 - 1 => two[2][v] = [pfn |-> low + v - 128, leaf |-> TRUE]
    BY <1>8 DEF Mapped
  <2> QED BY <1>12, <2>1, <2>2
<1> QED BY <1>9, <1>10, <1>11, <1>13, <1>14

LEMMA TablesMap ==
  ASSUME pgtab' = Tables PROVE HighMapped' /\ LowMapped'
<1>1. \A v \in {Code % PTEs, LowStack % PTEs} :
        v \in {129, 130} /\ Phys - (Phys % PTEs) + v = 512 + v
  BY Numbers
<1>2. ASSUME NEW i, NEW n, n \in DOMAIN Tables,
             i \in DOMAIN Tables[0], Tables[0][i] = [pfn |-> n, leaf |-> FALSE],
             \A v \in {129, 130} : v \in DOMAIN Tables[n] /\ Tables[n][v].pfn = 512 + v
      PROVE  Leads(i, n)'
  BY <1>1, <1>2, TwoMappings DEF Leads
<1>3. Leads(257, 1)' /\ Leads(1, 2)'
  BY <1>2, TwoMappings
<1> QED BY <1>3, Numbers DEF HighMapped, LowMapped

LEMMA TablesKept ==
  ASSUME pgtab' = pgtab
  PROVE  /\ HighMapped' = HighMapped /\ LowMapped' = LowMapped
         /\ io' = io \/ io' = {} => (IoMapped => IoMapped')
BY DEF HighMapped, LowMapped, Leads, IoMapped, Maps

(***************************************************************************)
(* Hart 0, one step at a time.                                             *)
(***************************************************************************)
LEMMA LoadKernelInv == ASSUME BootInv, LoadKernel PROVE BootInv'
BY TablesKept DEF BootInv, LoadKernel, Goes, CPUs, Stages, Unpaged, Done, Asleep

LEMMA SetupInv == ASSUME BootInv, setup_vm PROVE BootInv'
<1>1. HighMapped' /\ LowMapped'
  BY TablesMap DEF setup_vm
<1>2. io' = {}
  BY DEF BootInv, setup_vm, Goes, Unpaged
<1>3. IoMapped'
  BY <1>2 DEF IoMapped
<1> QED BY <1>1, <1>2, <1>3 DEF BootInv, setup_vm, Goes, CPUs, Stages, Unpaged, Done, Asleep

LEMMA StartInv == ASSUME BootInv, _start PROVE BootInv'
BY TablesKept DEF BootInv, _start, Goes, CPUs, Stages, Unpaged, Done, Asleep

LEMMA TaskInfoInv == ASSUME BootInv, init_task_info PROVE BootInv'
BY TablesKept DEF BootInv, init_task_info, Goes, CPUs, Stages, Unpaged, Done, Asleep

LEMMA DevicesInv == ASSUME BootInv, InitDevices PROVE BootInv'
BY TablesKept DEF BootInv, InitDevices, Goes, CPUs, Stages, Unpaged, Done, Asleep

LEMMA TestInv == ASSUME BootInv, test PROVE BootInv'
BY TablesKept DEF BootInv, test, Load, Goes, CPUs, Stages, Unpaged, Done, Asleep

LEMMA WakeupInv == ASSUME BootInv, wakeup_other_hart PROVE BootInv'
BY TablesKept DEF BootInv, wakeup_other_hart, mem, Goes, CPUs, Stages, Unpaged, Done, Asleep

\* the devices are behind two more entries of the directory
LEMMA IoremapInv == ASSUME BootInv, ioremap PROVE BootInv'
<1>1. HighMapped /\ LowMapped
  BY DEF BootInv, ioremap, Goes, Unpaged
<1>2. IoIndex(0) = 384 /\ IoIndex(1) = 385
  BY Numbers DEF IoIndex
<1> DEFINE dir == With(With(pgtab[0], IoIndex(0), IoEntry(PlicFrame)),
                         IoIndex(1), IoEntry(E1000Frame))
<1>3. /\ \A i \in DOMAIN pgtab[0] \ {384, 385} : i \in DOMAIN dir /\ dir[i] = pgtab[0][i]
      /\ 384 \in DOMAIN dir /\ dir[384] = IoEntry(PlicFrame)
      /\ 385 \in DOMAIN dir /\ dir[385] = IoEntry(E1000Frame)
  BY <1>2 DEF With
<1>4. pgtab' = [pgtab EXCEPT ![0] = dir]
  BY DEF ioremap
<1> HIDE DEF dir
<1>5. ASSUME NEW i, i \notin {384, 385}, NEW n, n # 0, Leads(i, n) PROVE Leads(i, n)'
  <2>1. /\ 0 \in DOMAIN pgtab /\ i \in DOMAIN pgtab[0] /\ pgtab[0][i] = [pfn |-> n, leaf |-> FALSE]
        /\ n \in DOMAIN pgtab
        /\ \A v \in {Code % PTEs, LowStack % PTEs} :
             v \in DOMAIN pgtab[n] /\ pgtab[n][v].pfn = Phys - (Phys % PTEs) + v
    BY <1>5 DEF Leads
  <2>2. DOMAIN pgtab' = DOMAIN pgtab /\ pgtab'[0] = dir /\ pgtab'[n] = pgtab[n]
    BY <1>4, <1>5, <2>1
  <2>3. i \in DOMAIN dir /\ dir[i] = pgtab[0][i]
    BY <1>3, <1>5, <2>1
  <2>4. /\ 0 \in DOMAIN pgtab' /\ i \in DOMAIN pgtab'[0] /\ pgtab'[0][i] = [pfn |-> n, leaf |-> FALSE]
        /\ n \in DOMAIN pgtab'
    BY <2>1, <2>2, <2>3
  <2>5. \A v \in {Code % PTEs, LowStack % PTEs} :
          v \in DOMAIN pgtab'[n] /\ pgtab'[n][v].pfn = Phys - (Phys % PTEs) + v
    <3> DEFINE base == Phys - (Phys % PTEs)
               frames == {Code % PTEs, LowStack % PTEs}
    <3>1. \A v \in frames : v \in DOMAIN pgtab[n] /\ pgtab[n][v].pfn = base + v
      BY <2>1
    <3> HIDE DEF base, frames
    <3>2. \A v \in frames : v \in DOMAIN pgtab'[n] /\ pgtab'[n][v].pfn = base + v
      BY <2>2, <3>1
    <3> QED BY <3>2 DEF base, frames
  <2> QED BY <2>4, <2>5 DEF Leads
<1>6. HighMapped' /\ LowMapped'
  BY <1>1, <1>5, Numbers DEF HighMapped, LowMapped
<1>7. 0 \in DOMAIN pgtab
  BY <1>1 DEF HighMapped, Leads
<1>8. Maps(0, PlicFrame)' /\ Maps(1, E1000Frame)'
  BY <1>2, <1>3, <1>4, <1>7 DEF Maps
<1>9. IoMapped'
  BY <1>8 DEF IoMapped, ioremap
<1> QED BY <1>6, <1>9 DEF BootInv, ioremap, Goes, CPUs, Stages, Unpaged, Done, Asleep

\* the pages at the low addresses go; the directory and its other tables stay
LEMMA CleanInv == ASSUME BootInv, clean_temp_page PROVE BootInv'
<1>1. HighMapped /\ LowMapped
  BY DEF BootInv, clean_temp_page, Goes, Unpaged
<1>2. pgtab[0][Phys \div PTEs].pfn = 2 /\ 0 \in DOMAIN pgtab
  BY <1>1 DEF LowMapped, Leads
<1>3. PICK low : pgtab' = [pgtab EXCEPT ![2] = low]
  BY <1>2 DEF clean_temp_page
<1>4. HighMapped'
  BY <1>1, <1>3 DEF HighMapped, Leads
<1>5. pgtab'[0] = pgtab[0] /\ io' = io
  BY <1>2, <1>3 DEF clean_temp_page
<1>6. IoMapped'
  BY <1>5 DEF BootInv, IoMapped, Maps
<1> QED BY <1>4, <1>5, <1>6 DEF BootInv, clean_temp_page, Others, Goes, CPUs, Stages, Unpaged,
                                Done, Asleep

LEMMA Hart0Inv == ASSUME BootInv, Hart0 PROVE BootInv'
BY LoadKernelInv, SetupInv, StartInv, TaskInfoInv, IoremapInv, DevicesInv, TestInv, WakeupInv, CleanInv
   DEF Hart0

(***************************************************************************)
(* Hart 1, which boots only while hart 0 is in clean or idle.              *)
(***************************************************************************)
LEMMA SecondaryInv == ASSUME BootInv, secondary PROVE BootInv'
BY TablesKept DEF BootInv, secondary, mem, Goes, CPUs, Stages, Unpaged, Done, Asleep

LEMMA WakeUpInv == ASSUME BootInv, WakeUp PROVE BootInv'
BY TablesKept DEF BootInv, WakeUp, mem, Goes, CPUs, Stages, Unpaged, Done, Asleep

LEMMA EnableInv == ASSUME BootInv, enable_vm PROVE BootInv'
BY TablesKept DEF BootInv, enable_vm, mem, Goes, CPUs, Stages, Unpaged, Done, Asleep

LEMMA StartSecondaryInv == ASSUME BootInv, _start_secondary PROVE BootInv'
BY TablesKept DEF BootInv, _start_secondary, mem, Goes, CPUs, Stages, Unpaged, Done, Asleep

LEMMA MainSecondaryInv == ASSUME BootInv, main_secondary PROVE BootInv'
BY TablesKept DEF BootInv, main_secondary, mem, Goes, CPUs, Stages, Unpaged, Done, Asleep

LEMMA Hart1Inv == ASSUME BootInv, Hart1 PROVE BootInv'
BY SecondaryInv, WakeUpInv, EnableInv, StartSecondaryInv, MainSecondaryInv DEF Hart1

(***************************************************************************)
(* After boot, and the power failing at any time.                          *)
(***************************************************************************)
LEMMA SwitchInv == ASSUME BootInv, NEW h \in CPUs, switch_to(h) PROVE BootInv'
BY TablesKept DEF BootInv, switch_to, mem, CPUs, Stages, Unpaged, Done, Asleep

LEMMA ExecInv == ASSUME BootInv, NEW h \in CPUs, do_exec(h) PROVE BootInv'
BY TablesKept DEF BootInv, do_exec, Load, CPUs, Stages, Unpaged, Done, Asleep

LEMMA SwapOutInv == ASSUME BootInv, NEW h \in CPUs, swap_out(h) PROVE BootInv'
BY TablesKept DEF BootInv, swap_out, CPUs, Stages, Unpaged, Done, Asleep

LEMMA PowerInv == ASSUME BootInv, PowerFails PROVE BootInv'
BY DEF PowerFails, BootInv, CPUs, Stages, Unpaged, Asleep, Done, IoMapped

LEMMA NoStepInv == ASSUME BootInv, UNCHANGED bootVars PROVE BootInv'
BY TablesKept DEF BootInv, bootVars, mem, CPUs, Stages, Unpaged, Done, Asleep

\* the page tables and the order of the two harts, after every step
THEOREM BootInductive == BootSpec => []BootInv
<1>1. ASSUME BootInv, [BootNext]_bootVars PROVE BootInv'
  <2>1. CASE Hart0
    BY <1>1, <2>1, Hart0Inv
  <2>2. CASE Hart1
    BY <1>1, <2>2, Hart1Inv
  <2>3. ASSUME NEW h \in CPUs, switch_to(h) \/ do_exec(h) \/ swap_out(h) PROVE BootInv'
    BY <1>1, <2>3, SwitchInv, ExecInv, SwapOutInv
  <2>4. CASE PowerFails
    BY <1>1, <2>4, PowerInv
  <2>5. CASE UNCHANGED bootVars
    BY <1>1, <2>5, NoStepInv
  <2> QED BY <1>1, <2>1, <2>2, <2>3, <2>4, <2>5 DEF BootNext, Runs
<1> QED BY <1>1, PowerOnInv, PTL DEF BootSpec

-----------------------------------------------------------------------------
(***************************************************************************)
(* However fast the harts are, they never share a stack, and hart 1 finds  *)
(* the kernel initialised (start.S:23, head.S:20-37, main.c:336-446).      *)
(***************************************************************************)
THEOREM HartsStayApart == BootSpec => []HartsApart
<1>1. ASSUME BootInv PROVE HartsApart
  <2>1. CASE stage[0] \notin Done
    <3>1. stage[1] \in {"bootblock", "wfi"}
      BY <1>1, <2>1 DEF BootInv, Asleep
    <3> QED BY <3>1 DEF HartsApart, StackInUse
  <2>2. CASE stage[0] \in Done
    <3>1. initialised
      BY <1>1, <2>2 DEF BootInv, Done
    <3>2. StackInUse(0) \subseteq {"KERNEL_STACK"}
      BY <2>2 DEF Done, StackInUse, Stack
    <3>3. StackInUse(1) \subseteq {"boot_stack", "SECOND_KERNEL_STACK"}
      BY DEF StackInUse, Stack
    <3> QED BY <3>1, <3>2, <3>3 DEF HartsApart
  <2> QED BY <2>1, <2>2
<1> QED BY <1>1, BootInductive, PTL

\* what the three kinds of entries translate to
LEMMA TranslateTable ==
  ASSUME NEW i, NEW n, Leads(i, n), NEW va, NEW f \in {Code, LowStack},
         va \div PTEs = i, va % PTEs = f % PTEs
  PROVE  Translate(pgtab[0], va) = f
<1>1. f = Phys - (Phys % PTEs) + (f % PTEs)
  BY Numbers
<1> QED BY <1>1 DEF Leads, Translate

LEMMA TranslateIo ==
  ASSUME NEW k \in {0, 1}, NEW pa \in Nat, Maps(k, pa)
  PROVE  Translate(pgtab[0], IoAddress(k, pa)) = pa
<1> DEFINE va == IoAddress(k, pa)
<1>1. va \div PTEs = IoIndex(k) /\ va % PTEs = pa % PTEs
  BY SMT DEF IoAddress, IoIndex, IO_ADDR_START, PTEs
<1>2. pa - (pa % PTEs) + (pa % PTEs) = pa
  BY DEF PTEs
<1> HIDE DEF va
<1> QED BY <1>1, <1>2 DEF Maps, Translate, IoEntry, va

(***************************************************************************)
(* Unless hart 0 cleans before hart 1 is up, every address a hart uses is  *)
(* mapped where the program means it, wherever the devices are             *)
(* (boot.c:48-66, ioremap.c:13-26, main.c:254-270, loader.c:39-42).        *)
(***************************************************************************)
THEOREM EverythingMapped ==
  ASSUME PlicFrame \in Nat, E1000Frame \in Nat, "clean" \notin Hasty
  PROVE  BootSpec => []NoFault
<1>1. ASSUME BootInv PROVE NoFault
  <2> USE <1>1
  <2> SUFFICES ASSUME NEW h \in CPUs, NEW u \in Uses(h)
               PROVE (IF satp[h] = "bare" THEN u[1] ELSE Translate(Directory(h), u[1])) = u[2]
    BY DEF NoFault
  <2>1. CASE stage[h] \in Unpaged
    BY <2>1 DEF BootInv, Unpaged, Uses
  <2>2. CASE stage[h] \notin Unpaged
    <3>1. satp[h] # "bare" /\ Directory(h) = pgtab[0]
      BY <2>2 DEF BootInv, Directory
    <3>2. HighMapped
      BY <2>2 DEF BootInv, CPUs, Done, Unpaged, Asleep
    <3>3. stage[h] # "idle" => LowMapped
      BY <2>2 DEF BootInv, CPUs, Done, Unpaged, Asleep
    <3>4. CASE u = <<pa2kva(Code), Code>>
      BY <3>1, <3>2, <3>4, Numbers, TranslateTable DEF HighMapped
    <3>5. CASE stage[h] # "idle" /\ u \in {<<Code, Code>>, <<LowStack, LowStack>>}
      BY <3>1, <3>3, <3>5, Numbers, TranslateTable DEF LowMapped
    <3>6. CASE u \in io
      <4>1. Maps(0, PlicFrame) /\ Maps(1, E1000Frame)
            /\ u \in {<<IoAddress(0, PlicFrame), PlicFrame>>, <<IoAddress(1, E1000Frame), E1000Frame>>}
        BY <3>6 DEF BootInv, IoMapped
      <4> QED BY <3>1, <4>1, TranslateIo
    <3> QED BY <2>2, <3>4, <3>5, <3>6 DEF Uses, Unpaged
  <2> QED BY <2>1, <2>2
<1> QED BY <1>1, BootInductive, PTL

-----------------------------------------------------------------------------
(***************************************************************************)
(* The file system.  A call works on a snapshot and collects disk writes   *)
(* (Here, Do); Holds(s, P) says of a snapshot that these writes will leave *)
(* on the disk the tables it has in memory, those in P apart, which the    *)
(* call has still to store.  Every operator a call is built from keeps it, *)
(* every store_ operator takes a table out of P, and a call must end with  *)
(* P empty.                                                                *)
(***************************************************************************)
Fields == {"imap", "bmap", "ino", "cur", "fds", "data", "seen", "out"}
Tabs == {"imap", "bmap", "ino"}

IsSeq(q) == \E S : q \in Seq(S)

\* the disk d has v as its table t when the writes q are done
Leaves(d, q, t, v) ==
  \/ d[t] = v /\ \A k \in DOMAIN q : q[k].part # t
  \/ \E k \in DOMAIN q : /\ q[k].part = t /\ q[k].value = v
                         /\ \A j \in DOMAIN q : j > k => q[j].part # t

\* the part of a block map that store_block_map writes
Saved(b) == {x \in b : x < SavedBlocks}

MapsOnly(q) == \A k \in DOMAIN q : q[k].part = "bmap" => Saved(q[k].value) = q[k].value

\* table t as snapshot s stores it
Stored(s, t) == IF t = "bmap" THEN Saved(s.bmap) ELSE s[t]

\* the writes of snapshot s leave its tables on the disk, those in P apart
Holds(s, P) ==
  /\ s = [f \in Fields |-> s[f]]
  /\ IsSeq(s.out) /\ MapsOnly(s.out)
  /\ \A t \in Tabs \ P : Leaves(disk, s.out, t, Stored(s, t))

DiskInv ==
  /\ Saved(disk.bmap) = disk.bmap
  /\ disk = [f \in {"magic", "imap", "bmap", "ino", "data"} |-> disk[f]]
  /\ IsSeq(todo) /\ MapsOnly(todo)
  /\ magic => /\ Leaves(disk, todo, "imap", inode_map)
              /\ Leaves(disk, todo, "bmap", Saved(block_map))
              /\ Leaves(disk, todo, "ino", inodes)

LEMMA AppendIs ==
  ASSUME NEW q, IsSeq(q), NEW e
  PROVE  /\ IsSeq(Append(q, e)) /\ Len(q) \in Nat /\ DOMAIN q = 1 .. Len(q)
         /\ DOMAIN Append(q, e) = 1 .. Len(q) + 1
         /\ Append(q, e)[Len(q) + 1] = e /\ \A k \in 1 .. Len(q) : Append(q, e)[k] = q[k]
<1>1. PICK S : q \in Seq(S)
  BY DEF IsSeq
<1>2. q \in Seq(S \cup {e}) /\ e \in S \cup {e}
  BY <1>1
<1>3. Append(q, e) \in Seq(S \cup {e})
  BY <1>2
<1>4. IsSeq(Append(q, e))
  BY <1>3 DEF IsSeq
<1> QED BY <1>2, <1>4

LEMMA TailIs ==
  ASSUME NEW q, IsSeq(q), q # <<>>
  PROVE  /\ IsSeq(Tail(q)) /\ Len(q) \in Nat \ {0} /\ DOMAIN q = 1 .. Len(q)
         /\ DOMAIN Tail(q) = 1 .. Len(q) - 1
         /\ Head(q) = q[1] /\ \A k \in 1 .. Len(q) - 1 : Tail(q)[k] = q[k + 1]
<1>1. PICK S : q \in Seq(S)
  BY DEF IsSeq
<1>2. Tail(q) \in Seq(S)
  BY <1>1
<1>3. IsSeq(Tail(q))
  BY <1>2 DEF IsSeq
<1> QED BY <1>1, <1>3

LEMMA AppendLeaves ==
  ASSUME NEW d, NEW q, IsSeq(q), NEW w, NEW t, NEW v,
         IF w.part = t THEN w.value = v ELSE Leaves(d, q, t, v)
  PROVE  Leaves(d, Append(q, w), t, v)
<1> DEFINE r == Append(q, w)
           n == Len(q)
<1>1. n \in Nat /\ DOMAIN q = 1 .. n /\ DOMAIN r = 1 .. n + 1 /\ r[n + 1] = w
      /\ \A k \in 1 .. n : r[k] = q[k]
  BY AppendIs
<1> SUFFICES Leaves(d, r, t, v)
  OBVIOUS
<1> HIDE DEF r, n
<1>2. CASE w.part = t
  BY <1>1, <1>2 DEF Leaves
<1>3. CASE w.part # t
  <2>1. Leaves(d, q, t, v)
    BY <1>3
  <2>2. CASE d[t] = v /\ \A k \in DOMAIN q : q[k].part # t
    BY <1>1, <1>3, <2>2 DEF Leaves
  <2>3. CASE \E k \in DOMAIN q : /\ q[k].part = t /\ q[k].value = v
                                 /\ \A j \in DOMAIN q : j > k => q[j].part # t
    <3>1. PICK k \in 1 .. n : /\ q[k].part = t /\ q[k].value = v
                              /\ \A j \in 1 .. n : j > k => q[j].part # t
      BY <1>1, <2>3
    <3>2. k \in DOMAIN r /\ r[k].part = t /\ r[k].value = v
      BY <1>1, <3>1
    <3>3. \A j \in DOMAIN r : j > k => r[j].part # t
      BY <1>1, <1>3, <3>1
    <3> QED BY <3>2, <3>3 DEF Leaves
  <2> QED BY <2>1, <2>2, <2>3 DEF Leaves
<1> QED BY <1>2, <1>3

LEMMA AppendMaps ==
  ASSUME NEW q, IsSeq(q), MapsOnly(q), NEW w, w.part = "bmap" => Saved(w.value) = w.value
  PROVE  MapsOnly(Append(q, w))
BY AppendIs DEF MapsOnly

LEMMA StoreHolds ==
  ASSUME NEW s, NEW P, Holds(s, P), NEW t, NEW v,
         t \in Tabs => v = Stored(s, t)
  PROVE  Holds(store(s, t, v), P \ {t})
<1> DEFINE w == [part |-> t, value |-> v]
           r == store(s, t, v)
<1>1. r = [s EXCEPT !.out = Append(@, w)]
  BY DEF store
<1>2. w.part = t /\ w.value = v
  OBVIOUS
<1> HIDE DEF w, r
<1>3. r = [f \in Fields |-> r[f]] /\ r.out = Append(s.out, w)
      /\ \A f \in Fields \ {"out"} : r[f] = s[f]
  BY <1>1 DEF Holds, Fields
<1>4. w.part = "bmap" => Saved(w.value) = w.value
  BY <1>2 DEF Tabs, Stored, Saved
<1>5. IsSeq(r.out) /\ MapsOnly(r.out)
  <2>1. IsSeq(s.out) /\ MapsOnly(s.out)
    BY DEF Holds
  <2>2. IsSeq(Append(s.out, w)) /\ MapsOnly(Append(s.out, w))
    BY <1>3, <1>4, <2>1, AppendIs, AppendMaps
  <2> QED BY <1>3, <2>2
<1>6. \A x \in Tabs \ (P \ {t}) : Leaves(disk, r.out, x, Stored(r, x))
  <2> TAKE x \in Tabs \ (P \ {t})
  <2>1. Stored(r, x) = Stored(s, x)
    BY <1>3 DEF Tabs, Fields, Stored
  <2>2. IF w.part = x THEN w.value = Stored(s, x) ELSE Leaves(disk, s.out, x, Stored(s, x))
    BY <1>2 DEF Holds
  <2>3. IsSeq(s.out)
    BY DEF Holds
  <2>4. Leaves(disk, Append(s.out, w), x, Stored(s, x))
    BY <2>2, <2>3, AppendLeaves
  <2> QED BY <1>3, <2>1, <2>4
<1> QED BY <1>3, <1>5, <1>6 DEF Holds, r

LEMMA DataHolds ==
  ASSUME NEW s, NEW P, Holds(s, P), NEW b, NEW c
  PROVE  Holds(store_a_data_block(s, b, c), P)
<1> DEFINE w == [part |-> "data", block |-> b, value |-> c]
           r == store_a_data_block(s, b, c)
<1>1. r = [s EXCEPT !.data = [@ EXCEPT ![b] = c], !.out = Append(@, w)]
  BY DEF store_a_data_block
<1>2. w.part = "data"
  OBVIOUS
<1> HIDE DEF w, r
<1>3. r = [f \in Fields |-> r[f]] /\ r.out = Append(s.out, w)
      /\ \A f \in Fields \ {"out", "data"} : r[f] = s[f]
  BY <1>1 DEF Holds, Fields
<1>5. IsSeq(r.out) /\ MapsOnly(r.out)
  <2>1. IsSeq(s.out) /\ MapsOnly(s.out)
    BY DEF Holds
  <2>2. IsSeq(Append(s.out, w)) /\ MapsOnly(Append(s.out, w))
    BY <1>2, <1>3, <2>1, AppendIs, AppendMaps
  <2> QED BY <1>3, <2>2
<1>6. \A x \in Tabs \ P : Leaves(disk, r.out, x, Stored(r, x))
  <2> TAKE x \in Tabs \ P
  <2>1. Stored(r, x) = Stored(s, x) /\ x # "data"
    BY <1>3 DEF Tabs, Fields, Stored
  <2>2. IF w.part = x THEN w.value = Stored(s, x) ELSE Leaves(disk, s.out, x, Stored(s, x))
    BY <1>2, <2>1 DEF Holds
  <2>3. IsSeq(s.out)
    BY DEF Holds
  <2>4. Leaves(disk, Append(s.out, w), x, Stored(s, x))
    BY <2>2, <2>3, AppendLeaves
  <2> QED BY <1>3, <2>1, <2>4
<1> QED BY <1>3, <1>5, <1>6 DEF Holds, r

\* changes in memory alone
LEMMA ChangeHolds ==
  ASSUME NEW s, NEW P, Holds(s, P), NEW r, r = [f \in Fields |-> r[f]],
         r.out = s.out, \A t \in Tabs \ P : r[t] = s[t]
  PROVE  Holds(r, P)
<1>1. \A t \in Tabs \ P : Stored(r, t) = Stored(s, t)
  BY DEF Stored
<1> QED BY <1>1 DEF Holds

-----------------------------------------------------------------------------
LEMMA TakeHolds ==
  ASSUME NEW s, NEW P, Holds(s, P), "bmap" \in P
  PROVE  Holds(Take(s, get_free_block(s)), P)
<1> DEFINE r == Take(s, get_free_block(s))
           b == get_free_block(s)
<1>1. r = [s EXCEPT !.bmap = @ \cup ({b} \ {-1})]
  BY DEF Take
<1> HIDE DEF r, b
<1>3. r = [f \in Fields |-> r[f]] /\ r.out = s.out
      /\ \A t \in Tabs \ P : r[t] = s[t]
  BY <1>1 DEF Holds, Fields, Tabs
<1>4. Holds(r, P)
  BY <1>3, ChangeHolds
<1> QED BY <1>4 DEF r

LEMMA EnsuredHolds ==
  ASSUME NEW s, NEW P, Holds(s, P), "bmap" \in P, NEW e
  PROVE  Holds(Ensured(s, e), P)
BY TakeHolds DEF Ensured

\* an assignment to one of the other fields
LEMMA InoHolds ==
  ASSUME NEW s, NEW P, Holds(s, P), "ino" \in P, NEW x
  PROVE  Holds([s EXCEPT !.ino = x], P)
<1> DEFINE r == [s EXCEPT !.ino = x]
<1>1. r = [f \in Fields |-> r[f]] /\ r.out = s.out
      /\ \A t \in Tabs \ P : r[t] = s[t]
  BY DEF Holds, Fields, Tabs
<1> HIDE DEF r
<1>2. Holds(r, P)
  BY <1>1, ChangeHolds
<1> QED BY <1>2 DEF r

LEMMA ImapHolds ==
  ASSUME NEW s, NEW P, Holds(s, P), "imap" \in P, NEW x
  PROVE  Holds([s EXCEPT !.imap = x], P)
<1> DEFINE r == [s EXCEPT !.imap = x]
<1>1. r = [f \in Fields |-> r[f]] /\ r.out = s.out
      /\ \A t \in Tabs \ P : r[t] = s[t]
  BY DEF Holds, Fields, Tabs
<1> HIDE DEF r
<1>2. Holds(r, P)
  BY <1>1, ChangeHolds
<1> QED BY <1>2 DEF r

LEMMA BmapHolds ==
  ASSUME NEW s, NEW P, Holds(s, P), "bmap" \in P, NEW x
  PROVE  Holds([s EXCEPT !.bmap = x], P)
<1> DEFINE r == [s EXCEPT !.bmap = x]
<1>1. r = [f \in Fields |-> r[f]] /\ r.out = s.out
      /\ \A t \in Tabs \ P : r[t] = s[t]
  BY DEF Holds, Fields, Tabs
<1> HIDE DEF r
<1>2. Holds(r, P)
  BY <1>1, ChangeHolds
<1> QED BY <1>2 DEF r

LEMMA OtherHolds ==
  ASSUME NEW s, NEW P, Holds(s, P), NEW f \in {"cur", "fds", "seen", "data"}, NEW x
  PROVE  Holds([s EXCEPT ![f] = x], P)
<1> DEFINE r == [s EXCEPT ![f] = x]
<1>1. r = [g \in Fields |-> r[g]] /\ r.out = s.out
      /\ \A t \in Tabs \ P : r[t] = s[t]
  BY DEF Holds, Fields, Tabs
<1> HIDE DEF r
<1>2. Holds(r, P)
  BY <1>1, ChangeHolds
<1> QED BY <1>2 DEF r

LEMMA MoreHolds ==
  ASSUME NEW s, NEW P, Holds(s, P), NEW Q, P \subseteq Q
  PROVE  Holds(s, Q)
BY DEF Holds

LEMMA SetEntryHolds ==
  ASSUME NEW s, NEW P, Holds(s, P), NEW d, NEW p, NEW e
  PROVE  Holds(SetEntry(s, d, p, e), P)
BY DataHolds DEF SetEntry

LEMMA ExtendHolds ==
  ASSUME NEW s, NEW P, Holds(s, P), {"bmap", "ino"} \subseteq P, NEW d, NEW e
  PROVE  Holds(Extend(s, d, e), P)
<1> DEFINE b == get_free_block(s)
           t == Take(s, b)
           x == [t.ino EXCEPT ![d].sec[NextSec(s, d)] = b]
           r == [t EXCEPT !.ino = x]
<1>1. Holds(t, P)
  BY TakeHolds
<1>2. Extend(s, d, e) = store_a_data_block(r, b, DirBlock(<<e>>))
  BY DEF Extend
<1> HIDE DEF t, x, b
<1>3. Holds(r, P)
  BY <1>1, InoHolds
<1> HIDE DEF r
<1> QED BY <1>2, <1>3, DataHolds

LEMMA AddSizeHolds ==
  ASSUME NEW s, NEW P, Holds(s, P), "ino" \in P, NEW S, NEW k
  PROVE  Holds(AddSize(s, S, k), P)
BY InoHolds DEF AddSize

LEMMA DropHolds ==
  ASSUME NEW s, NEW P, Holds(s, P), "ino" \in P, NEW i, NEW k
  PROVE  Holds(Drop(s, i, k), P)
BY InoHolds DEF Drop

LEMMA OpenedHolds ==
  ASSUME NEW s, NEW P, Holds(s, P), NEW i
  PROVE  Holds(Opened(s, i), P)
BY OtherHolds DEF Opened

-----------------------------------------------------------------------------
(***************************************************************************)
(* The two loops of do_write.                                              *)
(***************************************************************************)
Turn(kind, i, v, x, k) == IF kind = "direct" THEN WriteDirect(x, i, k, v) ELSE WriteIndirect(x, k, v)

Loop(kind, i, v, b, ks, n, f) ==
  [U \in SUBSET (1 .. n) |->
     IF U = {} THEN b ELSE Turn(kind, i, v, f[U \ {Max(U)}], ks[Max(U)])]

LEMMA LastOf ==
  ASSUME NEW m \in Nat, NEW U \in SUBSET (1 .. m + 1), m + 1 \in U
  PROVE  Max(U) = m + 1
<1>1. U \in SUBSET Nat /\ \A y \in U : y <= m + 1
  OBVIOUS
<1> QED BY <1>1, MaxIs

LEMMA LoopExists ==
  ASSUME NEW kind, NEW i, NEW v, NEW b, NEW ks, NEW n \in Nat
  PROVE  \E f : f = Loop(kind, i, v, b, ks, n, f)
<1> DEFINE Good(m) == \E f : f = Loop(kind, i, v, b, ks, m, f)
           A == {m \in Nat : Good(m)}
<1>1. 0 \in A
  <2> DEFINE f == [U \in SUBSET (1 .. 0) |-> b]
  <2>1. \A U \in SUBSET (1 .. 0) : U = {}
    OBVIOUS
  <2>2. f = Loop(kind, i, v, b, ks, 0, f)
    BY <2>1 DEF Loop
  <2> QED BY <2>2
<1>2. ASSUME NEW m \in Nat, m \in A PROVE m + 1 \in A
  <2>1. PICK f : f = Loop(kind, i, v, b, ks, m, f)
    BY <1>2
  <2> DEFINE g == [U \in SUBSET (1 .. m + 1) |->
                     IF m + 1 \in U THEN Turn(kind, i, v, f[U \ {m + 1}], ks[m + 1]) ELSE f[U]]
  <2>2. \A U \in SUBSET (1 .. m) : g[U] = f[U]
    OBVIOUS
  <2>3. \A U \in SUBSET (1 .. m + 1) : (m + 1 \in U => Max(U) = m + 1) /\ U \ {m + 1} \in SUBSET (1 .. m)
                                       /\ (m + 1 \notin U => U \in SUBSET (1 .. m))
    BY LastOf
  <2>4. ASSUME NEW U \in SUBSET (1 .. m + 1)
        PROVE  g[U] = IF U = {} THEN b ELSE Turn(kind, i, v, g[U \ {Max(U)}], ks[Max(U)])
    <3>1. CASE m + 1 \in U
      <4>1. Max(U) = m + 1 /\ U \ {m + 1} \in SUBSET (1 .. m)
        BY <2>3, <3>1
      <4>2. g[U] = Turn(kind, i, v, f[U \ {m + 1}], ks[m + 1])
        BY <3>1
      <4>3. g[U \ {m + 1}] = f[U \ {m + 1}]
        BY <2>2, <4>1
      <4> HIDE DEF g
      <4> QED BY <3>1, <4>1, <4>2, <4>3
    <3>2. CASE m + 1 \notin U
      <4>1. U \in SUBSET (1 .. m) /\ U \ {Max(U)} \in SUBSET (1 .. m)
        BY <2>3, <3>2
      <4>2. g[U] = f[U] /\ g[U \ {Max(U)}] = f[U \ {Max(U)}]
        BY <2>2, <4>1
      <4>3. f[U] = IF U = {} THEN b ELSE Turn(kind, i, v, f[U \ {Max(U)}], ks[Max(U)])
        BY <2>1, <4>1 DEF Loop
      <4> HIDE DEF g
      <4> QED BY <4>2, <4>3
    <3> QED BY <3>1, <3>2
  <2>5. g = [U \in SUBSET (1 .. m + 1) |-> g[U]]
    OBVIOUS
  <2> HIDE DEF g
  <2>6. g = Loop(kind, i, v, b, ks, m + 1, g)
    BY <2>4, <2>5 DEF Loop
  <2> QED BY <2>6
<1> HIDE DEF A
<1>3. Nat \subseteq A
  BY <1>1, <1>2, Induct
<1> QED BY <1>3 DEF A

\* the snapshot in what a loop carries along
Snap(kind, x) == IF kind = "direct" THEN x ELSE x.s

LEMMA LoopHolds ==
  ASSUME NEW kind, NEW i, NEW v, NEW b, NEW ks, NEW n \in Nat, NEW P,
         Holds(Snap(kind, b), P),
         ASSUME NEW x, NEW k, Holds(Snap(kind, x), P)
         PROVE  Holds(Snap(kind, Turn(kind, i, v, x, k)), P),
         NEW g, g = Loop(kind, i, v, b, ks, n, g)
  PROVE  Holds(Snap(kind, g[1 .. n]), P)
<1> DEFINE A == {m \in Nat : m <= n => Holds(Snap(kind, g[1 .. m]), P)}
<1>1. 0 \in A
  <2>1. 1 .. 0 = {} /\ {} \in SUBSET (1 .. n)
    OBVIOUS
  <2>2. g[{}] = b
    BY DEF Loop
  <2> QED BY <2>1, <2>2
<1>2. ASSUME NEW m \in Nat, m \in A PROVE m + 1 \in A
  <2> SUFFICES ASSUME m + 1 <= n PROVE Holds(Snap(kind, g[1 .. m + 1]), P)
    OBVIOUS
  <2>1. Max(1 .. m + 1) = m + 1
    BY LastOf
  <2>2. (1 .. m + 1) \ {m + 1} = 1 .. m /\ 1 .. m + 1 \in SUBSET (1 .. n) /\ 1 .. m + 1 # {}
    <3>1. m + 1 \in 1 .. m + 1
      OBVIOUS
    <3> QED BY <3>1
  <2>3. g[1 .. m + 1] = Turn(kind, i, v, g[1 .. m], ks[m + 1])
    BY <2>1, <2>2 DEF Loop
  <2>4. Holds(Snap(kind, g[1 .. m]), P)
    BY <1>2
  <2> QED BY <2>3, <2>4
<1> HIDE DEF A
<1>3. Nat \subseteq A
  BY <1>1, <1>2, Induct
<1> QED BY <1>3 DEF A

LEMMA WriteDirectHolds ==
  ASSUME NEW s, NEW P, Holds(s, P), {"bmap", "ino"} \subseteq P, NEW i, NEW k, NEW v
  PROVE  Holds(WriteDirect(s, i, k, v), P)
<1> DEFINE e == s.ino[i].sec[k]
           b == BlockFor(s, e)
           t == Ensured(s, e)
           x == [t.ino EXCEPT ![i].sec[k] = b]
           r == [t EXCEPT !.ino = x]
<1>1. WriteDirect(s, i, k, v) = store_a_data_block(r, b, Datum(v))
  BY DEF WriteDirect
<1>2. Holds(t, P)
  BY EnsuredHolds
<1> HIDE DEF t, x, b
<1>3. Holds(r, P)
  BY <1>2, InoHolds
<1> HIDE DEF r
<1> QED BY <1>1, <1>3, DataHolds

LEMMA WriteIndirectHolds ==
  ASSUME NEW a, NEW P, Holds(a.s, P), {"bmap", "ino"} \subseteq P, NEW k, NEW v
  PROVE  Holds(WriteIndirect(a, k, v).s, P)
<1> DEFINE m  == (k - Direct) \div Indirect
           j  == (k - Direct) % Indirect
           pb == BlockFor(a.s, a.first[m])
           s1 == Ensured(a.s, a.first[m])
           p  == IF a.first[m] = 0 THEN Hole ELSE Pointers(s1.data[pb])
           b  == BlockFor(s1, p[j])
           s1b == Ensured(s1, p[j])
           s2 == store_a_data_block(s1b, b, Datum(v))
           p2 == [p EXCEPT ![j] = b]
           s3 == store_a_data_block(s2, pb, PtrBlock(p2))
<1>1. WriteIndirect(a, k, v).s = IF j + 1 = Indirect THEN s3 ELSE s2
  BY DEF WriteIndirect
<1>2. Holds(s1, P)
  BY EnsuredHolds
<1> HIDE DEF s1, p, b, pb, m, j, p2
<1>3. Holds(s1b, P)
  BY <1>2, EnsuredHolds
<1> HIDE DEF s1b
<1>4. Holds(s2, P)
  BY <1>3, DataHolds
<1> HIDE DEF s2
<1>5. Holds(s3, P)
  BY <1>4, DataHolds
<1> QED BY <1>1, <1>4, <1>5

LEMMA DirectLoopHolds ==
  ASSUME NEW s, NEW P, Holds(s, P), {"bmap", "ino"} \subseteq P, NEW i, NEW v,
         NEW ks, NEW n \in Nat, DOMAIN ks = 1 .. n
  PROVE  Holds(DirectLoop(s, i, ks, v), P)
<1> DEFINE F(f) == [U \in SUBSET (1 .. n) |->
                      IF U = {} THEN s ELSE WriteDirect(f[U \ {Max(U)}], i, ks[Max(U)], v)]
           g == CHOOSE f : f = F(f)
<1>1. DirectLoop(s, i, ks, v) = g[1 .. n]
  BY DEF DirectLoop, FoldLeft, MapThenFoldSet
<1>2. ASSUME NEW f PROVE F(f) = Loop("direct", i, v, s, ks, n, f)
  BY DEF Loop, Turn
<1>3. PICK f : f = Loop("direct", i, v, s, ks, n, f)
  BY LoopExists
<1>4. f = F(f)
  BY <1>2, <1>3
<1> HIDE DEF F
<1>5. g = F(g)
  BY <1>4, Zenon
<1>6. g = Loop("direct", i, v, s, ks, n, g)
  BY <1>2, <1>5
<1> HIDE DEF g
<1>7. Holds(Snap("direct", s), P)
  BY DEF Snap
<1>8. ASSUME NEW x, NEW k, Holds(Snap("direct", x), P)
      PROVE  Holds(Snap("direct", Turn("direct", i, v, x, k)), P)
  BY <1>8, WriteDirectHolds DEF Snap, Turn
<1>9. Holds(Snap("direct", g[1 .. n]), P)
  BY <1>6, <1>7, <1>8, LoopHolds
<1> QED BY <1>1, <1>9 DEF Snap

LEMMA IndirectLoopHolds ==
  ASSUME NEW b, NEW P, Holds(b.s, P), {"bmap", "ino"} \subseteq P, NEW v,
         NEW ks, NEW n \in Nat, DOMAIN ks = 1 .. n
  PROVE  Holds(IndirectLoop(b, ks, v).s, P)
<1> DEFINE F(f) == [U \in SUBSET (1 .. n) |->
                      IF U = {} THEN b ELSE WriteIndirect(f[U \ {Max(U)}], ks[Max(U)], v)]
           g == CHOOSE f : f = F(f)
<1>1. IndirectLoop(b, ks, v) = g[1 .. n]
  BY DEF IndirectLoop, FoldLeft, MapThenFoldSet
<1>2. ASSUME NEW f PROVE F(f) = Loop("indirect", 0, v, b, ks, n, f)
  BY DEF Loop, Turn
<1>3. PICK f : f = Loop("indirect", 0, v, b, ks, n, f)
  BY LoopExists
<1>4. f = F(f)
  BY <1>2, <1>3
<1> HIDE DEF F
<1>5. g = F(g)
  BY <1>4, Zenon
<1>6. g = Loop("indirect", 0, v, b, ks, n, g)
  BY <1>2, <1>5
<1> HIDE DEF g
<1>7. Holds(Snap("indirect", b), P)
  BY DEF Snap
<1>8. ASSUME NEW x, NEW k, Holds(Snap("indirect", x), P)
      PROVE  Holds(Snap("indirect", Turn("indirect", 0, v, x, k)), P)
  BY <1>8, WriteIndirectHolds DEF Snap, Turn
<1>9. Holds(Snap("indirect", g[1 .. n]), P)
  BY <1>6, <1>7, <1>8, LoopHolds
<1> QED BY <1>1, <1>9 DEF Snap

LEMMA SpanIs ==
  ASSUME NEW a \in Int, NEW b \in Int
  PROVE  \E n \in Nat : DOMAIN Span(a, b) = 1 .. n
<1>1. CASE b - a \in Nat
  BY <1>1 DEF Span
<1>2. CASE b - a \notin Nat
  <2>1. 1 .. b - a = 1 .. 0
    BY <1>2
  <2> QED BY <2>1 DEF Span
<1> QED BY <1>1, <1>2

LEMMA IndirectlyHolds ==
  ASSUME NEW s, NEW P, Holds(s, P), {"bmap", "ino"} \subseteq P, NEW i, NEW v,
         NEW ks, NEW n \in Nat, DOMAIN ks = 1 .. n
  PROVE  Holds(Indirectly(s, i, ks, v), P)
<1> DEFINE e    == s.ino[i].sec[Direct]
           top  == BlockFor(s, e)
           t    == Ensured(s, e)
           y    == [t.ino EXCEPT ![i].sec[Direct] = top]
           s0   == [t EXCEPT !.ino = y]
           from == IF e = 0 THEN Hole ELSE Pointers(s.data[top])
           b    == [s |-> s0, first |-> from, second |-> Hole]
           a    == IndirectLoop(b, ks, v)
           last == (ks[Len(ks)] + 1 - Direct) \div Indirect
           s1   == store_a_data_block(a.s, a.first[last], PtrBlock(a.second))
           s2   == store_a_data_block(s1, top, PtrBlock(a.first))
<1>1. Indirectly(s, i, ks, v) = IF ks = <<>> THEN s ELSE s2
  BY DEF Indirectly
<1>2. Holds(t, P)
  BY EnsuredHolds
<1> HIDE DEF t, y, top, from
<1>3. Holds(s0, P)
  BY <1>2, InoHolds
<1>4. b.s = s0
  OBVIOUS
<1> HIDE DEF s0, b
<1>5. Holds(a.s, P)
  BY <1>3, <1>4, IndirectLoopHolds
<1> HIDE DEF a, last
<1>6. Holds(s1, P)
  BY <1>5, DataHolds
<1> HIDE DEF s1
<1>7. Holds(s2, P)
  BY <1>6, DataHolds
<1> QED BY <1>1, <1>7

LEMMA WrittenHolds ==
  ASSUME NEW P, Holds(Here, P), {"bmap", "ino"} \subseteq P, NEW i, NEW from \in Nat, NEW len \in Nat, NEW v
  PROVE  Holds(Written(i, from, len, v), P)
<1> DEFINE stop == from + len
           mid1 == Min({from + len, Direct})
           mid2 == Max({from, Direct})
           k1 == Span(from, mid1)
           k2 == Span(mid2, stop)
           s == DirectLoop(Here, i, k1, v)
           t == Indirectly(s, i, k2, v)
           grown == from + len - inodes[i].size
           z == [k \in DOMAIN t.seen[i] |-> IF k \in from .. from + len - 1 THEN v ELSE t.seen[i][k]]
           y == [t.seen EXCEPT ![i] = z]
           u == [t EXCEPT !.seen = y]
<1>0. Direct \in Nat
  BY FilesAssumption
<1>1. Written(i, from, len, v) = IF grown > 0 THEN AddSize(u, Chain(u, i), grown) ELSE u
  BY DEF Written
<1>2. from \in Int /\ stop \in Int /\ mid1 \in Int /\ mid2 \in Int
  <2>1. {from + len, Direct} \in SUBSET Nat /\ {from + len, Direct} # {}
    BY <1>0
  <2>2. Min({from + len, Direct}) \in Nat
    BY <2>1, MinIs
  <2>3. \E x \in {from, Direct} : \A y1 \in {from, Direct} : y1 <= x
    BY <1>0
  <2>4. PICK x \in {from, Direct} : \A y1 \in {from, Direct} : y1 <= x
    BY <2>3
  <2>5. {from, Direct} \in SUBSET Nat
    BY <1>0
  <2>6. Max({from, Direct}) = x
    BY <2>4, <2>5, MaxIs
  <2> QED BY <1>0, <2>2, <2>4, <2>6
<1> HIDE DEF stop, mid1, mid2
<1>3. PICK n1 \in Nat : DOMAIN k1 = 1 .. n1
  BY <1>2, SpanIs
<1>4. PICK n2 \in Nat : DOMAIN k2 = 1 .. n2
  BY <1>2, SpanIs
<1> HIDE DEF k1, k2
<1>5. Holds(s, P)
  BY <1>3, DirectLoopHolds
<1> HIDE DEF s
<1>6. Holds(t, P)
  BY <1>4, <1>5, IndirectlyHolds
<1> HIDE DEF t, y, z
<1>7. Holds(u, P)
  BY <1>6, OtherHolds
<1> HIDE DEF u
<1>8. Holds(AddSize(u, Chain(u, i), grown), P)
  BY <1>7, AddSizeHolds
<1> QED BY <1>1, <1>7, <1>8

-----------------------------------------------------------------------------
(***************************************************************************)
(* A call begins with what is on the disk and stores what it has changed.  *)
(***************************************************************************)
LEMMA HereHolds ==
  ASSUME DiskInv, magic, todo = <<>>
  PROVE  Holds(Here, {})
<1>1. \A t : Leaves(disk, <<>>, t, disk[t])
  BY DEF Leaves
<1>2. disk.imap = inode_map /\ disk.bmap = Saved(block_map) /\ disk.ino = inodes
  BY DEF DiskInv, Leaves
<1>3. IsSeq(<<>>) /\ MapsOnly(<<>>)
  BY DEF DiskInv
<1>4. Here = [f \in Fields |-> Here[f]] /\ Here.bmap = block_map /\ Here.out = <<>>
      /\ Here.imap = inode_map /\ Here.ino = inodes
  BY DEF Here, Fields
<1>5. \A t \in Tabs : Stored(Here, t) = disk[t]
  BY <1>2, <1>4 DEF Tabs, Stored
<1> QED BY <1>1, <1>3, <1>4, <1>5 DEF Holds, DiskInv

LEMMA DoInv ==
  ASSUME DiskInv, NEW s, NEW i, Holds(s, {}), Do(s, i)
  PROVE  DiskInv'
<1>1. Leaves(disk, s.out, "imap", s.imap) /\ Leaves(disk, s.out, "bmap", Saved(s.bmap))
      /\ Leaves(disk, s.out, "ino", s.ino)
  BY DEF Holds, Tabs, Stored
<1> QED BY <1>1 DEF DiskInv, Do, Holds

LEMMA StoreMapsHolds ==
  ASSUME NEW s, NEW P, Holds(s, P)
  PROVE  /\ Holds(store_inode_map(s), P \ {"imap"}) /\ Holds(store_inodes(s), P \ {"ino"})
         /\ Holds(store_block_map(s), P \ {"bmap"})
<1>1. Holds(store(s, "imap", s.imap), P \ {"imap"})
  BY StoreHolds DEF Stored
<1>2. Holds(store(s, "ino", s.ino), P \ {"ino"})
  BY StoreHolds DEF Stored
<1>3. Holds(store(s, "bmap", Saved(s.bmap)), P \ {"bmap"})
  BY StoreHolds DEF Stored
<1> QED BY <1>1, <1>2, <1>3 DEF store_inode_map, store_inodes, store_block_map, Saved

LEMMA StoreAllHolds ==
  ASSUME NEW s, Holds(s, Tabs)
  PROVE  /\ Holds(store_inodes(store_inode_map(store_block_map(s))), {})
         /\ Holds(store_block_map(store_inodes(store_inode_map(s))), {})
<1>1. Holds(store_block_map(s), {"imap", "ino"}) /\ Holds(store_inode_map(s), {"bmap", "ino"})
  <2>1. Tabs \ {"bmap"} = {"imap", "ino"} /\ Tabs \ {"imap"} = {"bmap", "ino"}
    BY DEF Tabs
  <2>2. Holds(store_block_map(s), Tabs \ {"bmap"})
    BY StoreMapsHolds
  <2>3. Holds(store_inode_map(s), Tabs \ {"imap"})
    BY StoreMapsHolds
  <2> QED BY <2>1, <2>2, <2>3
<1>2. Holds(store_inode_map(store_block_map(s)), {"ino"}) /\ Holds(store_inodes(store_inode_map(s)), {"bmap"})
  <2>1. {"imap", "ino"} \ {"imap"} = {"ino"} /\ {"bmap", "ino"} \ {"ino"} = {"bmap"}
    OBVIOUS
  <2>2. Holds(store_inode_map(store_block_map(s)), {"imap", "ino"} \ {"imap"})
    BY <1>1, StoreMapsHolds
  <2>3. Holds(store_inodes(store_inode_map(s)), {"bmap", "ino"} \ {"ino"})
    BY <1>1, StoreMapsHolds
  <2> QED BY <2>1, <2>2, <2>3
<1>3. {"ino"} \ {"ino"} = {} /\ {"bmap"} \ {"bmap"} = {}
  OBVIOUS
<1>4. Holds(store_inodes(store_inode_map(store_block_map(s))), {"ino"} \ {"ino"})
  BY <1>2, StoreMapsHolds
<1>5. Holds(store_block_map(store_inodes(store_inode_map(s))), {"bmap"} \ {"bmap"})
  BY <1>2, StoreMapsHolds
<1> QED BY <1>3, <1>4, <1>5

-----------------------------------------------------------------------------
(***************************************************************************)
(* One action at a time.                                                   *)
(***************************************************************************)
LEMMA DiskWriteInv == ASSUME DiskInv, DiskWrite PROVE DiskInv'
<1> DEFINE w == Head(todo)
           n == Len(todo)
           q == Tail(todo)
<1>1. /\ IsSeq(q) /\ n \in Nat \ {0} /\ DOMAIN todo = 1 .. n /\ DOMAIN q = 1 .. n - 1
      /\ w = todo[1] /\ \A k \in 1 .. n - 1 : q[k] = todo[k + 1]
  BY TailIs DEF DiskInv, DiskWrite
<1>2. disk' = Put(disk, w) /\ todo' = q
  BY DEF DiskWrite
<1> HIDE DEF w, n, q
<1>3. MapsOnly(q)
  <2>1. \A k \in 1 .. n - 1 : k + 1 \in 1 .. n
    BY <1>1
  <2> QED BY <1>1, <2>1 DEF MapsOnly, DiskInv
<1> DEFINE parts == {"magic", "imap", "bmap", "ino", "data"}
<1>4. /\ disk' = [f \in parts |-> disk'[f]]
      /\ \A t \in Tabs : disk'[t] = IF w.part = t THEN w.value ELSE disk[t]
  BY <1>2 DEF Put, DiskInv, Tabs
<1>5. Saved(disk'.bmap) = disk'.bmap
  <2>1. w.part = "bmap" => Saved(w.value) = w.value
    <3>1. 1 \in 1 .. n
      BY <1>1
    <3> QED BY <1>1, <3>1 DEF DiskInv, MapsOnly
  <2> QED BY <1>4, <2>1 DEF DiskInv, Tabs
<1>6. ASSUME NEW t \in Tabs, NEW v, Leaves(disk, todo, t, v) PROVE Leaves(disk', q, t, v)
  <2>1. CASE disk[t] = v /\ \A k \in DOMAIN todo : todo[k].part # t
    <3>1. \A k \in DOMAIN q : q[k].part # t
      <4>1. \A k \in 1 .. n - 1 : k + 1 \in 1 .. n
        BY <1>1
      <4> QED BY <1>1, <2>1, <4>1
    <3>2. w.part # t
      <4>1. 1 \in 1 .. n
        BY <1>1
      <4> QED BY <1>1, <2>1, <4>1
    <3> QED BY <1>4, <2>1, <3>1, <3>2 DEF Leaves
  <2>2. CASE \E k \in DOMAIN todo : /\ todo[k].part = t /\ todo[k].value = v
                                    /\ \A j \in DOMAIN todo : j > k => todo[j].part # t
    <3>1. PICK k \in 1 .. n : /\ todo[k].part = t /\ todo[k].value = v
                              /\ \A j \in 1 .. n : j > k => todo[j].part # t
      BY <1>1, <2>2
    <3>2. CASE k = 1
      <4>1. \A j \in 1 .. n - 1 : j + 1 \in 1 .. n /\ j + 1 > k
        BY <1>1, <3>2
      <4>2. \A j \in DOMAIN q : q[j].part # t
        BY <1>1, <3>1, <4>1
      <4>3. disk'[t] = v
        BY <1>1, <1>4, <3>1, <3>2
      <4> QED BY <4>2, <4>3 DEF Leaves
    <3>3. CASE k # 1
      <4>1. k - 1 \in 1 .. n - 1 /\ (k - 1) + 1 = k
        BY <1>1, <3>3
      <4>2. \A j \in 1 .. n - 1 : j > k - 1 => j + 1 \in 1 .. n /\ j + 1 > k
        BY <1>1, <3>3
      <4>3. k - 1 \in DOMAIN q /\ q[k - 1].part = t /\ q[k - 1].value = v
        BY <1>1, <3>1, <4>1
      <4>4. \A j \in DOMAIN q : j > k - 1 => q[j].part # t
        BY <1>1, <3>1, <4>2
      <4> QED BY <4>3, <4>4 DEF Leaves
    <3> QED BY <3>2, <3>3
  <2> QED BY <1>6, <2>1, <2>2 DEF Leaves
<1>7. magic => /\ Leaves(disk', q, "imap", inode_map) /\ Leaves(disk', q, "bmap", Saved(block_map))
               /\ Leaves(disk', q, "ino", inodes)
  BY <1>6 DEF DiskInv, Tabs
<1> QED BY <1>1, <1>2, <1>3, <1>4, <1>5, <1>7 DEF DiskInv, DiskWrite

LEMMA RebootInv == ASSUME DiskInv, Reboot PROVE DiskInv'
<1>1. inode_map' = disk.imap /\ block_map' = disk.bmap /\ inodes' = disk.ino
  BY DEF Reboot, init_fs, Here
<1>2. todo' = <<>> /\ disk' = disk
  BY DEF Reboot
<1>3. IsSeq(<<>>) /\ MapsOnly(<<>>)
  <2>1. <<>> \in Seq({})
    OBVIOUS
  <2> QED BY <2>1 DEF MapsOnly, IsSeq
<1>4. \A t : Leaves(disk, <<>>, t, disk[t])
  BY DEF Leaves
<1>5. Leaves(disk, <<>>, "imap", disk.imap) /\ Leaves(disk, <<>>, "bmap", Saved(disk.bmap))
      /\ Leaves(disk, <<>>, "ino", disk.ino)
  BY <1>4 DEF DiskInv
<1> QED BY <1>1, <1>2, <1>3, <1>5 DEF DiskInv

LEMMA MkfsInv == ASSUME DiskInv, do_mkfs PROVE DiskInv'
<1> DEFINE root == [inodes[0] EXCEPT !.size = 0, !.link = 1, !.parent = -1, !.sec[0] = 0]
           s == [Here EXCEPT !.imap = {0}, !.bmap = {0}, !.ino[0] = root, !.cur = 0]
           s1 == store(s, "magic", TRUE)
           t == store_inodes(store_block_map(store_inode_map(s1)))
           u == store_a_data_block(t, 0, DirBlock(<<Entry(".", 0)>>))
<1>1. /\ todo' = u.out /\ inode_map' = t.imap /\ block_map' = t.bmap /\ inodes' = t.ino
      /\ magic' /\ disk' = disk /\ todo = <<>>
  BY DEF do_mkfs
<1>2. Holds(s, Tabs)
  <2> HIDE DEF root
  <2>a. Here = [f \in Fields |-> Here[f]] /\ Here.out = <<>>
    BY <1>1 DEF Here, Fields
  <2>1. s = [f \in Fields |-> s[f]] /\ s.out = <<>>
    BY <2>a DEF Fields
  <2> HIDE DEF s
  <2>3. IsSeq(<<>>) /\ MapsOnly(<<>>)
    BY <1>1 DEF DiskInv
  <2> QED BY <2>1, <2>3 DEF Holds
<1> HIDE DEF s, root
<1>3. Holds(s1, Tabs)
  <2>1. "magic" \notin Tabs /\ Tabs \ {"magic"} = Tabs
    BY DEF Tabs
  <2>2. Holds(s1, Tabs \ {"magic"})
    BY <1>2, <2>1, StoreHolds
  <2> QED BY <2>1, <2>2
<1> HIDE DEF s1
<1>4. Holds(t, {})
  <2>1. Holds(store_inode_map(s1), Tabs \ {"imap"})
    BY <1>3, StoreMapsHolds
  <2>2. Holds(store_block_map(store_inode_map(s1)), (Tabs \ {"imap"}) \ {"bmap"})
    BY <2>1, StoreMapsHolds
  <2>3. Holds(t, ((Tabs \ {"imap"}) \ {"bmap"}) \ {"ino"})
    BY <2>2, StoreMapsHolds
  <2>4. ((Tabs \ {"imap"}) \ {"bmap"}) \ {"ino"} = {}
    BY DEF Tabs
  <2> QED BY <2>3, <2>4
<1> HIDE DEF t
<1>5. Holds(u, {})
  BY <1>4, DataHolds
<1>6. u.imap = t.imap /\ u.bmap = t.bmap /\ u.ino = t.ino
  BY <1>4 DEF store_a_data_block, Holds, Fields
<1> HIDE DEF u
<1> QED BY <1>1, <1>5, <1>6 DEF DiskInv, Holds, Tabs, Stored

\* calls that change no table
LEMMA FdsInv ==
  ASSUME DiskInv, Running, NEW f \in {"cur", "fds"}, NEW x, NEW i, Do([Here EXCEPT ![f] = x], i)
  PROVE  DiskInv'
<1>1. Holds(Here, {})
  BY HereHolds DEF Running
<1>2. Holds([Here EXCEPT ![f] = x], {})
  BY <1>1, OtherHolds
<1> QED BY <1>2, DoInv

LEMMA CdInv == ASSUME DiskInv, NEW p, do_cd(p) PROVE DiskInv'
BY FdsInv DEF do_cd

LEMMA CloseInv == ASSUME DiskInv, NEW f, do_close(f) PROVE DiskInv'
<1> DEFINE x == [Here.fds EXCEPT ![f].ref = @ - 1]
<1>1. Do([Here EXCEPT !.fds = x], target) /\ Running
  BY DEF do_close
<1> HIDE DEF x
<1> QED BY <1>1, FdsInv

LEMMA LseekInv == ASSUME DiskInv, NEW f, NEW k, do_lseek(f, k) PROVE DiskInv'
<1> DEFINE x == [Here.fds EXCEPT ![f].off = k]
<1>1. Do([Here EXCEPT !.fds = x], target) /\ Running
  BY DEF do_lseek
<1> HIDE DEF x
<1> QED BY <1>1, FdsInv

LEMMA ReadInv == ASSUME DiskInv, NEW f, NEW len, do_read(f, len) PROVE DiskInv'
<1> DEFINE left == inodes[fdesc_array[f].ino].size - fdesc_array[f].off
           x == [Here.fds EXCEPT ![f].off = @ + (IF len >= left THEN left ELSE len)]
<1>1. Do([Here EXCEPT !.fds = x], target) /\ Running
  BY DEF do_read
<1> HIDE DEF x
<1> QED BY <1>1, FdsInv

LEMMA WriteInv ==
  ASSUME DiskInv, NEW f, NEW len \in 1 .. MaxLen, NEW v, do_write(f, len, v)
  PROVE  DiskInv'
<1> DEFINE i == fdesc_array[f].ino
           from == fdesc_array[f].off
           s == Written(i, from, len, v)
           t == SaveWrite(s)
           x == [t.fds EXCEPT ![f].off = @ + len]
<1>1. Running /\ from \in 0 .. MaxLen - len /\ Do([t EXCEPT !.fds = x], i)
  BY DEF do_write
<1>2. from \in Nat /\ len \in Nat
  <2>1. MaxLen \in Int
    <3> DEFINE u == Direct + Indirect * Indirect - 1
    <3>1. MaxLen \in 1 .. u
      BY FilesAssumption
    <3>2. Direct \in Nat /\ Indirect \in Nat
      BY FilesAssumption
    <3>3. u \in Int
      BY <3>2
    <3> HIDE DEF u
    <3> QED BY <3>1, <3>3
  <2> QED BY <1>1, <2>1
<1>3. Holds(Here, {"bmap", "ino"})
  BY <1>1, HereHolds, MoreHolds DEF Running
<1> HIDE DEF i, from
<1>4. Holds(s, {"bmap", "ino"})
  BY <1>2, <1>3, WrittenHolds
<1> HIDE DEF s
<1>5. Holds(t, {})
  <2>1. {"bmap", "ino"} \ {"bmap"} = {"ino"} /\ {"ino"} \ {"ino"} = {}
    OBVIOUS
  <2>2. Holds(store_block_map(s), {"bmap", "ino"} \ {"bmap"})
    BY <1>4, StoreMapsHolds
  <2>3. Holds(store_inodes(store_block_map(s)), {"ino"} \ {"ino"})
    BY <2>1, <2>2, StoreMapsHolds
  <2> QED BY <2>1, <2>3 DEF SaveWrite
<1> HIDE DEF t, x
<1>6. Holds([t EXCEPT !.fds = x], {})
  BY <1>5, OtherHolds
<1> QED BY <1>1, <1>6, DoInv

\* a change of any tables in a snapshot that will store all of them
LEMMA AnyHolds ==
  ASSUME NEW s, Holds(s, Tabs), NEW r, r = [f \in Fields |-> r[f]], r.out = s.out
  PROVE  Holds(r, Tabs)
BY ChangeHolds

LEMMA ReservedHolds ==
  ASSUME NEW s, Holds(s, Tabs), NEW d, NEW n
  PROVE  Holds(Reserved(s, d, n), Tabs)
<1> DEFINE r == Reserved(s, d, n)
<1>1. r = [f \in Fields |-> r[f]] /\ r.out = s.out
  BY DEF Holds, Fields, Reserved
<1> HIDE DEF r
<1>2. Holds(r, Tabs)
  BY <1>1, AnyHolds
<1> QED BY <1>2 DEF r

LEMMA MadeHolds ==
  ASSUME NEW s, Holds(s, Tabs), NEW d, NEW n, NEW name
  PROVE  Holds(Made(s, d, n, name), Tabs)
<1> DEFINE stops == Stops(s, d, name)
           e     == Entry(name, n)
           set   == SetEntry(s, d, Min(stops), e)
           grown == AddSize(Extend(s, d, e), {d}, 1)
           moved == [grown EXCEPT !.ino[d].parent = d]
           named == IF stops # {} THEN set ELSE moved
           b     == get_free_block(named)
           took  == Take(named, b)
           r     == [took EXCEPT !.ino[n].sec[0] = b, !.ino[d].link = @ + 1]
<1>1. Made(s, d, n, name) = store_a_data_block(r, b, DirBlock(<<Entry(".", n), Entry("..", d)>>))
  BY DEF Made
<1>2. Holds(named, Tabs)
  <2>1. Holds(set, Tabs)
    BY SetEntryHolds
  <2>2. {"bmap", "ino"} \subseteq Tabs /\ "ino" \in Tabs
    BY DEF Tabs
  <2>3. Holds(Extend(s, d, e), Tabs)
    BY <2>2, ExtendHolds
  <2>4. Holds(grown, Tabs)
    BY <2>2, <2>3, AddSizeHolds
  <2> HIDE DEF grown, set, stops
  <2>5. moved = [f \in Fields |-> moved[f]] /\ moved.out = grown.out
    BY <2>4 DEF Holds, Fields
  <2> HIDE DEF moved
  <2>6. Holds(moved, Tabs)
    BY <2>4, <2>5, AnyHolds
  <2> QED BY <2>1, <2>6
<1> HIDE DEF named
<1>3. Holds(took, Tabs)
  BY <1>2, TakeHolds DEF Tabs
<1> HIDE DEF took, b
<1>4. Holds(r, Tabs)
  <2>1. r = [f \in Fields |-> r[f]] /\ r.out = took.out
    BY <1>3 DEF Holds, Fields
  <2> HIDE DEF r
  <2> QED BY <1>3, <2>1, AnyHolds
<1> HIDE DEF r
<1> QED BY <1>1, <1>4, DataHolds

LEMMA MkdirInv ==
  ASSUME DiskInv, "exists" \notin Careless, NEW path, do_mkdir(path)
  PROVE  DiskInv'
<1>1. PICK d \in Inside(Here, path) :
        LET n     == get_free_inode(Here)
            s     == Reserved(Here, d, n)
            stops == Stops(s, d, path.name)
        IN  IF stops # {} /\ EntryAt(s, d, Min(stops)).name = path.name
              THEN Survives("exists", FALSE) /\ Do(s, n)
              ELSE Do(store_inodes(store_inode_map(store_block_map(Made(s, d, n, path.name)))), n)
  BY DEF do_mkdir
<1> DEFINE n == get_free_inode(Here)
           s == Reserved(Here, d, n)
           m == Made(s, d, n, path.name)
<1>2. Do(store_inodes(store_inode_map(store_block_map(m))), n)
  <2>1. ~Survives("exists", FALSE)
    BY DEF Survives
  <2> QED BY <1>1, <2>1, Zenon
<1>3. Holds(Here, Tabs)
  BY HereHolds, MoreHolds DEF do_mkdir, Running
<1>4. Holds(s, Tabs)
  BY <1>3, ReservedHolds
<1> HIDE DEF s, n
<1>5. Holds(m, Tabs)
  BY <1>4, MadeHolds
<1> HIDE DEF m
<1> QED BY <1>2, <1>5, StoreAllHolds, DoInv

LEMMA ClearedHolds ==
  ASSUME NEW s, NEW P, Holds(s, P), NEW d, NEW n, NEW c \in Cleared(s, d, n)
  PROVE  Holds(c.s, P)
<1>1. CASE Matches(s, d, n) # {}
  <2>1. c.s = SetEntry(s, d, Min(Matches(s, d, n)), Blank)
    BY <1>1 DEF Cleared
  <2> QED BY <2>1, SetEntryHolds
<1>2. CASE Matches(s, d, n) = {}
  <2>1. c.s = store_a_data_block(s, 0, s.data[s.ino[d].sec[NextSec(s, d) - 1]])
    BY <1>2 DEF Cleared
  <2> QED BY <2>1, DataHolds
<1> QED BY <1>1, <1>2

LEMMA RmdirInv ==
  ASSUME DiskInv, NEW path, do_rmdir(path)
  PROVE  DiskInv'
<1>1. PICK d \in Inside(Here, path) : \E c \in Cleared(Here, d, path.name) :
        LET s    == Drop(Drop(c.s, d, 1), c.ino, 2)
            held == {s.ino[c.ino].sec[k] : k \in Secs} \ {0}
            done == IF s.ino[c.ino].link > 0 THEN s
                    ELSE [s EXCEPT !.imap = @ \ {c.ino}, !.bmap = @ \ held]
        IN  Do(store_block_map(store_inodes(store_inode_map(done))), c.ino)
  BY DEF do_rmdir
<1>2. PICK c \in Cleared(Here, d, path.name) :
        LET s    == Drop(Drop(c.s, d, 1), c.ino, 2)
            held == {s.ino[c.ino].sec[k] : k \in Secs} \ {0}
            done == IF s.ino[c.ino].link > 0 THEN s
                    ELSE [s EXCEPT !.imap = @ \ {c.ino}, !.bmap = @ \ held]
        IN  Do(store_block_map(store_inodes(store_inode_map(done))), c.ino)
  BY <1>1
<1> DEFINE s    == Drop(Drop(c.s, d, 1), c.ino, 2)
           held == {s.ino[c.ino].sec[k] : k \in Secs} \ {0}
           r    == [s EXCEPT !.imap = @ \ {c.ino}, !.bmap = @ \ held]
           done == IF s.ino[c.ino].link > 0 THEN s ELSE r
<1>3. Do(store_block_map(store_inodes(store_inode_map(done))), c.ino)
  BY <1>2
<1>4. Holds(c.s, Tabs)
  BY HereHolds, MoreHolds, ClearedHolds DEF do_rmdir, Running
<1>5. Holds(s, Tabs)
  BY <1>4, DropHolds DEF Tabs
<1> HIDE DEF s, held
<1>6. Holds(r, Tabs)
  <2>1. r = [f \in Fields |-> r[f]] /\ r.out = s.out
    BY <1>5 DEF Holds, Fields
  <2> HIDE DEF r
  <2> QED BY <1>5, <2>1, AnyHolds
<1> HIDE DEF r
<1>7. Holds(done, Tabs)
  BY <1>5, <1>6
<1> HIDE DEF done
<1> QED BY <1>3, <1>7, StoreAllHolds, DoInv

LEMMA RemovedHolds ==
  ASSUME NEW s, Holds(s, Tabs), NEW i
  PROVE  Holds(Removed(s, i), Tabs)
<1> DEFINE r == [s EXCEPT !.imap = @ \ {i}, !.bmap = @ \ HeldBy(s, i)]
<1>1. r = [f \in Fields |-> r[f]] /\ r.out = s.out
  BY DEF Holds, Fields
<1>2. Removed(s, i) = IF s.ino[i].link = 0 THEN AddSize(r, Chain(s, i) \ {i}, -s.ino[i].size) ELSE s
  BY DEF Removed, Freed
<1> HIDE DEF r
<1>3. Holds(r, Tabs)
  BY <1>1, AnyHolds
<1>4. Holds(AddSize(r, Chain(s, i) \ {i}, -s.ino[i].size), Tabs)
  BY <1>3, AddSizeHolds DEF Tabs
<1> QED BY <1>2, <1>4

LEMMA RmInv ==
  ASSUME DiskInv, NEW path, do_rm(path)
  PROVE  DiskInv'
<1>1. PICK d \in Inside(Here, path) : \E c \in Cleared(Here, d, path.name) :
        Do(store_block_map(store_inodes(store_inode_map(Removed(Drop(c.s, c.ino, 1), c.ino)))), c.ino)
  BY DEF do_rm
<1>2. PICK c \in Cleared(Here, d, path.name) :
        Do(store_block_map(store_inodes(store_inode_map(Removed(Drop(c.s, c.ino, 1), c.ino)))), c.ino)
  BY <1>1
<1>3. Holds(c.s, Tabs)
  BY HereHolds, MoreHolds, ClearedHolds DEF do_rm, Running
<1>4. Holds(Drop(c.s, c.ino, 1), Tabs)
  BY <1>3, DropHolds DEF Tabs
<1>5. Holds(Removed(Drop(c.s, c.ino, 1), c.ino), Tabs)
  BY <1>4, RemovedHolds
<1> QED BY <1>2, <1>5, StoreAllHolds, DoInv

LEMMA CreatedHolds ==
  ASSUME NEW s, Holds(s, {"imap", "ino"}), NEW d, NEW name, Empty(s, d) # {}
  PROVE  Holds(Created(s, d, name), {"imap", "ino"})
<1> DEFINE n == get_free_inode(s)
           t == [s EXCEPT !.imap = @ \cup {n}, !.seen[n] = Nothing[n],
                   !.ino[n] = [@ EXCEPT !.size = 0, !.parent = d, !.link = @ + 1]]
<1>1. Created(s, d, name) = SetEntry(t, d, Min(Empty(s, d)), Entry(name, n))
  BY DEF Created
<1>2. t = [f \in Fields |-> t[f]] /\ t.out = s.out /\ \A x \in Tabs \ {"imap", "ino"} : t[x] = s[x]
  BY DEF Holds, Fields, Tabs
<1> HIDE DEF t, n
<1>3. Holds(t, {"imap", "ino"})
  BY <1>2, ChangeHolds
<1> QED BY <1>1, <1>3, SetEntryHolds

\* do_open stores no block map: a directory that grows would lose its block
LEMMA OpenInv ==
  ASSUME DiskInv, "growDir" \notin Careless, NEW path, do_open(path)
  PROVE  DiskInv'
<1>1. PICK d \in Inside(Here, path) :
        LET found == Matches(Here, d, path.name)
            i     == IF found # {} THEN EntryAt(Here, d, Min(found)).inode ELSE get_free_inode(Here)
            s     == IF found # {} THEN Here ELSE Created(Here, d, path.name)
        IN  /\ found # {} \/ Survives("growDir", Empty(Here, d) # {})
            /\ Do(Opened(store_inodes(store_inode_map(s)), i), i)
  BY DEF do_open
<1> DEFINE found == Matches(Here, d, path.name)
           i     == IF found # {} THEN EntryAt(Here, d, Min(found)).inode ELSE get_free_inode(Here)
           s     == IF found # {} THEN Here ELSE Created(Here, d, path.name)
           r     == store_inodes(store_inode_map(s))
<1>2. found # {} \/ Empty(Here, d) # {}
  BY <1>1 DEF Survives
<1>3. Do(Opened(r, i), i)
  BY <1>1, Zenon
<1>4. Holds(Here, {"imap", "ino"})
  BY HereHolds, MoreHolds DEF do_open, Running
<1>5. Holds(s, {"imap", "ino"})
  BY <1>2, <1>4, CreatedHolds
<1> HIDE DEF s, i
<1>6. Holds(r, {})
  <2>1. {"imap", "ino"} \ {"imap"} = {"ino"} /\ {"ino"} \ {"ino"} = {}
    OBVIOUS
  <2>2. Holds(store_inode_map(s), {"imap", "ino"} \ {"imap"})
    BY <1>5, StoreMapsHolds
  <2>3. Holds(store_inodes(store_inode_map(s)), {"ino"} \ {"ino"})
    BY <2>1, <2>2, StoreMapsHolds
  <2> QED BY <2>1, <2>3
<1> HIDE DEF r
<1>7. Holds(Opened(r, i), {})
  BY <1>6, OpenedHolds
<1> QED BY <1>3, <1>7, DoInv

LEMMA LinkedHolds ==
  ASSUME NEW s, Holds(s, Tabs), NEW e, NEW n, NEW i
  PROVE  Holds(Linked(s, e, n, i), Tabs)
<1> DEFINE set   == SetEntry(s, e, Min(Empty(s, e)), Entry(n, i))
           grown == Extend(s, e, Entry(n, i))
           more  == [grown EXCEPT !.ino[e].link = @ + 1]
           t     == IF Empty(s, e) # {} THEN set ELSE more
           r     == [t EXCEPT !.ino[i].link = @ + 1]
<1>1. Linked(s, e, n, i) = r
  BY DEF Linked
<1>2. Holds(t, Tabs)
  <2>1. Holds(set, Tabs)
    BY SetEntryHolds
  <2>2. Holds(grown, Tabs)
    BY ExtendHolds DEF Tabs
  <2> HIDE DEF set, grown
  <2>3. more = [f \in Fields |-> more[f]] /\ more.out = grown.out
    BY <2>2 DEF Holds, Fields
  <2> HIDE DEF more
  <2>4. Holds(more, Tabs)
    BY <2>2, <2>3, AnyHolds
  <2> QED BY <2>1, <2>4
<1> HIDE DEF t
<1>3. r = [f \in Fields |-> r[f]] /\ r.out = t.out
  BY <1>2 DEF Holds, Fields
<1> HIDE DEF r
<1>4. Holds(r, Tabs)
  BY <1>2, <1>3, AnyHolds
<1> QED BY <1>1, <1>4

LEMMA LnInv ==
  ASSUME DiskInv, NEW src, NEW dst, do_ln(src, dst)
  PROVE  DiskInv'
<1>1. PICK e, i : Do(store_block_map(store_inodes(store_inode_map(Linked(Here, e, dst.name, i)))), i)
  BY DEF do_ln
<1>2. Holds(Here, Tabs)
  BY HereHolds, MoreHolds DEF do_ln, Running
<1>3. Holds(Linked(Here, e, dst.name, i), Tabs)
  BY <1>2, LinkedHolds
<1> QED BY <1>1, <1>3, StoreAllHolds, DoInv

-----------------------------------------------------------------------------
LEMMA DiskInit == ASSUME Init PROVE DiskInv
<1>1. IsSeq(<<>>)
  <2>1. <<>> \in Seq({})
    OBVIOUS
  <2> QED BY <2>1 DEF IsSeq
<1>2. MapsOnly(<<>>)
  BY DEF MapsOnly
<1>3. disk = [f \in {"magic", "imap", "bmap", "ino", "data"} |-> disk[f]] /\ disk.bmap = {}
  BY DEF Init
<1>4. Saved(disk.bmap) = disk.bmap
  BY <1>3 DEF Saved
<1>5. todo = <<>> /\ ~magic
  BY DEF Init
<1> QED BY <1>1, <1>2, <1>3, <1>4, <1>5 DEF DiskInv

LEMMA DiskStep ==
  ASSUME DiskInv, {"exists", "growDir"} \cap Careless = {}, [Next]_vars
  PROVE  DiskInv'
<1>1. CASE UNCHANGED vars
  BY <1>1 DEF vars, DiskInv, Leaves
<1>2. CASE do_mkfs \/ DiskWrite \/ Reboot
  BY <1>2, MkfsInv, DiskWriteInv, RebootInv
<1>3. ASSUME NEW p \in Paths, do_cd(p) \/ do_mkdir(p) \/ do_rmdir(p) \/ do_open(p) \/ do_rm(p)
      PROVE  DiskInv'
  BY <1>3, CdInv, MkdirInv, RmdirInv, OpenInv, RmInv
<1>4. ASSUME NEW p \in Paths, NEW q \in Paths, do_ln(p, q) PROVE DiskInv'
  BY <1>4, LnInv
<1>5. ASSUME NEW f \in Fds, NEW k, NEW n \in 1 .. MaxLen, NEW v,
             do_close(f) \/ do_lseek(f, k) \/ do_read(f, n) \/ do_write(f, n, v)
      PROVE  DiskInv'
  BY <1>5, CloseInv, LseekInv, ReadInv, WriteInv
<1>6. ASSUME NEW f \in Fds, do_close(f) PROVE DiskInv'
  BY <1>6, CloseInv
<1>7. ASSUME NEW f \in Fds, NEW k, do_lseek(f, k) PROVE DiskInv'
  BY <1>7, LseekInv
<1> QED BY <1>1, <1>2, <1>3, <1>4, <1>5, <1>6, <1>7 DEF Next

THEOREM DiskInductive ==
  ASSUME {"exists", "growDir"} \cap Careless = {} PROVE Spec => []DiskInv
BY DiskInit, DiskStep, PTL DEF Spec

(***************************************************************************)
(* Whatever the paths, files and calls, and wherever the power fails, the  *)
(* tables on the disk are the tables in memory as soon as no write is left *)
(* to make (DiskCurrent), as long as the blocks in use are among those     *)
(* that store_block_map writes.  Two calls that leave a table behind are   *)
(* excluded: mkdir of a name that exists (fs.c:378) and open in a          *)
(* directory that has no free entry (fs.c:607).                            *)
(***************************************************************************)
THEOREM TablesOnDisk ==
  ASSUME {"exists", "growDir"} \cap Careless = {}
  PROVE  Spec => []((\A b \in block_map : b < SavedBlocks) => DiskCurrent)
<1>1. ASSUME DiskInv, \A b \in block_map : b < SavedBlocks PROVE DiskCurrent
  <2>1. Saved(block_map) = block_map
    BY <1>1 DEF Saved
  <2>2. SUFFICES ASSUME magic, todo = <<>>
                 PROVE  disk.imap = inode_map /\ disk.bmap = block_map /\ disk.ino = inodes
    BY DEF DiskCurrent
  <2>3. \A t, v : Leaves(disk, todo, t, v) => disk[t] = v
    BY <2>2 DEF Leaves
  <2> QED BY <1>1, <2>1, <2>2, <2>3 DEF DiskInv
<1> QED BY <1>1, DiskInductive, PTL
=============================================================================
