-------------------------------- MODULE Boot --------------------------------
(***************************************************************************)
(* Both CPUs from reset to the idle loop: bootblock.S, start.S, boot.c,    *)
(* head.S, main.c, ioremap.c and the loading of tasks.  CPU 0 loads the    *)
(* kernel, builds the page tables, initialises everything, wakes CPU 1     *)
(* with an interrupt and then removes the mapping of the low addresses on  *)
(* which both CPUs have run so far.                                        *)
(*                                                                         *)
(* Addresses are numbers of 2 MB frames, physical or virtual; a page table *)
(* is the function from the indices that are present to their entries.     *)
(* The machine may be switched off at any time; the disk stays.            *)
(***************************************************************************)
EXTENDS Image

CONSTANTS
  PlicFrame, E1000Frame,  \* where the device tree says the devices are
  MaxSwaps,               \* bound: pages swapped out between two boots
  Hasty                   \* hart 0 may be faster than hart 1: \subseteq {"wake", "clean"}

ASSUME BootAssumption == MaxSwaps \in Nat /\ Hasty \subseteq {"wake", "clean"}

CPUs == {0, 1}

VARIABLES
  stage, satp,          \* stage of each hart; its page directory: "bare", "kernel" or "proc"
  ssip,              \* software interrupt pending on hart 1
  pgtab,             \* the kernel's page tables; 0 is the directory at PGDIR_PA
  io,                \* what ioremap has returned: <<virtual, physical>>
  kernel,            \* the bytes of the kernel in memory
  tasks, padding_start_sec, sec_ptr,
  initialised,             \* has hart 0 initialised the kernel's data?
  proc               \* the process last loaded: task, dir (its page directory), mem

mem  == <<pgtab, io, kernel, tasks, padding_start_sec, sec_ptr, initialised, proc>>
onDisk == <<image, over>>
bootVars == <<stage, satp, ssip, mem, onDisk>>

PTEs == 512                        \* NUM_PTE_ENTRY
Phys == 640                        \* 0x50000000
Code == 641                        \* 0x50200000: boot block, boot stack, kernel
LowStack == 642                    \* KERNEL_STACK and SECOND_KERNEL_STACK
pa2kva(f) == f + 256 * PTEs        \* 0xffffffc000000000, within VA_MASK
IO_ADDR_START == 384 * PTEs        \* 0xffffffe000000000
Unmapped == -1

NoProcess == [task |-> 0]

\* one entry more; a directory without entries alone
With(f, i, e) == [j \in DOMAIN f \cup {i} |-> IF j = i THEN e ELSE f[j]]
NoTables == [i \in {0} |-> <<>>]

PowerOn ==
  /\ InitImage
  /\ stage = [h \in CPUs |-> "bootblock"] /\ satp = [h \in CPUs |-> "bare"] /\ ssip = FALSE
  /\ pgtab = NoTables /\ io = {} /\ kernel = <<>>
  /\ tasks = <<>> /\ padding_start_sec = 0 /\ sec_ptr = 0 /\ initialised = FALSE /\ proc = NoProcess

Goes(h, from, to) == stage[h] = from /\ stage' = [stage EXCEPT ![h] = to]

-----------------------------------------------------------------------------
\* map_page for n large pages of one gigabyte, from va on, in directory 0
map_pages(tabs, va, pa, n) ==
  LET vpn2  == va \div PTEs
      fresh == Cardinality(DOMAIN tabs)            \* alloc_page
      up    == IF vpn2 \in DOMAIN tabs[0] THEN tabs
               ELSE With([tabs EXCEPT ![0] = With(@, vpn2, [pfn |-> fresh, leaf |-> FALSE])], fresh, <<>>)
      pmd   == up[0][vpn2].pfn
      first == va % PTEs
  IN  [up EXCEPT ![pmd] = [v \in DOMAIN @ \cup (first .. first + n - 1) |->
                             IF v \in first .. first + n - 1 THEN [pfn |-> pa + v - first, leaf |-> TRUE]
                                                            ELSE @[v]]]

Tables_highOnly == map_pages(NoTables, pa2kva(Phys), Phys, 128)

\* setup_vm: all memory at its kernel address, the first 16 MB also at their own
Tables == map_pages(map_pages(NoTables, pa2kva(Phys), Phys, 128), Phys, Phys, 8)

Translate(dir, va) ==
  LET walk(e) == IF e.leaf THEN e.pfn + (va % PTEs)
                 ELSE IF va % PTEs \in DOMAIN pgtab[e.pfn] THEN pgtab[e.pfn][va % PTEs].pfn
                 ELSE Unmapped
  IN  IF va \div PTEs \in DOMAIN dir THEN walk(dir[va \div PTEs]) ELSE Unmapped

\* ioremap: one leaf of a gigabyte for the k-th request
IoIndex(k)       == IO_ADDR_START \div PTEs + k
IoEntry(pa)      == [pfn |-> pa - (pa % PTEs), leaf |-> TRUE]
IoAddress(k, pa) == IO_ADDR_START + k * PTEs + (pa % PTEs)

-----------------------------------------------------------------------------
(***************************************************************************)
(* Hart 0.                                                                 *)
(***************************************************************************)
LoadKernel ==
  /\ Goes(0, "bootblock", "_boot")
  /\ kernel' = sd_read(image.os_size, 1)
  /\ UNCHANGED <<satp, ssip, pgtab, io, tasks, padding_start_sec, sec_ptr, initialised, proc, onDisk>>

setup_vm ==
  /\ Goes(0, "_boot", "vm") /\ satp' = [satp EXCEPT ![0] = "kernel"]
  /\ pgtab' = Tables
  /\ UNCHANGED <<ssip, io, kernel, tasks, padding_start_sec, sec_ptr, initialised, proc, onDisk>>

\* the kernel's data is cleared
_start ==
  /\ Goes(0, "vm", "init")
  /\ initialised' = FALSE /\ sec_ptr' = 0 /\ tasks' = <<>> /\ io' = {}
  /\ UNCHANGED <<satp, ssip, pgtab, kernel, padding_start_sec, proc, onDisk>>

\* init_mm, init_jmptab, init_task_info, init_pcb
init_task_info ==
  /\ Goes(0, "init", "ioremap")
  /\ tasks' = TaskTable /\ padding_start_sec' = SwapStart(TaskTable)
  /\ UNCHANGED <<satp, ssip, pgtab, io, kernel, sec_ptr, initialised, proc, onDisk>>

ioremap ==
  /\ Goes(0, "ioremap", "devices")
  /\ pgtab' = [pgtab EXCEPT ![0] =
                 With(With(@, IoIndex(0), IoEntry(PlicFrame)), IoIndex(1), IoEntry(E1000Frame))]
  /\ io' = {<<IoAddress(0, PlicFrame), PlicFrame>>, <<IoAddress(1, E1000Frame), E1000Frame>>}
  /\ UNCHANGED <<satp, ssip, kernel, tasks, padding_start_sec, sec_ptr, initialised, proc, onDisk>>

\* plic_init, e1000_init, init_locks .. init_fs
InitDevices ==
  /\ Goes(0, "devices", "test") /\ initialised' = TRUE
  /\ UNCHANGED <<satp, ssip, pgtab, io, kernel, tasks, padding_start_sec, sec_ptr, proc, onDisk>>

\* load_task_img, allocPagetable and share_pgtable: the directory is copied
Load(t) == proc' = [task |-> t, dir |-> pgtab[0], mem |-> load_task_img(tasks[t])]

\* the shell is the first task
test ==
  /\ Goes(0, "test", "wake") /\ Load(1)
  /\ UNCHANGED <<satp, ssip, pgtab, io, kernel, tasks, padding_start_sec, sec_ptr, initialised, onDisk>>

wakeup_other_hart ==
  /\ stage[1] = "wfi" \/ "wake" \in Hasty
  /\ Goes(0, "wake", "clean") /\ ssip' = TRUE
  /\ UNCHANGED <<satp, mem, onDisk>>

\* nothing in the code makes hart 0 wait: it takes longer, or Hasty has "clean"
Others == stage[1] = "idle" \/ "clean" \in Hasty

clean_temp_page ==
  /\ Others
  /\ Goes(0, "clean", "idle")
  /\ pgtab' = [pgtab EXCEPT ![pgtab[0][Phys \div PTEs].pfn] =
                 [v \in DOMAIN @ \ ((Phys % PTEs) .. (Phys % PTEs) + 7) |-> @[v]]]
  /\ UNCHANGED <<satp, ssip, io, kernel, tasks, padding_start_sec, sec_ptr, initialised, proc, onDisk>>

-----------------------------------------------------------------------------
(***************************************************************************)
(* Hart 1.                                                                 *)
(***************************************************************************)
secondary ==
  /\ Goes(1, "bootblock", "wfi") /\ ssip' = FALSE
  /\ UNCHANGED <<satp, mem, onDisk>>

\* stvec is the start of the kernel, and only software interrupts are enabled
Enabled_none == {}
Enabled == {"ssip"}

WakeUp ==
  /\ ssip /\ "ssip" \in Enabled
  /\ Goes(1, "wfi", "_boot") /\ ssip' = FALSE
  /\ UNCHANGED <<satp, mem, onDisk>>

enable_vm ==
  /\ Goes(1, "_boot", "vm") /\ satp' = [satp EXCEPT ![1] = "kernel"]
  /\ UNCHANGED <<ssip, mem, onDisk>>

_start_secondary ==
  /\ Goes(1, "vm", "main")
  /\ UNCHANGED <<satp, ssip, mem, onDisk>>

main_secondary ==
  /\ Goes(1, "main", "idle")
  /\ UNCHANGED <<satp, ssip, mem, onDisk>>

-----------------------------------------------------------------------------
(***************************************************************************)
(* After boot: a hart runs the process or idles, loads a program, or swaps *)
(* a page out.                                                             *)
(***************************************************************************)
switch_to(h) == \E d \in {"kernel", "proc"} :
  /\ stage[h] = "idle" /\ (d = "proc" => proc # NoProcess)
  /\ satp' = [satp EXCEPT ![h] = d]
  /\ UNCHANGED <<stage, ssip, mem, onDisk>>

\* one process is looked at: the next is loaded when no hart runs the last
do_exec(h) == \E t \in DOMAIN tasks :
  /\ stage[h] = "idle" /\ \A g \in CPUs : satp[g] # "proc"
  /\ Load(t)
  /\ UNCHANGED <<stage, satp, ssip, pgtab, io, kernel, tasks, padding_start_sec, sec_ptr, initialised, onDisk>>

swap_out(h) ==
  /\ stage[h] = "idle" /\ sec_ptr < MaxSwaps
  /\ over' = over \cup SwapSectors(padding_start_sec, sec_ptr) /\ sec_ptr' = sec_ptr + 1
  /\ UNCHANGED <<stage, satp, ssip, pgtab, io, kernel, tasks, padding_start_sec, initialised, proc, image>>

PowerFails ==
  /\ stage' = [h \in CPUs |-> "bootblock"] /\ satp' = [h \in CPUs |-> "bare"] /\ ssip' = FALSE
  /\ pgtab' = NoTables /\ io' = {} /\ kernel' = <<>>
  /\ tasks' = <<>> /\ padding_start_sec' = 0 /\ sec_ptr' = 0 /\ initialised' = FALSE /\ proc' = NoProcess
  /\ UNCHANGED onDisk

Hart0 == \/ LoadKernel \/ setup_vm \/ _start \/ init_task_info \/ ioremap \/ InitDevices
         \/ test \/ wakeup_other_hart \/ clean_temp_page
Hart1 == secondary \/ WakeUp \/ enable_vm \/ _start_secondary \/ main_secondary
Runs  == \E h \in CPUs : switch_to(h) \/ do_exec(h) \/ swap_out(h)

BootNext == Hart0 \/ Hart1 \/ Runs \/ PowerFails

\* a hart that can take its next step of booting takes it
BootSpec == PowerOn /\ [][BootNext]_bootVars /\ WF_bootVars(Hart0) /\ WF_bootVars(Hart1)

-----------------------------------------------------------------------------
(***************************************************************************)
(* What is loaded is what was linked: the kernel, the task table and every *)
(* task with its bss cleared are in memory as their ELF files say, after   *)
(* any number of reboots and with swapped pages on the same disk           *)
(* (createimage.c:91-170, main.c:105-145, loader.c:22-49).                 *)
(***************************************************************************)
LoadedWhole ==
  /\ kernel # <<>> => LET f == image.files[2]
                      IN  SubSeq(kernel, 1, Filesz(f)) = [k \in 1 .. Filesz(f) |-> <<2, k - 1>>]
  /\ tasks # <<>> => tasks = image.info
  /\ proc # NoProcess => LET want == Promised(proc.task + 2, image.files[proc.task + 2])
                    IN  \A v \in DOMAIN want : v \in DOMAIN proc.mem /\ proc.mem[v] = want[v]

\* the addresses a hart uses before its next step, as the program means them
Uses(h) ==
  CASE stage[h] \in {"bootblock", "wfi", "_boot", "vm"} -> {<<Code, Code>>}
    [] stage[h] = "idle" -> {<<pa2kva(Code), Code>>} \cup io
    [] OTHER -> {<<pa2kva(Code), Code>>, <<LowStack, LowStack>>} \cup io

Directory(h) == IF satp[h] = "proc" THEN proc.dir ELSE pgtab[0]

(***************************************************************************)
(* Each hart reaches the code, the stack and the devices it uses at every  *)
(* stage, while the other one builds and removes mappings, and in every    *)
(* process, whose directory is a copy of the kernel's (boot.c:48-66,       *)
(* ioremap.c:13-26, main.c:254-270, loader.c:39-42).                       *)
(***************************************************************************)
NoFault ==
  \A h \in CPUs : \A u \in Uses(h) :
    (IF satp[h] = "bare" THEN u[1] ELSE Translate(Directory(h), u[1])) = u[2]

Stack_one(h) == "KERNEL_STACK"
\* head.S chooses by the hart
Stack(h) == IF h = 0 THEN "KERNEL_STACK" ELSE "SECOND_KERNEL_STACK"

StackInUse(h) ==
  CASE stage[h] \in {"_boot", "vm"} -> {"boot_stack"}
    [] stage[h] \in {"bootblock", "wfi", "idle"} -> {}
    [] OTHER -> {Stack(h)}

(***************************************************************************)
(* The harts never use one stack at the same time, and hart 1 runs kernel  *)
(* code only when hart 0 has initialised what it works on (start.S:23,     *)
(* head.S:20-37, main.c:336-446).                                          *)
(***************************************************************************)
HartsApart ==
  /\ StackInUse(0) \cap StackInUse(1) = {}
  /\ stage[1] \in {"main", "idle"} => initialised

(***************************************************************************)
(* Both harts reach the idle loop: the interrupt that wakes hart 1 is not  *)
(* lost, unless the machine is switched off again and again                *)
(* (bootblock.S:44-69, smp.c:12-17).                                       *)
(***************************************************************************)
HartsRun == (\A h \in CPUs : []<>(stage[h] = "idle")) \/ []<><<PowerFails>>_bootVars

(***************************************************************************)
(* Why NoFault and HartsApart hold: hart 1 leaves wfi only when hart 0 is  *)
(* through with everything but clean_temp_page, and every directory in use *)
(* has the entries of the kernel and of the devices.                       *)
(***************************************************************************)
Stages == {"bootblock", "wfi", "_boot", "vm", "init", "ioremap", "devices", "test", "wake",
           "clean", "main", "idle"}
Asleep == {"bootblock", "wfi"}
Unpaged == {"bootblock", "wfi", "_boot"}
Done   == {"clean", "idle"}

\* entry i of the directory leads to table n, which maps memory from Phys on
Leads(i, n) ==
  /\ 0 \in DOMAIN pgtab /\ i \in DOMAIN pgtab[0] /\ pgtab[0][i] = [pfn |-> n, leaf |-> FALSE]
  /\ n \in DOMAIN pgtab
  /\ \A v \in {Code % PTEs, LowStack % PTEs} :
       v \in DOMAIN pgtab[n] /\ pgtab[n][v].pfn = Phys - (Phys % PTEs) + v

HighMapped == Leads(pa2kva(Phys) \div PTEs, 1)
LowMapped  == Leads(Phys \div PTEs, 2)

Maps(k, pa) == IoIndex(k) \in DOMAIN pgtab[0] /\ pgtab[0][IoIndex(k)] = IoEntry(pa)

IoMapped ==
  /\ io \subseteq {<<IoAddress(0, PlicFrame), PlicFrame>>, <<IoAddress(1, E1000Frame), E1000Frame>>}
  /\ io # {} => Maps(0, PlicFrame) /\ Maps(1, E1000Frame)

BootInv ==
  /\ stage \in [CPUs -> Stages] /\ satp \in [CPUs -> {"bare", "kernel", "proc"}]
  /\ stage[0] \notin {"wfi", "main"} /\ stage[1] \in Unpaged \cup {"vm", "main", "idle"}
  /\ \A h \in CPUs : /\ satp[h] = "bare" <=> stage[h] \in Unpaged
                     /\ satp[h] = "proc" => stage[h] = "idle" /\ proc # NoProcess
  /\ stage[0] \notin Unpaged => HighMapped
  /\ stage[0] \notin Unpaged \cup {"idle"} => LowMapped
  /\ IoMapped /\ (stage[0] \in Unpaged \cup {"vm", "init", "ioremap"} => io = {})
  /\ proc # NoProcess => proc.dir = pgtab[0] /\ stage[0] \in {"wake", "clean", "idle"}
  /\ stage[0] \in {"test", "wake", "clean", "idle"} => initialised
  /\ stage[0] \notin Done => stage[1] \in Asleep /\ ~ssip
  /\ stage[0] = "idle" => stage[1] = "idle" \/ "clean" \in Hasty
=============================================================================
