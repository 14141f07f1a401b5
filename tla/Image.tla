------------------------------- MODULE Image -------------------------------
(***************************************************************************)
(* The disk image: how tools/createimage.c lays it out, and how the boot   *)
(* block, init_task_info and load_task_img find their way in it.           *)
(*                                                                         *)
(* A program is a sequence of PT_LOAD segments [filesz, memsz], which lie  *)
(* in memory one after the other.  The byte at address v of file id is     *)
(* <<id, v>>, byte j of the table entry of task t is <<-t, j>>.            *)
(***************************************************************************)
EXTENDS Integers, SequencesExt, FiniteSetsExt

CONSTANTS
  SECTOR_SIZE,
  PageSecs,      \* sectors of a page (8)
  InfoSize,      \* sizeof(task_info_t)
  Most,          \* sectors that one sd_read of sd_read_more reads (64)
  Kernels,       \* bound: kernels on images
  Programs,      \* bound: tasks on images
  MaxTasks,      \* bound: tasks of one image
  AnyLayout      \* also images that the code does not survive

ASSUME ImageAssumption ==
  /\ {SECTOR_SIZE, PageSecs, InfoSize, Most} \subseteq Nat \ {0}
  /\ \A f \in Kernels \cup Programs : \A k \in DOMAIN f : f[k].filesz \in 0 .. f[k].memsz

VARIABLES
  image,   \* the image as it was written: bytes, info, tasknum, taskinfo_off, os_size
  over     \* the sectors that swapped pages have overwritten

Zero    == <<0, 0>>
Swapped == <<0, 1>>   \* a byte of a page that was swapped out
Stale   == <<0, 2>>   \* whatever the memory held

Filesz(f) == FoldLeft(LAMBDA n, s : n + s.filesz, 0, f)
Memsz(f)  == FoldLeft(LAMBDA n, s : n + s.memsz, 0, f)

\* what the ELF file id says the memory of its program holds
Segment(f, v) == CHOOSE k \in DOMAIN f : v \in Memsz(SubSeq(f, 1, k - 1)) .. Memsz(SubSeq(f, 1, k)) - 1
Promised(id, f) == [v \in 0 .. Memsz(f) - 1 |->
  LET k == Segment(f, v)
  IN  IF v - Memsz(SubSeq(f, 1, k - 1)) < f[k].filesz THEN <<id, v>> ELSE Zero]

write_segment(id, f, k) == [j \in 1 .. f[k].filesz |-> <<id, Memsz(SubSeq(f, 1, k - 1)) + j - 1>>]
write_padding(img, n)   == img \o [j \in 1 .. n - Len(img) |-> Zero]

NBYTES2SEC(n) == n \div SECTOR_SIZE + (IF n % SECTOR_SIZE # 0 THEN 1 ELSE 0)

\* the bytes of the first n of files, which are the boot block, the kernel and the tasks
Packed(files, n) ==
  LET whole(id) == FoldLeft(\o, <<>>, [k \in DOMAIN files[id] |-> write_segment(id, files[id], k)])
      upto[i \in 0 .. n] == IF i = 0 THEN <<>>
                            ELSE IF i = 1 THEN write_padding(whole(1), SECTOR_SIZE)
                            ELSE upto[i - 1] \o whole(i)
  IN  upto[n]

\* with write_img_info: the table follows the last task, and the boot sector
\* says where it is and how many sectors the kernel fills
create_image(files) ==
  LET tasknum  == Len(files) - 2
      offset(t) == Len(Packed(files, t + 1))
  IN  [files        |-> files,
       info         |-> [t \in 1 .. tasknum |->
                           [offset    |-> offset(t),
                            file_size |-> offset(t + 1) - offset(t),
                            mem_size  |-> Memsz(files[t + 2])]],
       tasknum      |-> tasknum,
       taskinfo_off |-> offset(tasknum + 1),
       os_size      |-> NBYTES2SEC(Filesz(files[2])),
       bytes        |-> Packed(files, Len(files)) \o
                          [j \in 1 .. tasknum * InfoSize |->
                             <<-((j - 1) \div InfoSize + 1), (j - 1) % InfoSize>>]]

-----------------------------------------------------------------------------
\* the byte at address a of the disk
Byte(a) ==
  IF a \div SECTOR_SIZE \in over THEN Swapped
  ELSE IF a < Len(image.bytes) THEN image.bytes[a + 1] ELSE Zero

sd_read(num, id) == [k \in 1 .. num * SECTOR_SIZE |-> Byte(id * SECTOR_SIZE + k - 1)]

sd_read_more(num, id) ==
  LET rest[n \in 0 .. num] == IF n <= Most THEN sd_read(n, id + num - n)
                              ELSE sd_read(Most, id + num - n) \o rest[n - Most]
  IN  rest[num]

\* as many sectors as hold bytes offset .. offset + size, that one included
Sectors_floor(offset, size) == size \div SECTOR_SIZE + 1
Sectors(offset, size) == (offset + size) \div SECTOR_SIZE - offset \div SECTOR_SIZE + 1

Garbage == [offset |-> 0, file_size |-> 0, mem_size |-> 0]

\* the table that init_task_info reads: a record of bytes that are no entry is garbage
TaskTable ==
  LET at  == image.taskinfo_off
      buf == sd_read_more(Sectors(at, image.tasknum * InfoSize), at \div SECTOR_SIZE)
      found(t) == \A j \in 0 .. InfoSize - 1 :
        LET b == (at % SECTOR_SIZE) + (t - 1) * InfoSize + j + 1
        IN  b \in DOMAIN buf /\ buf[b] = <<-t, j>>
  IN  [t \in 1 .. image.tasknum |-> IF found(t) THEN image.info[t] ELSE Garbage]

ROUND(a, n) == ((a + n - 1) \div n) * n

\* where the swap area begins: behind the last task, the table left out
SwapStart(tasks) ==
  ROUND(Max({tasks[t].offset + tasks[t].file_size : t \in DOMAIN tasks} \cup {0}) \div SECTOR_SIZE, PageSecs)

\* the pages of a task: read to TEMP_TASK_IMG, bss cleared, copied
load_task_img(task) ==
  LET start == task.offset \div SECTOR_SIZE
      read  == sd_read(Sectors(task.offset, task.file_size), start)
      at    == task.offset % SECTOR_SIZE
      PAGE_SIZE == PageSecs * SECTOR_SIZE
      pages == task.mem_size \div PAGE_SIZE + (IF task.mem_size % PAGE_SIZE # 0 THEN 1 ELSE 0)
  IN  [v \in 0 .. pages * PAGE_SIZE - 1 |->
         IF v \in task.file_size .. task.mem_size - 1 THEN Zero
         ELSE IF at + v + 1 \in DOMAIN read THEN read[at + v + 1] ELSE Stale]

\* swap_out writes page number n of the swap area
SwapSectors(start, n) == start + n * PageSecs .. start + (n + 1) * PageSecs - 1

-----------------------------------------------------------------------------
(***************************************************************************)
(* The images the code survives: only the last segment of a task has bss,  *)
(* and the swap area begins behind the table.                              *)
(***************************************************************************)
BootBlock == <<[filesz |-> 1, memsz |-> 1]>>

Loadable(img) ==
  /\ \A t \in 1 .. img.tasknum : LET f == img.files[t + 2]
                                 IN  \A k \in 1 .. Len(f) - 1 : f[k].filesz = f[k].memsz
  /\ Len(img.bytes) <= SwapStart(img.info) * SECTOR_SIZE

InitImage ==
  /\ \E k \in Kernels : \E ts \in UNION {[1 .. n -> Programs] : n \in 1 .. MaxTasks} :
       image = create_image(<<BootBlock, k>> \o ts)
  /\ AnyLayout \/ Loadable(image)
  /\ over = {}
=============================================================================
