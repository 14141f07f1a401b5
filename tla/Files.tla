------------------------------- MODULE Files -------------------------------
(***************************************************************************)
(* The file system, kernel/fs/fs.c.  The kernel keeps the inode map, the   *)
(* block map and the inode table in memory; a call changes them and then   *)
(* writes blocks and tables to the disk one after the other.  Calls run    *)
(* under the big kernel lock, so one call is one action on the memory, and *)
(* the disk writes it issued, in order, are in todo.  The power may fail   *)
(* between two of them; init_fs then mounts what is on the disk.           *)
(*                                                                         *)
(* The unit of file data is the block: offsets, lengths and sizes count    *)
(* blocks, and a block holds Slots directory entries, Indirect block       *)
(* numbers or one datum.  Modes are not modelled: no call reads them.      *)
(*                                                                         *)
(* What programs may do that the code does not survive is an element of    *)
(* Careless.  An operator X_y that precedes X is X with a bug.             *)
(***************************************************************************)
EXTENDS Integers, SequencesExt, FiniteSetsExt

CONSTANTS
  NumInode,     \* INODE_NUM
  NumBlock,     \* data blocks on the disk
  SavedBlocks,  \* entries of the block map that store_block_map writes
  Direct,       \* direct block numbers of an inode (7); one more is indirect
  Indirect,     \* INDIRECT_SIZE
  Slots,        \* BLOCK_SIZE / sizeof(dentry_t)
  NumFd,        \* NUM_FDESCS
  Vals,         \* data programs write
  MaxLen,       \* bound: blocks of a file
  Paths,        \* bound: the paths programs use, [abs, dirs, name]
  Careless

Inodes == 0 .. NumInode - 1
Blocks == 0 .. NumBlock - 1
Secs   == 0 .. Direct
Fds    == 0 .. NumFd - 1

ASSUME FilesAssumption ==
  /\ {NumInode, NumBlock, SavedBlocks, Direct, Indirect, Slots, NumFd} \subseteq Nat \ {0}
  /\ MaxLen \in 1 .. Direct + Indirect * Indirect - 1 /\ {0, -1} \cap Vals = {}   \* a hole, junk
  /\ \A p \in Paths : p.abs \in BOOLEAN /\ p.name \notin {"", ".", ".."}
  /\ Careless \subseteq {"recycle", "exists", "missing", "rmdirBusy", "rmOpen", "wrongType",
                         "lostCwd", "growDir", "offLimits", "closeTwice", "mkfsCut", "cutAppend"}

VARIABLES
  magic,          \* superblock.magic is SUPERBLOCK_MAGIC
  inode_map,      \* the inodes in use
  block_map,      \* the blocks in use
  inodes,         \* size, link, sec[], parent_inode
  current_inode,
  fdesc_array,    \* inode_num, offset, ref_count
  disk,           \* magic, imap, bmap, ino (the tables as last written), data
  todo,           \* disk writes the current call has still to make
  written,        \* history: what programs wrote to each block of each inode
  target,         \* history: the inode the call that still writes is about
  torn            \* history: has the power failed in the middle of a call?

vars == <<magic, inode_map, block_map, inodes, current_inode, fdesc_array, disk, todo,
          written, target, torn>>

Blank     == [name |-> "", inode |-> 0]
Entry(n, i) == [name |-> n, inode |-> i]
DirBlock(seq) == [kind |-> "dir", e |-> [j \in 0 .. Slots - 1 |-> IF j < Len(seq) THEN seq[j+1] ELSE Blank]]
Datum(v)  == [kind |-> "val", v |-> v]
Hole      == [m \in 0 .. Indirect - 1 |-> 0]
PtrBlock(p) == [kind |-> "ptr", p |-> p]

\* a block read as something it was not written as: no entries, holes, junk
Entries(c)  == IF c.kind = "dir" THEN c.e ELSE [j \in 0 .. Slots - 1 |-> Entry("junk", 0)]
Pointers(c) == IF c.kind = "ptr" THEN c.p ELSE Hole
Value(c)    == IF c.kind = "val" THEN c.v ELSE -1

NoInode == [size |-> 0, link |-> 0, sec |-> [k \in Secs |-> 0], parent |-> -1]
NoFd    == [ino |-> 0, off |-> 0, ref |-> 0]
Nothing == [i \in Inodes |-> [k \in 0 .. MaxLen - 1 |-> 0]]

\* a disk of zeros, and the kernel after init_fs found no file system on it
Init ==
  /\ magic = FALSE /\ inode_map = {} /\ block_map = {}
  /\ inodes = [i \in Inodes |-> NoInode]
  /\ current_inode = 0 /\ fdesc_array = [f \in Fds |-> NoFd]
  /\ disk = [magic |-> FALSE, imap |-> {}, bmap |-> {}, ino |-> inodes,
             data |-> [b \in Blocks |-> Datum(0)]]
  /\ todo = <<>> /\ written = Nothing /\ target = 0 /\ torn = FALSE

-----------------------------------------------------------------------------
(***************************************************************************)
(* A call works on a snapshot of the memory and of the data blocks, which  *)
(* also collects the writes it issues.                                     *)
(***************************************************************************)
Put(d, w) == IF w.part = "data" THEN [d EXCEPT !.data[w.block] = w.value]
                                ELSE [d EXCEPT ![w.part] = w.value]

\* the data blocks as the calls so far leave them
Latest == FoldLeft(Put, disk, todo).data

Here == [imap |-> inode_map, bmap |-> block_map, ino |-> inodes, cur |-> current_inode,
         fds |-> fdesc_array, data |-> Latest, seen |-> written, out |-> <<>>]

store(s, part, v) == [s EXCEPT !.out = Append(@, [part |-> part, value |-> v])]

store_inode_map(s) == store(s, "imap", s.imap)
store_inodes(s)    == store(s, "ino", s.ino)

\* BLOCK_MAP_SIZE is written 1<<17, so BLOCK_MAP_SIZE/SEC_SIZE is 1<<(17/512):
\* one sector, 512 entries
store_block_map(s) == store(s, "bmap", {b \in s.bmap : b < SavedBlocks})

store_a_data_block(s, b, c) ==
  [s EXCEPT !.data[b] = c, !.out = Append(@, [part |-> "data", block |-> b, value |-> c])]

Running == magic /\ todo = <<>> /\ current_inode # -1

\* the call about inode i leaves the kernel in s
Do(s, i) ==
  /\ inode_map' = s.imap /\ block_map' = s.bmap /\ inodes' = s.ino
  /\ current_inode' = s.cur /\ fdesc_array' = s.fds /\ written' = s.seen
  /\ todo' = s.out /\ target' = i
  /\ UNCHANGED <<magic, disk, torn>>

Survives(fault, ok) == ok \/ fault \in Careless

-----------------------------------------------------------------------------
(***************************************************************************)
(* Helpers.                                                                *)
(***************************************************************************)
get_free_inode(s) == Min(Inodes \ s.imap)
get_free_block(s) == IF Blocks \subseteq s.bmap THEN -1 ELSE Min(Blocks \ s.bmap)
Take(s, b)        == [s EXCEPT !.bmap = @ \cup ({b} \ {-1})]

\* the block that a block number e leads to; when e is 0, a free one is taken
BlockFor(s, e) == IF e = 0 THEN get_free_block(s) ELSE e
Ensured(s, e)  == IF e = 0 THEN Take(s, get_free_block(s)) ELSE s

\* the numbers from a to b - 1
Span(a, b) == [n \in 1 .. b - a |-> a + n - 1]

\* bound: there is always an inode, and k blocks, to hand out
Room(k) == inode_map # Inodes /\ Cardinality(Blocks \ block_map) >= k

directory_sec_is_not_used(s, d, k) == s.ino[d].sec[k] = 0 /\ (d # 0 \/ k > 0)

\* entry number p of directory d is slot p % Slots of sec[p \div Slots]
Places(s, d) == {p \in 0 .. (Direct + 1) * Slots - 1 :
                   \A k \in 0 .. p \div Slots : ~directory_sec_is_not_used(s, d, k)}

EntryAt(s, d, p) == Entries(s.data[s.ino[d].sec[p \div Slots]])[p % Slots]

Matches(s, d, n) == {p \in Places(s, d) : /\ EntryAt(s, d, p).name = n
                                          /\ EntryAt(s, d, p).inode \in s.imap}
Empty(s, d) == {p \in Places(s, d) : EntryAt(s, d, p).name = ""}

SetEntry(s, d, p, e) ==
  LET b == s.ino[d].sec[p \div Slots]
  IN  store_a_data_block(s, b, [s.data[b] EXCEPT !.e[p % Slots] = e])

\* the first sec of a directory that is not used
NextSec(s, d) == Min({k \in Secs : directory_sec_is_not_used(s, d, k)})

\* d gets one more block, which holds the entry e
Extend(s, d, e) ==
  LET b == get_free_block(s)
  IN  store_a_data_block([Take(s, b) EXCEPT !.ino[d].sec[NextSec(s, d)] = b], b, DirBlock(<<e>>))

\* programs can tell directories by their first entry; the code does not
IsDir(s, i) == /\ i \in s.imap /\ ~directory_sec_is_not_used(s, i, 0)
               /\ Entries(s.data[s.ino[i].sec[0]])[0].name = "."

Step(s, d, n) == IF d = -1 \/ Matches(s, d, n) = {} THEN -1
                 ELSE EntryAt(s, d, Min(Matches(s, d, n))).inode

parse_path(s, base, dirs) == FoldLeft(LAMBDA d, n : Step(s, d, n), base, dirs)

\* seperate_parent turns "/name" into "" and name, and parse_path looks up ""
\* in the current directory
ParentOf(s, path) ==
  parse_path(s, IF path.abs /\ path.dirs # <<>> THEN 0 ELSE s.cur, path.dirs)

\* the directory of the path, if there is one and it really is one
Inside(h, path) ==
  {d \in {ParentOf(h, path)} : d # -1 /\ Survives("wrongType", IsDir(h, d))}

\* inode i, its parent_inode, and so on; the loops that follow it stop at -1
Upwards(s, i) ==
  LET up[n \in 0 .. NumInode] ==
        IF n = 0 THEN i ELSE IF up[n-1] = -1 THEN -1 ELSE s.ino[up[n-1]].parent
  IN  up
Ends(s, i)  == Upwards(s, i)[NumInode] = -1
Chain(s, i) == {Upwards(s, i)[n] : n \in 0 .. NumInode} \ {-1}

AddSize(s, S, k) ==
  [s EXCEPT !.ino = [i \in Inodes |-> IF i \in S THEN [@[i] EXCEPT !.size = @ + k] ELSE @[i]]]

\* forgets that the first Direct blocks are not behind pointers
BlockOf_fromZero(s, i, k) ==
  IF k < Direct THEN Value(s.data[s.ino[i].sec[k]])
  ELSE LET first  == Pointers(s.data[s.ino[i].sec[Direct]])[k \div Indirect]
           second == Pointers(s.data[first])[k % Indirect]
       IN  IF first = 0 \/ second = 0 THEN 0 ELSE Value(s.data[second])

\* block k of inode i as do_read finds it
BlockOf(s, i, k) ==
  IF k < Direct THEN Value(s.data[s.ino[i].sec[k]])
  ELSE LET first  == Pointers(s.data[s.ino[i].sec[Direct]])[(k - Direct) \div Indirect]
           second == Pointers(s.data[first])[(k - Direct) % Indirect]
       IN  IF first = 0 \/ second = 0 THEN 0 ELSE Value(s.data[second])

Content(s, i) == [k \in 0 .. MaxLen - 1 |-> IF k < s.ino[i].size THEN BlockOf(s, i, k) ELSE 0]

-----------------------------------------------------------------------------
(***************************************************************************)
(* Making and mounting a file system.                                      *)
(***************************************************************************)
do_mkfs ==
  /\ ~disk.magic /\ todo = <<>>
  /\ LET root == [inodes[0] EXCEPT !.size = 0, !.link = 1, !.parent = -1, !.sec[0] = 0]
         s    == [Here EXCEPT !.imap = {0}, !.bmap = {0}, !.ino[0] = root, !.cur = 0]
         t    == store_inodes(store_block_map(store_inode_map(store(s, "magic", TRUE))))
     IN  todo' = store_a_data_block(t, 0, DirBlock(<<Entry(".", 0)>>)).out
         /\ inode_map' = t.imap /\ block_map' = t.bmap /\ inodes' = t.ino
  /\ magic' = TRUE /\ current_inode' = 0 /\ target' = 0
  /\ UNCHANGED <<fdesc_array, disk, written, torn>>

\* the next write of the current call reaches the disk
DiskWrite ==
  /\ todo # <<>>
  /\ disk' = Put(disk, Head(todo)) /\ todo' = Tail(todo)
  /\ target' = IF Len(todo) = 1 THEN 0 ELSE target
  /\ UNCHANGED <<magic, inode_map, block_map, inodes, current_inode, fdesc_array, written, torn>>

\* the kernel as init_fs leaves it
init_fs == [Here EXCEPT !.imap = disk.imap, !.bmap = disk.bmap, !.ino = disk.ino, !.cur = 0,
                        !.fds = [f \in Fds |-> NoFd], !.data = disk.data]

\* a write to a file with pointers has taken blocks and not stored the block map
Appending == /\ todo # <<>> /\ disk.ino[target].sec[Direct] # 0
             /\ ~(block_map \subseteq disk.bmap)

\* Power off, at any moment, and on again.  What the interrupted call wrote to
\* its file is unknown; every other file must be as it was.  Bound: the power
\* fails in the middle of a call once.
Reboot ==
  /\ magic /\ disk.magic /\ (torn => todo = <<>>)
  /\ Survives("mkfsCut", todo = <<>> \/ target # 0) /\ Survives("cutAppend", ~Appending)
  /\ LET m == init_fs
     IN  /\ inode_map' = m.imap /\ block_map' = m.bmap /\ inodes' = m.ino
         /\ current_inode' = m.cur /\ fdesc_array' = m.fds
         /\ written' = IF todo = <<>> THEN written
                       ELSE [written EXCEPT ![target] = Content(m, target)]
  /\ todo' = <<>> /\ target' = 0 /\ torn' = (torn \/ todo # <<>>)
  /\ UNCHANGED <<magic, disk>>

-----------------------------------------------------------------------------
(***************************************************************************)
(* Directories.                                                            *)
(***************************************************************************)
do_cd(path) ==
  /\ Running
  /\ LET d == Step(Here, ParentOf(Here, path), path.name)
     IN  /\ Survives("lostCwd", d # -1) /\ Survives("wrongType", IsDir(Here, d))
         /\ Do([Here EXCEPT !.cur = d], target)

\* inode n taken for a directory in d
Reserved(s, d, n) == [s EXCEPT !.imap = @ \cup {n}, !.seen[n] = Nothing[n],
                       !.ino[n] = [@ EXCEPT !.size = 0, !.parent = d, !.link = 2]]

\* the entries at which the search for a name that is to be new stops
Stops(s, d, name) == Empty(s, d) \cup Matches(s, d, name)

\* inode n gets its name in d and its first block
Made(s, d, n, name) ==
  LET stops == Stops(s, d, name)
      e     == Entry(name, n)
      named == IF stops # {} THEN SetEntry(s, d, Min(stops), e)
               ELSE [AddSize(Extend(s, d, e), {d}, 1) EXCEPT !.ino[d].parent = d]
      b     == get_free_block(named)
  IN  store_a_data_block([Take(named, b) EXCEPT !.ino[n].sec[0] = b, !.ino[d].link = @ + 1],
                         b, DirBlock(<<Entry(".", n), Entry("..", d)>>))

\* The inode is taken and filled in before the name is looked for.  A name that
\* exists past the first empty entry is not seen.
do_mkdir(path) == Running /\ LET h == Here IN \E d \in Inside(h, path) :
  /\ Room(2)
  /\ LET n     == get_free_inode(h)
         s     == Reserved(h, d, n)
         stops == Stops(s, d, path.name)
     IN  IF stops # {} /\ EntryAt(s, d, Min(stops)).name = path.name
           THEN Survives("exists", FALSE) /\ Do(s, n)
           ELSE /\ Survives("growDir", stops # {})
                /\ Survives("recycle", \A k \in Secs : inodes[n].sec[k] = 0)
                /\ Do(store_inodes(store_inode_map(store_block_map(Made(s, d, n, path.name)))), n)

\* The entry n of directory d is cleared.  When there is none, the last block
\* of d that was read is written to sec[] of the first unused one, which is
\* block 0, and the inode to remove is an uninitialised variable.
Cleared(s, d, n) ==
  IF Matches(s, d, n) # {}
    THEN {[ino |-> EntryAt(s, d, Min(Matches(s, d, n))).inode,
           s   |-> SetEntry(s, d, Min(Matches(s, d, n)), Blank)]}
    ELSE {[ino |-> i, s |-> store_a_data_block(s, 0, s.data[s.ino[d].sec[NextSec(s, d) - 1]])] :
            i \in IF "missing" \in Careless THEN Inodes ELSE {}}

\* link counts are unsigned; 64 stands for 2^32
Drop(s, i, k) == [s EXCEPT !.ino[i].link = IF @ >= k THEN @ - k ELSE @ - k + 64]

EmptyDir(s, i) == /\ IsDir(s, i) /\ i # s.cur
                  /\ \A p \in Places(s, i) : EntryAt(s, i, p).name \in {"", ".", ".."}

do_rmdir(path) == Running /\ LET h == Here IN \E d \in Inside(h, path) :
  \E c \in Cleared(h, d, path.name) :
    LET s    == Drop(Drop(c.s, d, 1), c.ino, 2)
        held == {s.ino[c.ino].sec[k] : k \in Secs} \ {0}
        done == IF s.ino[c.ino].link > 0 THEN s
                ELSE [s EXCEPT !.imap = @ \ {c.ino}, !.bmap = @ \ held]
    IN  /\ Survives("rmdirBusy", EmptyDir(h, c.ino))
        /\ Do(store_block_map(store_inodes(store_inode_map(done))), c.ino)

-----------------------------------------------------------------------------
(***************************************************************************)
(* Files.                                                                  *)
(***************************************************************************)
\* a new inode keeps the sec[] of the file it last was
Created(s, d, name) ==
  LET n == get_free_inode(s)
      t == [s EXCEPT !.imap = @ \cup {n}, !.seen[n] = Nothing[n],
              !.ino[n] = [@ EXCEPT !.size = 0, !.parent = d, !.link = @ + 1]]
  IN  IF Empty(s, d) # {} THEN SetEntry(t, d, Min(Empty(s, d)), Entry(name, n))
                          ELSE Extend(t, d, Entry(name, n))

\* the first free descriptor, if there is one
Opened(s, i) ==
  LET free == {f \in Fds : s.fds[f].ref = 0}
  IN  IF free = {} THEN s ELSE [s EXCEPT !.fds[Min(free)] = [ino |-> i, off |-> 0, ref |-> 1]]

do_open(path) == Running /\ LET h == Here IN \E d \in Inside(h, path) :
  LET found == Matches(h, d, path.name)
      i     == IF found # {} THEN EntryAt(h, d, Min(found)).inode ELSE get_free_inode(h)
      s     == IF found # {} THEN h ELSE Created(h, d, path.name)
  IN  /\ IF found # {} THEN Survives("wrongType", ~IsDir(h, i))
         ELSE /\ Room(1)
              /\ Survives("growDir", Empty(h, d) # {})
              /\ Survives("recycle", \A k \in Secs : inodes[i].sec[k] = 0)
      /\ Do(Opened(store_inodes(store_inode_map(s)), i), i)

IsOpen(f) == f \in Fds /\ fdesc_array[f].ref = 1

\* the offset moves to the end of what there was to read
do_read(f, len) ==
  /\ Running /\ IsOpen(f)
  /\ LET left == inodes[fdesc_array[f].ino].size - fdesc_array[f].off
     IN  /\ Survives("offLimits", left >= 0)
         /\ Do([Here EXCEPT !.fds[f].off = @ + (IF len >= left THEN left ELSE len)], target)

\* blocks reached directly
WriteDirect(s, i, k, v) ==
  LET e == s.ino[i].sec[k]
      b == BlockFor(s, e)
  IN  store_a_data_block([Ensured(s, e) EXCEPT !.ino[i].sec[k] = b], b, Datum(v))

DirectLoop(s, i, ks, v) == FoldLeft(LAMBDA x, k : WriteDirect(x, i, k, v), s, ks)

\* Blocks reached through sec[Direct]: a is the snapshot, the first-level
\* pointers and the second-level pointers last used.  The second-level block
\* is read again for every block written and stored when it is full.
WriteIndirect(a, k, v) ==
  LET m  == (k - Direct) \div Indirect
      j  == (k - Direct) % Indirect
      pb == BlockFor(a.s, a.first[m])
      s1 == Ensured(a.s, a.first[m])
      p  == IF a.first[m] = 0 THEN Hole ELSE Pointers(s1.data[pb])
      b  == BlockFor(s1, p[j])
      s2 == store_a_data_block(Ensured(s1, p[j]), b, Datum(v))
      p2 == [p EXCEPT ![j] = b]
  IN  [s |-> IF j + 1 = Indirect THEN store_a_data_block(s2, pb, PtrBlock(p2)) ELSE s2,
       first |-> [a.first EXCEPT ![m] = pb], second |-> p2]

IndirectLoop(a, ks, v) == FoldLeft(LAMBDA x, k : WriteIndirect(x, k, v), a, ks)

\* the pointer blocks are stored last, the second-level one where the NEXT
\* block would go: at a level boundary that is the pointer after it
Indirectly(s, i, ks, v) ==
  LET e    == s.ino[i].sec[Direct]
      top  == BlockFor(s, e)
      s0   == [Ensured(s, e) EXCEPT !.ino[i].sec[Direct] = top]
      from == IF e = 0 THEN Hole ELSE Pointers(s.data[top])
      a    == IndirectLoop([s |-> s0, first |-> from, second |-> Hole], ks, v)
      last == (ks[Len(ks)] + 1 - Direct) \div Indirect
  IN  IF ks = <<>> THEN s
      ELSE store_a_data_block(store_a_data_block(a.s, a.first[last], PtrBlock(a.second)),
                              top, PtrBlock(a.first))

\* the new blocks k of file i, and the size of the file and of every directory
\* above it
Written(i, from, len, v) ==
  LET s     == DirectLoop(Here, i, Span(from, Min({from + len, Direct})), v)
      t     == Indirectly(s, i, Span(Max({from, Direct}), from + len), v)
      grown == from + len - inodes[i].size
      u     == [t EXCEPT !.seen[i] = [k \in DOMAIN @ |-> IF k \in from .. from + len - 1 THEN v ELSE @[k]]]
  IN  IF grown > 0 THEN AddSize(u, Chain(u, i), grown) ELSE u

\* one block at most through the pointers, not the last of a level, and no
\* direct block left out
Careful(i, from, len) ==
  /\ from >= Direct \/ \A k \in 0 .. from - 1 : inodes[i].sec[k] # 0
  /\ from + len <= Direct \/ /\ from + len - Direct = 1 \/ len = 1
                             /\ (from + len - Direct) % Indirect # 0
                             /\ \A k \in 0 .. Direct - 1 : inodes[i].sec[k] # 0 \/ k \in from .. from + len - 1

SaveWrite_tablesFirst(s) == store_block_map(store_inodes(s))
SaveWrite_noMap(s)       == store_inodes(s)

SaveWrite(s) == store_inodes(store_block_map(s))

\* bound: the pointer blocks that a write may need
NewPointers(i, from, len) ==
  LET top    == inodes[i].sec[Direct]
      first  == IF top = 0 THEN Hole ELSE Pointers(Latest[top])
      levels == {(k - Direct) \div Indirect : k \in {k \in from .. from + len - 1 : k >= Direct}}
  IN  Cardinality({m \in levels : first[m] = 0}) + IF levels # {} /\ top = 0 THEN 1 ELSE 0

do_write(f, len, v) ==
  LET i == fdesc_array[f].ino
      from == fdesc_array[f].off
      s == Written(i, from, len, v)
  IN  /\ Running /\ IsOpen(f) /\ from \in 0 .. MaxLen - len /\ Room(len + NewPointers(i, from, len))
      /\ Ends(Here, i) /\ Survives("offLimits", Careful(i, from, len))
      /\ Do([SaveWrite(s) EXCEPT !.fds[f].off = @ + len], i)

do_close(f) ==
  /\ Running /\ Survives("closeTwice", fdesc_array[f].ref = 1)
  /\ fdesc_array[f].ref \in {0, 1}
  /\ Do([Here EXCEPT !.fds[f].ref = @ - 1], target)

\* SEEK_SET, SEEK_CUR and SEEK_END reach any offset
do_lseek(f, off) ==
  /\ Running /\ IsOpen(f)
  /\ Do([Here EXCEPT !.fds[f].off = off], target)

\* Up to the block with the first empty entry only: a name further on is missed.
Scanned(s, d) == {p \in Places(s, d) : \A q \in Empty(s, d) : p \div Slots <= q \div Slots}

\* directory e gets the name n for inode i
Linked_uncounted(s, e, n, i) == SetEntry(s, e, Min(Empty(s, e)), Entry(n, i))

Linked(s, e, n, i) ==
  LET t == IF Empty(s, e) # {} THEN SetEntry(s, e, Min(Empty(s, e)), Entry(n, i))
           ELSE [Extend(s, e, Entry(n, i)) EXCEPT !.ino[e].link = @ + 1]
  IN  [t EXCEPT !.ino[i].link = @ + 1]

do_ln(src, dst) == Running /\ LET h == Here IN \E d \in Inside(h, src), e \in Inside(h, dst) :
  /\ Matches(h, d, src.name) # {}
  /\ Matches(h, e, dst.name) \cap Scanned(h, e) = {}
  /\ Survives("growDir", Empty(h, e) # {}) /\ Room(1)
  /\ LET i == EntryAt(h, d, Min(Matches(h, d, src.name))).inode
     IN  /\ Survives("wrongType", ~IsDir(h, i))
         /\ Do(store_block_map(store_inodes(store_inode_map(Linked(h, e, dst.name, i)))), i)

\* the blocks of a file, pointer blocks included
HeldBy(s, i) ==
  LET first == IF s.ino[i].sec[Direct] = 0 THEN Hole ELSE Pointers(s.data[s.ino[i].sec[Direct]])
      secs  == {s.ino[i].sec[k] : k \in Secs}
      seconds == {Range(Pointers(s.data[b])) : b \in Range(first) \ {0}}
  IN  (secs \cup Range(first) \cup UNION seconds) \ {0}

\* the last name is gone: the inode and its blocks are free, and the sizes of
\* the directories above the one it was created in go down
Freed_keepsSize(s, i) == [s EXCEPT !.imap = @ \ {i}, !.bmap = @ \ HeldBy(s, i)]

Freed(s, i) ==
  AddSize([s EXCEPT !.imap = @ \ {i}, !.bmap = @ \ HeldBy(s, i)], Chain(s, i) \ {i}, -s.ino[i].size)

Removed(s, i) == IF s.ino[i].link = 0 THEN Freed(s, i) ELSE s

do_rm(path) == Running /\ LET h == Here IN \E d \in Inside(h, path) :
  \E c \in Cleared(h, d, path.name) :
    /\ Survives("wrongType", ~IsDir(h, c.ino)) /\ Ends(h, c.ino)
    /\ Survives("rmOpen", \A f \in Fds : IsOpen(f) => fdesc_array[f].ino # c.ino)
    /\ Do(store_block_map(store_inodes(store_inode_map(Removed(Drop(c.s, c.ino, 1), c.ino)))), c.ino)

Next ==
  \/ do_mkfs \/ DiskWrite \/ Reboot
  \/ \E p \in Paths : \/ do_cd(p) \/ do_mkdir(p) \/ do_rmdir(p) \/ do_open(p) \/ do_rm(p)
                      \/ \E q \in Paths : do_ln(p, q)
  \/ \E f \in Fds : \/ do_close(f)
                    \/ \E k \in 0 .. MaxLen - 1 : do_lseek(f, k)
                    \/ \E n \in 1 .. MaxLen : \/ do_read(f, n)
                                             \/ \E v \in Vals : do_write(f, n, v)

Spec == Init /\ [][Next]_vars
=============================================================================
