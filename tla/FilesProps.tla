----------------------------- MODULE FilesProps -----------------------------
(***************************************************************************)
(* What the file system must keep true.                                    *)
(***************************************************************************)
EXTENDS Files

(***************************************************************************)
(* The references inode i makes to blocks, each with where it stands: its  *)
(* sec[] entries and, for a file, the pointers behind the last of them.    *)
(***************************************************************************)
References(s, i) ==
  LET secs  == {<<"sec", k, s.ino[i].sec[k]>> : k \in {k \in Secs : s.ino[i].sec[k] # 0 \/ i + k = 0}}
      top   == s.ino[i].sec[Direct]
      first == IF top = 0 \/ IsDir(s, i) THEN Hole ELSE Pointers(s.data[top])
      ms    == {m \in DOMAIN first : first[m] # 0}
      ends  == UNION {{<<"second", m * Indirect + j, Pointers(s.data[first[m]])[j]>> :
                         j \in DOMAIN Hole} : m \in ms}
  IN  secs \cup {<<"first", m, first[m]>> : m \in ms} \cup {r \in ends : r[3] # 0}

AllReferences(s) == UNION {{<<i, r>> : r \in References(s, i)} : i \in s.imap}

(***************************************************************************)
(* No block belongs to two places, and every block that belongs to an      *)
(* inode in use is marked in the block map: through hard links, removals   *)
(* and power failures between two disk writes, get_free_block never hands  *)
(* out a block that somebody holds (fs.c:124-135, 443-445, 863-864).  The  *)
(* one exception is Appending: see Reboot.                                 *)
(***************************************************************************)
BlocksOwned ==
  LET refs == AllReferences(Here)
  IN  \A x, y \in refs : /\ x[2][3] \in block_map
                         /\ x[2][3] = y[2][3] => x = y

(***************************************************************************)
(* Every file reads back what was last written to it, block by block,      *)
(* whatever was done to other files and wherever the power failed in a     *)
(* call about another file (do_write and do_read follow the same pointers  *)
(* but share no code, fs.c:643-867).                                       *)
(***************************************************************************)
ReadsBack ==
  LET s == Here IN \A i \in inode_map : IsDir(s, i) \/ Content(s, i) = written[i]

\* the names of inode i, "." and ".." apart
NamesOf(s, i) ==
  UNION {{<<d, p>> : p \in {p \in Places(s, d) : /\ EntryAt(s, d, p).inode = i
                                                 /\ EntryAt(s, d, p).name \notin {"", ".", ".."}}}
           : d \in {d \in s.imap : IsDir(s, d)}}

SubDirs(s, d) == {i \in s.imap : IsDir(s, i) /\ \E x \in NamesOf(s, i) : x[1] = d}

(***************************************************************************)
(* Link counts are right unless the power failed in the middle of a call:  *)
(* a file counts its names, a directory its subdirectories, itself and,    *)
(* except for the root, its name; so do_rm and do_rmdir free an inode with *)
(* its last name and not before (fs.c:490, 1026).                          *)
(***************************************************************************)
LinksCounted ==
  magic /\ ~torn =>
    LET s == Here
    IN  \A i \in inode_map :
          inodes[i].link = IF IsDir(s, i) THEN Cardinality(SubDirs(s, i)) + IF i = 0 THEN 1 ELSE 2
                           ELSE Cardinality(NamesOf(s, i))

(***************************************************************************)
(* The loops of do_write and do_rm that follow parent_inode to the root    *)
(* end, and the size of a directory is the size of the files created in it *)
(* and below, links elsewhere notwithstanding (fs.c:851-861, 1055-1062).   *)
(***************************************************************************)
Sum(S) == FoldSet(LAMBDA i, n : n + inodes[i].size, 0, S)

SizesAdd ==
  LET s == Here
  IN  \A i \in inode_map :
        /\ Ends(s, i)
        /\ IsDir(s, i) /\ ~torn =>
             inodes[i].size = Sum({x \in inode_map : ~IsDir(s, x) /\ i \in Chain(s, x)})

(***************************************************************************)
(* Between calls the disk holds what the memory holds: mounting it again   *)
(* gives the same tree (init_fs, fs.c:324-344).                            *)
(***************************************************************************)
DiskCurrent ==
  magic /\ todo = <<>> =>
    disk.imap = inode_map /\ disk.bmap = block_map /\ disk.ino = inodes
=============================================================================
