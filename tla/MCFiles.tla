------------------------------- MODULE MCFiles -------------------------------
(***************************************************************************)
(* Bounds for TLC.  Programs say a, b and /a/b.  The file system never     *)
(* looks at the data, so the values are interchangeable.                   *)
(***************************************************************************)
EXTENDS FilesProps

PathSet == {[abs |-> FALSE, dirs |-> <<>>, name |-> n] : n \in {"a", "b"}}
             \cup {[abs |-> TRUE, dirs |-> <<"a">>, name |-> "b"]}

Symmetry == Permutations(Vals)

\* what is left in a descriptor that is closed is never read
Live == <<magic, inode_map, block_map, inodes, current_inode,
          [f \in Fds |-> IF fdesc_array[f].ref = 0 THEN NoFd ELSE fdesc_array[f]],
          disk, todo, written, target, torn>>
=============================================================================
