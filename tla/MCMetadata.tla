----------------------------- MODULE MCMetadata -----------------------------
(* Instances of Metadata. Names only: four inodes, none of them open, which *)
(* is what renames across directories over an existing entry need. With     *)
(* data: three inodes that are opened, written, truncated and deleted.      *)
EXTENDS Metadata, TLC

CONSTANTS n1, n2, c1, c2

WithData == {[ino |-> 3, symlinks |-> FALSE, len |-> 1, open |-> 2]}
Both == {[ino |-> 4, symlinks |-> TRUE, len |-> 0, open |-> 0]} \cup WithData

Symmetry == Permutations({n1, n2}) \cup Permutations({c1, c2})
=============================================================================
