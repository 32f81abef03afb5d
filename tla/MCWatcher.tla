----------------------------- MODULE MCWatcher -----------------------------
(* Instances of Watcher for TLC. *)
EXTENDS Watcher, TLC

\* Which inode number a file gets is of no consequence.
InodeSymmetry == Permutations(Inodes)
=============================================================================
