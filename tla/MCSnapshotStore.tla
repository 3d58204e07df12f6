---------------------------- MODULE MCSnapshotStore ----------------------------
(* Instances of SnapshotStore: nothing tells one page from another.        *)
EXTENDS SnapshotStore, TLC

Symmetric == Permutations(Page)
=============================================================================
