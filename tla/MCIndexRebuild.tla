---------------------------- MODULE MCIndexRebuild ----------------------------
(* Instances of IndexRebuild: nothing tells one page from another.         *)
EXTENDS IndexRebuild, TLC

Symmetric == Permutations(Page)
=============================================================================
