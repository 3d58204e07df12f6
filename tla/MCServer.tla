------------------------------ MODULE MCServer ------------------------------
(* Instances of Server: which revisions are vandalism. *)
EXTENDS Server, TLC

mc_no_spam     == [p \in Page |-> {}]
mc_second_spam == [p \in Page |-> {2}]

Symmetric == Permutations(Request)
=============================================================================
