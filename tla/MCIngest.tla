------------------------------ MODULE MCIngest ------------------------------
(* Instances of Ingest: one page per language. *)
EXTENDS Ingest, TLC

CONSTANTS p1, p2, en, simple

mc_language  == (p1 :> en) @@ (p2 :> simple)
mc_language1 == p1 :> en

(* The second page is there to move the other language's checkpoint.       *)
AnyKind   == {"good", "spam", "hidden"}
mc_kinds  == (p1 :> AnyKind) @@ (p2 :> {"good"})
mc_kinds1 == p1 :> AnyKind
=============================================================================
