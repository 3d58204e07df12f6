------------------------------- MODULE MCDiffer -------------------------------
(* Instances of Differ: small alphabets of tokens.                         *)
EXTENDS Differ

(* The first token and the second are as close as the cutoff (3/4), the    *)
(* first and the third closer, the second and the third less.  The third   *)
(* repeats a character.                                                    *)
mc_similar == {<<1, 2, 3, 4>>, <<1, 2, 3, 5>>, <<1, 2, 3, 4, 4>>, <<6>>}
=============================================================================
