------------------------------- MODULE WhoColor -------------------------------
(***************************************************************************)
(* get_whocolor_data (crates/wikiwho-attribute/src/whocolor.rs): the       *)
(* tokens of a revision with their conflict scores, and the chain of       *)
(* stored revisions, read off the Article between two calls of             *)
(* analyse_revision.  Who edited which revision is a parameter of the      *)
(* operators: the scores must be right for every assignment.               *)
(***************************************************************************)
EXTENDS Attribution

CONSTANT Editor         \* the editor strings of revisions

(* Seeded fault of compute_conflict_score: every later change is counted,   *)
(* an editor's return to his own text too.                                 *)
CountsOwnReturns(editor, inbound, outbound) ==
  Max({0, Len(inbound) + Len(outbound) - 1})

(* Deletions are paired with reintroductions by position; the editor of    *)
(* the last reintroduction is kept for the next deletion.                  *)
compute_conflict_score(editor, inbound, outbound) ==
  LET pair[i \in 0 .. Len(outbound)] ==
        IF i = 0 THEN [score |-> 0, editor_in_prev |-> {}]
        ELSE LET editor_out == editor[outbound[i]]
                 prev       == pair[i - 1].editor_in_prev
             IN  [score |-> pair[i - 1].score
                              + (IF prev \ {editor_out} # {} THEN 1 ELSE 0)
                              + (IF i <= Len(inbound) /\ editor[inbound[i]] # editor_out
                                 THEN 1 ELSE 0),
                  editor_in_prev |-> IF i <= Len(inbound) THEN {editor[inbound[i]]} ELSE prev]
  IN  pair[Len(outbound)].score

(* The data of one revision, or none when it is not stored. *)
TokenData(editor, w) ==
  [str |-> words[w].value, o_rev_id |-> words[w].origin_rev_id,
   in |-> words[w].inbound, out |-> words[w].outbound,
   editor |-> editor[words[w].origin_rev_id],
   conflict_score |-> compute_conflict_score(editor, words[w].inbound, words[w].outbound)]
parent_rev_id(i) == IF i = 1 THEN 0 ELSE ordered_revisions[i - 1]
RevisionsDict(editor) ==
  [i \in DOMAIN ordered_revisions |->
     [id |-> ordered_revisions[i], parent_rev_id |-> parent_rev_id(i),
      editor |-> editor[ordered_revisions[i]]]]
NoData == [ok |-> FALSE]      \* UnknownRevision, OrphanOriginRevision
get_whocolor_data(editor, r) ==
  LET ids    == iter_rev_tokens(r)
      tokens == [i \in DOMAIN ids |-> TokenData(editor, ids[i])]
  IN  IF r \notin Stored THEN NoData
      ELSE IF \E i \in DOMAIN ids : words[ids[i]].origin_rev_id \notin Stored THEN NoData
      ELSE [ok |-> TRUE, tokens |-> tokens, revisions |-> RevisionsDict(editor),
            biggest_conflict_score |->
              Max({0} \cup { tokens[i].conflict_score : i \in DOMAIN tokens })]
-----------------------------------------------------------------------------
(* Properties.                                                             *)

(* The stored revisions that took the token off the page or put it back,   *)
(* by what the revisions contain.                                          *)
PreviousStored(r) == LET earlier == { s \in Stored : s < r } IN IF earlier = {} THEN {} ELSE {Max(earlier)}
Changes(w) ==
  SelectSeq(ordered_revisions, LAMBDA r :
    \E s \in PreviousStored(r) : s >= words[w].origin_rev_id /\ Present(w, r) # Present(w, s))

(* Whoever edits, a token's conflict score counts the changes after its    *)
(* first deletion that undo another editor's change, although it is        *)
(* computed from two lists paired by position, with the revisions refused  *)
(* in between in neither.  The origin of every token is stored, and the    *)
(* biggest score is that of some token.                                    *)
ConflictScoreCountsReverts ==
  pc = "idle" => \A editor \in [Stored -> Editor] : \A r \in Stored :
    LET data == get_whocolor_data(editor, r)
        ids  == iter_rev_tokens(r)
        Undone(w) == { i \in DOMAIN Changes(w) \ {1} : editor[Changes(w)[i]] # editor[Changes(w)[i - 1]] }
    IN  /\ data.ok
        /\ \A i \in DOMAIN ids :
             data.tokens[i].conflict_score = Cardinality(Undone(ids[i]))
        /\ data.biggest_conflict_score =
             Max({0} \cup { Cardinality(Undone(w)) : w \in Ids(ids) })
=============================================================================
