----------------------------- MODULE TokenHistory -----------------------------
(***************************************************************************)
(* What crates/wikiwho-attribute promises, without paragraphs, sentences,  *)
(* hashes or diffs.  A page is a list of revisions, a revision a list of   *)
(* tokens that spells its text; a token belongs to the revision that       *)
(* brought it in, and its history says when it came and when it went.      *)
(* Each revision fed is either accepted whole or refused without a trace.  *)
(* Attribution is shown to implement this specification.                   *)
(***************************************************************************)
EXTENDS Integers, Sequences, SequencesExt

CONSTANTS
  Text,                 \* texts a revision may have
  spelling,             \* Text -> the values of its tokens
  MaxRevisions          \* bound: revisions fed

VARIABLES
  accepted,             \* Article::ordered_revisions, each with its text and token ids
  refused,              \* Article::spam_ids
  token                 \* Article::words: value, and the revisions that
                        \* brought it in and took it out
vars == <<accepted, refused, token>>

Members(s) == { s[i] : i \in DOMAIN s }
TokensNow  == IF accepted = << >> THEN << >> ELSE accepted[Len(accepted)].tokens
Fed        == { accepted[i].id : i \in DOMAIN accepted } \cup Members(refused)

Init == accepted = << >> /\ refused = << >> /\ token = << >>

(* Revisions are fed in the order of their ids. *)
IsNext(r) == \A s \in Fed : s < r

Refuse(r) ==
  /\ IsNext(r)
  /\ refused' = Append(refused, r)
  /\ UNCHANGED <<accepted, token>>

(* Of the tokens on the page, those not in the revision go out with it; of *)
(* those that were out, the ones in it come back; new ones come in.        *)
Updated(w, r, tokens) ==
  [value |-> token'[w].value,
   came  |-> IF w \notin DOMAIN token THEN <<r>>
             ELSE IF w \in Members(tokens) \ Members(TokensNow) THEN Append(token[w].came, r)
             ELSE token[w].came,
   went  |-> IF w \notin DOMAIN token THEN << >>
             ELSE IF w \in Members(TokensNow) \ Members(tokens) THEN Append(token[w].went, r)
             ELSE token[w].went]

(* The revision's tokens are distinct and spell its text; every new token  *)
(* is among them, the old ones keep their values.  A text equal to the     *)
(* one before it keeps every token in its place.                           *)
Accept(r, t) ==
  /\ IsNext(r)
  /\ Len(accepted') = Len(accepted) + 1 /\ IsPrefix(accepted, accepted')
  /\ accepted'[Len(accepted')].id = r /\ accepted'[Len(accepted')].text = t
  /\ Len(token') >= Len(token)
  /\ \A w \in DOMAIN token : token'[w].value = token[w].value
  /\ LET tokens == accepted'[Len(accepted')].tokens
     IN  /\ IsInjective(tokens)
         /\ Members(tokens) \subseteq DOMAIN token'
         /\ DOMAIN token' \ DOMAIN token \subseteq Members(tokens)
         /\ [i \in DOMAIN tokens |-> token'[tokens[i]].value] = spelling[t]
         /\ \A w \in DOMAIN token' : token'[w] = Updated(w, r, tokens)
         /\ accepted # << >> /\ accepted[Len(accepted)].text = t => tokens = TokensNow
  /\ UNCHANGED refused

Next == \E r \in 1 .. MaxRevisions : Refuse(r) \/ \E t \in Text : Accept(r, t)

Spec == Init /\ [][Next]_vars
=============================================================================
