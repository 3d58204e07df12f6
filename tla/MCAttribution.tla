--------------------------- MODULE MCAttribution ---------------------------
(***************************************************************************)
(* Model-checking instances of Attribution: small hash alphabets, every    *)
(* edit script as a transcript.                                            *)
(***************************************************************************)
EXTENDS WhoColor, AttributionSnapshot

(* Sentences that are made of each other's words, so that words move        *)
(* between sentences and a candidate may be wholly or partly used up.       *)
MCToken == {"a", "b"}
MCSentenceHash == {"a", "b", "ab"}
mc_split_tokens ==
  [s \in MCSentenceHash |->
     CASE s = "a"  -> <<"a">>
       [] s = "b"  -> <<"b">>
       [] s = "ab" -> <<"a", "b">>]

(* AB and AB_ have the same sentence and different raw text (white space).  *)
MCParagraphHash == {"AB", "AB_", "A.B", "A", "B.A"}
mc_split_sentences ==
  [p \in MCParagraphHash |->
     CASE p \in {"AB", "AB_"} -> <<"ab">>
       [] p = "A.B" -> <<"a", "b">>
       [] p = "B.A" -> <<"b", "a">>
       [] p = "A"   -> <<"a">>]

(* Eight texts for three revisions; five of them for four.                 *)
MatchingText == {"T1", "T2", "T3", "T4", "T5", "T6", "T7", "T8"}
HistoryText  == {"T1", "T2", "T4", "T5", "T8"}
mc_split_paragraphs ==
  [t \in Text |->
     CASE t = "T1" -> <<"AB">>
       [] t = "T2" -> <<"A.B">>
       [] t = "T3" -> <<"AB", "B.A">>
       [] t = "T4" -> <<"AB_", "AB_", "AB">>
       [] t = "T5" -> << >>
       [] t = "T6" -> <<"B.A", "A.B", "AB">>
       [] t = "T7" -> <<"A">>
       [] t = "T8" -> <<"B.A">>]
mc_text_len ==
  [t \in Text |->
     CASE t = "T1" -> 2
       [] t = "T2" -> 3
       [] t = "T3" -> 4
       [] t = "T4" -> 6
       [] t = "T5" -> 0
       [] t = "T6" -> 8
       [] t = "T7" -> 1
       [] t = "T8" -> 3]

(* Every transcript that deletes and keeps the old tokens in order and     *)
(* keeps and inserts the new ones in order.                                *)
Entry(k, v) == [kind |-> k, value |-> v]
EditScripts(old, new) ==
  LET script[i \in 0 .. Len(old), j \in 0 .. Len(new)] ==
        IF i = 0 /\ j = 0 THEN { << >> }
        ELSE (IF i > 0 THEN { Append(d, Entry("Delete", old[i])) : d \in script[i - 1, j] }
              ELSE {})
             \cup (IF j > 0 THEN { Append(d, Entry("Insert", new[j])) : d \in script[i, j - 1] }
              ELSE {})
             \cup (IF i > 0 /\ j > 0 /\ old[i] = new[j]
              THEN { Append(d, Entry("Keep", new[j])) : d \in script[i - 1, j - 1] }
              ELSE {})
  IN  script[Len(old), Len(new)]

(* Strings as bytes, and ids on the wiki that do not grow with the feed.    *)
mc_bytes ==
  [x \in MCToken \cup MCSentenceHash \cup MCParagraphHash |->
     CASE x = "a" -> <<1>> [] x = "b" -> <<2>> [] x = "ab" -> <<1, 2>>
       [] x = "A" -> <<3>> [] x = "AB" -> <<3, 1>> [] x = "AB_" -> <<3, 0>>
       [] x = "A.B" -> <<3, 3>> [] x = "B.A" -> <<2, 3>>]
mc_saved_id == [r \in RevId |-> IF r = 0 THEN 0 ELSE <<9, 12, 3, 40>>[r]]
=============================================================================
