-------------------------- MODULE AttributionProofs --------------------------
(***************************************************************************)
(* Proofs about Attribution for every feed, every way of splitting texts   *)
(* and whatever the transcripts of the diff.  The first half: its types,   *)
(* the trace a spam revision does not leave, and the matching cascade: the *)
(* hash tables hold what the stored revisions are made of, a stored        *)
(* revision spells its text, and no token stands at two of its places.     *)
(* The second half (from PrevP): the histories the recorder writes tell    *)
(* which revisions a token is in, although it writes them from the matched *)
(* sets and never looks at the text (HistoryMatchesPresence), and          *)
(* Attribution implements TokenHistory.                                    *)
(***************************************************************************)
EXTENDS Attribution, DataLemmas

(* The groups of variables, for steps that leave them alone.               *)
USE DEF arenas, store, spam, input, matchedSets, paraLists, sentLists,
        transcript, loop

(* A list of ids stays one when the arena grows.                           *)
LEMMA IdsGrow ==
  ASSUME NEW m \in Nat, NEW n \in Nat, m <= n, NEW s \in Seq(1 .. m)
  PROVE  s \in Seq(1 .. n)
<1>1. 1 .. m \subseteq 1 .. n
  OBVIOUS
<1> QED BY <1>1, SeqMonotonic

(* What is left of a list without its head is one of the same kind. *)
LEMMA TailType ==
  ASSUME NEW S, NEW s \in Seq(S), s # << >>
  PROVE  Head(s) \in S /\ Tail(s) \in Seq(S)
BY HeadTailProperties

(* A list of ids is a list of numbers. *)
LEMMA IdsAreNat ==
  ASSUME NEW n \in Nat, NEW s \in Seq(1 .. n)
  PROVE  s \in Seq(Nat)
<1>1. 1 .. n \subseteq Nat
  OBVIOUS
<1> QED BY <1>1, SeqMonotonic

(* What a list names, when it grows. *)
LEMMA IdsAppend ==
  ASSUME NEW S, NEW s \in Seq(S), NEW x \in S
  PROVE  Ids(Append(s, x)) = Ids(s) \cup {x}
<1>1. /\ Len(Append(s, x)) = Len(s) + 1
      /\ \A i \in 1 .. Len(s) : Append(s, x)[i] = s[i]
      /\ Append(s, x)[Len(s) + 1] = x
      /\ DOMAIN Append(s, x) = 1 .. Len(s) + 1
      /\ DOMAIN s = 1 .. Len(s) /\ Len(s) \in Nat
  BY AppendProperties, LenProperties
<1> QED BY <1>1 DEF Ids

(* The ids of two lists put together. *)
LEMMA IdsConcat ==
  ASSUME NEW S, NEW s \in Seq(S), NEW t \in Seq(S)
  PROVE  Ids(s \o t) = Ids(s) \cup Ids(t)
<1>1. /\ s \o t \in Seq(S) /\ Len(s \o t) = Len(s) + Len(t)
      /\ \A i \in 1 .. Len(s) + Len(t) :
           (s \o t)[i] = IF i <= Len(s) THEN s[i] ELSE t[i - Len(s)]
      /\ DOMAIN (s \o t) = 1 .. Len(s) + Len(t)
      /\ DOMAIN s = 1 .. Len(s) /\ Len(s) \in Nat
      /\ DOMAIN t = 1 .. Len(t) /\ Len(t) \in Nat
  BY ConcatProperties, LenProperties
<1>2. ASSUME NEW i \in 1 .. Len(s) PROVE s[i] \in Ids(s \o t)
  BY <1>1 DEF Ids
<1>3. ASSUME NEW i \in 1 .. Len(t) PROVE t[i] \in Ids(s \o t)
  <2>1. Len(s) + i \in 1 .. Len(s) + Len(t) /\ ~ (Len(s) + i <= Len(s))
        /\ (Len(s) + i) - Len(s) = i
    BY <1>1
  <2>2. (s \o t)[Len(s) + i] = t[i]
    BY <1>1, <2>1
  <2> QED BY <1>1, <2>1, <2>2 DEF Ids
<1>4. ASSUME NEW i \in 1 .. Len(s) + Len(t)
      PROVE  (s \o t)[i] \in Ids(s) \cup Ids(t)
  <2>1. CASE i <= Len(s)
    BY <1>1, <2>1 DEF Ids
  <2>2. CASE i > Len(s)
    <3>1. i - Len(s) \in 1 .. Len(t) /\ (s \o t)[i] = t[i - Len(s)]
      BY <1>1, <2>2
    <3> QED BY <1>1, <3>1 DEF Ids
  <2> QED BY <1>1, <2>1, <2>2
<1> QED BY <1>1, <1>2, <1>3, <1>4 DEF Ids

(* The empty article is well typed. *)
LEMMA InitType == Init => TypeOK
<1> SUFFICES ASSUME Init PROVE TypeOK
  OBVIOUS
<1> USE BoundAssumption
<1>1. \A S : << >> \in Seq(S) /\ Len(<< >>) = 0
  BY EmptySeq
<1>2. ArenasOK
  BY <1>1 DEF Init, ArenasOK, Pids, Sids, Tids
<1>3. StoreOK
  <2>1. DefaultRevision \in Revision
    BY <1>1 DEF DefaultRevision, Revision, RevId
  <2>2. DefaultRevision.paragraphs = << >>
    BY DEF DefaultRevision
  <2>3. 0 \in RevId
    BY DEF RevId
  <2> QED BY <1>1, <2>1, <2>2, <2>3 DEF Init, StoreOK
<1>4. InputOK /\ ListsOK /\ LoopOK
  BY <1>1 DEF Init, InputOK, ListsOK, LoopOK, Pids, Sids, Tids, Phases, RevId
<1> QED BY <1>2, <1>3, <1>4 DEF TypeOK

(* The three ways a revision arrives. *)
LEMMA ArrivalType ==
  ASSUME TypeOK, NEW t \in Text, NEW move \in BOOLEAN,
         HashMatch(t) \/ LengthShrink(t, move) \/ BeginCascade(t, move)
  PROVE  TypeOK'
<1> USE BoundAssumption
<1>1. rev_id' \in RevId
  BY DEF TypeOK, InputOK, HashMatch, LengthShrink, BeginCascade, Arrives, RevId
<1>2. \A S : << >> \in Seq(S)
  BY EmptySeq
<1>3. Append(spam_ids, rev_id') \in Seq(RevId)
  BY <1>1, AppendProperties DEF TypeOK, StoreOK
<1>4. ArenasOK' /\ StoreOK'
  BY <1>3 DEF TypeOK, ArenasOK, StoreOK, HashMatch, LengthShrink, BeginCascade,
     Pids, Sids, Tids
<1>5. CASE HashMatch(t) \/ LengthShrink(t, move)
  <2>1. InputOK' /\ ListsOK' /\ LoopOK'
    BY <1>1, <1>5 DEF TypeOK, InputOK, ListsOK, LoopOK, HashMatch, LengthShrink,
       Pids, Sids, Tids
  <2> QED BY <1>4, <2>1 DEF TypeOK
<1>6. CASE BeginCascade(t, move)
  <2>1. InputOK' /\ ListsOK'
    BY <1>1, <1>2, <1>6 DEF TypeOK, InputOK, ListsOK, BeginCascade, Phases,
       Pids, Sids, Tids
  <2>2. LoopOK'
    BY <1>2, <1>6 DEF BeginCascade, LoopOK, Pids, Sids
  <2> QED BY <1>4, <2>1, <2>2 DEF TypeOK
<1> QED BY <1>5, <1>6
-----------------------------------------------------------------------------
(* Rows of ids: what a scan may reach. *)
LEMMA PlaceIn ==
  ASSUME NEW S, NEW rows, NEW c \in Places(rows),
         \A i \in DOMAIN rows : rows[i] \in Seq(S)
  PROVE  At(rows, c) \in S
<1>1. PICK i \in DOMAIN rows : c \in {i} \X DOMAIN rows[i]
  BY DEF Places
<1>2. c[1] = i /\ c[2] \in DOMAIN rows[i]
  BY <1>1
<1>3. rows[i] \in Seq(S)
  BY <1>1
<1> QED BY <1>2, <1>3, ElementOfSeq, LenProperties DEF At

(* The paragraph scan goes through allocated paragraphs. *)
LEMMA ParagraphRowsType ==
  ASSUME TypeOK, NEW c \in Places(ParagraphRows)
  PROVE  At(ParagraphRows, c) \in Pids
<1>1. \A i \in DOMAIN ParagraphRows : ParagraphRows[i] \in Seq(Pids)
  BY DEF TypeOK, StoreOK, ParagraphRows, revision_prev
<1> QED BY <1>1, PlaceIn

(* The sentence scan goes through allocated sentences. *)
LEMMA SentenceRowsType ==
  ASSUME TypeOK, NEW c \in Places(SentenceRows)
  PROVE  At(SentenceRows, c) \in Sids
<1>1. \A i \in DOMAIN SentenceRows : SentenceRows[i] \in Seq(Sids)
  BY LenProperties DEF TypeOK, StoreOK, ArenasOK, ListsOK, SentenceRows
<1> QED BY <1>1, PlaceIn

(* The word scan goes through allocated words. *)
LEMMA PrevRowsType ==
  ASSUME TypeOK, NEW c \in Places(PrevRows)
  PROVE  At(PrevRows, c) \in Tids
<1>1. \A i \in DOMAIN PrevRows : PrevRows[i] \in Seq(Tids)
  BY LenProperties DEF TypeOK, ArenasOK, ListsOK, PrevRows
<1> QED BY <1>1, PlaceIn

(* What a paragraph or a sentence is made of is allocated. *)
LEMMA MembersType ==
  ASSUME TypeOK
  PROVE  /\ \A p \in Pids : ParagraphSentences(p) \subseteq Sids
         /\ \A s \in Sids : SentenceTokens(s) \subseteq Tids
         /\ \A p \in Pids : ParagraphTokens(p) \subseteq Tids
<1>1. \A p \in Pids : ParagraphSentences(p) \subseteq Sids
  BY LenProperties DEF TypeOK, ArenasOK, ParagraphSentences
<1>2. \A s \in Sids : SentenceTokens(s) \subseteq Tids
  BY LenProperties DEF TypeOK, ArenasOK, SentenceTokens
<1> QED BY <1>1, <1>2 DEF ParagraphTokens
-----------------------------------------------------------------------------
(* The paragraph level. *)
LEMMA NextParagraphHashType ==
  ASSUME TypeOK, pc = "paragraphs", Len(curr) < Len(split_paragraphs[text])
  PROVE  NextParagraphHash \in ParagraphHash
<1>1. text \in Text /\ Len(curr) \in Nat
  BY LenProperties DEF TypeOK, InputOK
<1>2. split_paragraphs[text] \in Seq(ParagraphHash)
  BY <1>1, SplitAssumption
<1>3. Len(curr) + 1 \in 1 .. Len(split_paragraphs[text])
  BY <1>1, <1>2, LenProperties
<1> QED BY <1>2, <1>3, ElementOfSeq DEF NextParagraphHash

(* Reusing a paragraph keeps the types. *)
LEMMA ReuseParagraphType == ASSUME TypeOK, ReuseParagraph PROVE TypeOK'
<1>1. PICK c \in Places(ParagraphRows) :
        LET h == NextParagraphHash
            p == At(ParagraphRows, c)
            passed == SpentParagraphs(h, PlacesBefore(ParagraphRows, c))
        IN  /\ matchedP' = matchedP \cup passed \cup {p}
            /\ matched_paragraphs_prev' = matched_paragraphs_prev \cup passed \cup {p}
            /\ matchedS' = matchedS \cup ParagraphSentences(p)
            /\ matchedT' = matchedT \cup ParagraphTokens(p)
            /\ curr' = Append(curr, p)
  BY DEF ReuseParagraph
<1> DEFINE p == At(ParagraphRows, c)
           passed == SpentParagraphs(NextParagraphHash, PlacesBefore(ParagraphRows, c))
<1>2. p \in Pids
  BY ParagraphRowsType
<1>3. passed \subseteq Pids
  BY DEF SpentParagraphs, OpenParagraphs
<1>4. Append(curr, p) \in Seq(Pids)
  BY <1>2, AppendProperties DEF TypeOK, InputOK
<1>5. ArenasOK' /\ StoreOK' /\ InputOK' /\ LoopOK'
  BY <1>1, <1>4 DEF TypeOK, ArenasOK, StoreOK, InputOK, LoopOK, ReuseParagraph,
     Pids, Sids, Tids
<1>6. ListsOK'
  <2> HIDE DEF p, passed
  <2>1. ParagraphSentences(p) \subseteq Sids /\ ParagraphTokens(p) \subseteq Tids
    BY <1>2, MembersType
  <2>2. Pids' = Pids /\ Sids' = Sids /\ Tids' = Tids
    BY DEF ReuseParagraph, Pids, Sids, Tids
  <2>3. /\ matchedP' \subseteq Pids /\ matchedS' \subseteq Sids
        /\ matchedT' \subseteq Tids /\ matched_paragraphs_prev' \subseteq Pids
    BY <1>1, <1>2, <1>3, <2>1 DEF TypeOK, ListsOK, p, passed
  <2> QED BY <2>2, <2>3 DEF TypeOK, ListsOK, ReuseParagraph
<1> QED BY <1>5, <1>6 DEF TypeOK

(* What a longer paragraph arena does to the type of everything that keeps *)
(* paragraph ids.                                                          *)
LEMMA AllocParagraphType == ASSUME TypeOK, AllocParagraph PROVE TypeOK'
<1> DEFINE h == NextParagraphHash
           new == [hash_value |-> h, sentences |-> << >>]
           passed == SpentParagraphs(h, Places(ParagraphRows))
<1>1. h \in ParagraphHash
  BY NextParagraphHashType DEF AllocParagraph
<1>2. new \in Paragraph /\ new.sentences = << >>
  BY <1>1, EmptySeq DEF Paragraph
<1>3. /\ paragraphs' = Append(paragraphs, new)
      /\ paragraphs' \in Seq(Paragraph)
      /\ Len(paragraphs') = Len(paragraphs) + 1
      /\ \A p \in 1 .. Len(paragraphs) : paragraphs'[p] = paragraphs[p]
      /\ paragraphs'[Len(paragraphs) + 1] = new
  BY <1>2, AppendProperties DEF TypeOK, ArenasOK, AllocParagraph
<1>4. Len(paragraphs) \in Nat
  BY LenProperties DEF TypeOK, ArenasOK
<1>5. \A s \in Seq(Pids) : s \in Seq(Pids')
  BY <1>3, <1>4, IdsGrow DEF Pids
<1>6. Pids \subseteq Pids' /\ Len(paragraphs) + 1 \in Pids'
  BY <1>3, <1>4 DEF Pids
<1>7. Sids' = Sids /\ Tids' = Tids
  BY DEF AllocParagraph, Sids, Tids
<1>8. passed \subseteq Pids
  BY DEF SpentParagraphs, OpenParagraphs
<1> HIDE DEF h, new, passed
<1>9. ArenasOK'
  <2>1. \A p \in Pids' : paragraphs'[p].sentences \in Seq(Sids)
    <3> TAKE p \in Pids'
    <3>1. CASE p \in Pids
      BY <1>3, <3>1 DEF TypeOK, ArenasOK, Pids
    <3>2. CASE p = Len(paragraphs) + 1
      BY <1>2, <1>3, <3>2, EmptySeq
    <3> QED BY <1>3, <1>4, <3>1, <3>2 DEF Pids
  <2> QED BY <1>3, <1>7, <2>1 DEF TypeOK, ArenasOK, AllocParagraph
<1>10. StoreOK'
  BY <1>5, <1>7 DEF TypeOK, StoreOK, AllocParagraph
<1>11. Append(curr, Len(paragraphs) + 1) \in Seq(Pids')
  BY <1>5, <1>6, AppendProperties DEF TypeOK, InputOK
<1>12. Append(unmatched_paragraphs_curr, Len(paragraphs) + 1) \in Seq(Pids')
  BY <1>5, <1>6, AppendProperties DEF TypeOK, ListsOK
<1>13. InputOK'
  BY <1>11 DEF TypeOK, InputOK, AllocParagraph
<1>14. ListsOK'
  <2>1. matchedP' \subseteq Pids' /\ matched_paragraphs_prev' \subseteq Pids'
    BY <1>6, <1>8 DEF TypeOK, ListsOK, AllocParagraph, passed, h
  <2> QED BY <1>5, <1>7, <1>12, <2>1 DEF TypeOK, ListsOK, AllocParagraph
<1>15. LoopOK'
  BY DEF TypeOK, LoopOK, AllocParagraph
<1> QED BY <1>9, <1>10, <1>13, <1>14, <1>15 DEF TypeOK

(* The ends of the paragraph loops keep the types. *)
LEMMA ParagraphLoopsType ==
  ASSUME TypeOK, EndParagraphs \/ TailParagraph \/ EndParagraphsTail
  PROVE  TypeOK'
<1> USE DEF TypeOK
<1>1. CASE EndParagraphs
  <2>1. revision_prev.paragraphs \in Seq(Pids)
    BY DEF StoreOK, revision_prev
  <2>2. revision_prev.paragraphs \in Seq(Nat)
    BY <2>1, IdsAreNat, LenProperties DEF ArenasOK, Pids
  <2>3. ArenasOK' /\ StoreOK' /\ InputOK' /\ ListsOK'
    BY <1>1 DEF EndParagraphs, ArenasOK, StoreOK, InputOK, ListsOK, Phases,
       Pids, Sids, Tids
  <2>4. LoopOK'
    BY <1>1, <2>1, <2>2 DEF EndParagraphs, LoopOK, Pids
  <2> QED BY <2>3, <2>4
<1>2. CASE TailParagraph
  <2>1. /\ Head(todo) \in Pids /\ Tail(todo) \in Seq(Pids)
        /\ Tail(todo) \in Seq(Nat)
    BY <1>2, TailType DEF TailParagraph, LoopOK
  <2>2. unmatched_paragraphs_prev' \in Seq(Pids)
    BY <1>2, <2>1, AppendProperties DEF TailParagraph, ListsOK
  <2>3. ArenasOK' /\ StoreOK' /\ InputOK' /\ ListsOK'
    BY <1>2, <2>2 DEF TailParagraph, ArenasOK, StoreOK, InputOK, ListsOK,
       Pids, Sids, Tids
  <2>4. LoopOK'
    BY <1>2, <2>1 DEF TailParagraph, LoopOK, Pids
  <2> QED BY <2>3, <2>4
<1>3. CASE EndParagraphsTail
  <2>1. unmatched_paragraphs_curr \in Seq(Pids) /\ unmatched_paragraphs_curr \in Seq(Nat)
    BY IdsAreNat, LenProperties DEF ListsOK, ArenasOK, Pids
  <2>2. ArenasOK' /\ StoreOK' /\ InputOK' /\ ListsOK'
    BY <1>3 DEF EndParagraphsTail, ArenasOK, StoreOK, InputOK, ListsOK, Phases,
       Pids, Sids, Tids
  <2>3. LoopOK'
    BY <1>3, <2>1 DEF EndParagraphsTail, LoopOK, Pids
  <2> QED BY <2>2, <2>3
<1> QED BY <1>1, <1>2, <1>3
-----------------------------------------------------------------------------
(* The sentence level. *)

(* Attaching a sentence keeps the number of paragraphs and what all but    *)
(* the current one hold.                                                   *)
LEMMA AttachType ==
  ASSUME TypeOK, pc = "sentences", todo # << >>, NEW s \in Nat, Attach(s)
  PROVE  /\ paragraphs' \in Seq(Paragraph)
         /\ Len(paragraphs') = Len(paragraphs)
         /\ \A p \in Pids : paragraphs'[p].sentences =
              IF p = Head(todo) THEN Append(paragraphs[p].sentences, s)
              ELSE paragraphs[p].sentences
<1> DEFINE q == Head(todo)
           new == [paragraphs[q] EXCEPT !.sentences = Append(@, s)]
<1>1. q \in Pids
  BY TailType DEF TypeOK, LoopOK
<1>2. paragraphs \in Seq(Paragraph) /\ q \in 1 .. Len(paragraphs)
  BY <1>1 DEF TypeOK, ArenasOK, Pids
<1>3. paragraphs[q] \in Paragraph
  BY <1>2, ElementOfSeq
<1>4. new \in Paragraph /\ new.sentences = Append(paragraphs[q].sentences, s)
  BY <1>3, AppendProperties DEF Paragraph
<1>5. paragraphs' = [paragraphs EXCEPT ![q] = new]
  BY DEF Attach
<1> HIDE DEF new, q
<1>6. /\ paragraphs' \in Seq(Paragraph)
      /\ Len(paragraphs') = Len(paragraphs)
      /\ \A p \in 1 .. Len(paragraphs) :
           paragraphs'[p] = IF p = q THEN new ELSE paragraphs[p]
  BY <1>2, <1>4, <1>5, ExceptSeq
<1> QED BY <1>4, <1>6 DEF Pids, q

(* The sentence the sentence loop is at has a hash. *)
LEMMA NextSentenceHashType ==
  ASSUME TypeOK, pc = "sentences", todo # << >>, MoreSentences
  PROVE  NextSentenceHash \in SentenceHash
<1>1. Head(todo) \in 1 .. Len(paragraphs)
  BY TailType DEF TypeOK, LoopOK, Pids
<1>2. CurrentParagraph \in Paragraph
  BY <1>1, ElementOfSeq DEF CurrentParagraph, TypeOK, ArenasOK
<1>3. /\ split_sentences[CurrentParagraph.hash_value] \in Seq(SentenceHash)
      /\ Len(CurrentParagraph.sentences) \in Nat
  BY <1>2, SplitAssumption, LenProperties DEF Paragraph
<1>4. Len(CurrentParagraph.sentences) + 1
        \in 1 .. Len(split_sentences[CurrentParagraph.hash_value])
  BY <1>3, LenProperties DEF MoreSentences
<1> QED BY <1>3, <1>4, ElementOfSeq DEF NextSentenceHash

(* Reusing a sentence keeps the types. *)
LEMMA ReuseSentenceType == ASSUME TypeOK, ReuseSentence PROVE TypeOK'
<1>1. PICK c \in Places(SentenceRows) :
        LET s == At(SentenceRows, c)
            passed == SpentSentences(NextSentenceHash, PlacesBefore(SentenceRows, c))
        IN  /\ matchedS' = matchedS \cup passed \cup {s}
            /\ matched_sentences_prev' = matched_sentences_prev \cup passed \cup {s}
            /\ matchedT' = matchedT \cup SentenceTokens(s)
            /\ Attach(s)
  BY DEF ReuseSentence
<1> DEFINE s == At(SentenceRows, c)
           passed == SpentSentences(NextSentenceHash, PlacesBefore(SentenceRows, c))
<1>2. s \in Sids
  BY SentenceRowsType
<1>3. passed \subseteq Sids
  BY DEF SpentSentences, OpenSentences
<1>4. s \in Nat
  BY <1>2 DEF Sids
<1>5. /\ paragraphs' \in Seq(Paragraph) /\ Len(paragraphs') = Len(paragraphs)
      /\ \A p \in Pids : paragraphs'[p].sentences =
              IF p = Head(todo) THEN Append(paragraphs[p].sentences, s)
              ELSE paragraphs[p].sentences
  BY <1>1, <1>4, AttachType DEF ReuseSentence
<1>6. Pids' = Pids /\ Sids' = Sids /\ Tids' = Tids
  BY <1>5 DEF ReuseSentence, Pids, Sids, Tids
<1>7. SentenceTokens(s) \subseteq Tids
  BY <1>2, MembersType
<1>8. matchedS' = matchedS \cup passed \cup {s}
      /\ matched_sentences_prev' = matched_sentences_prev \cup passed \cup {s}
      /\ matchedT' = matchedT \cup SentenceTokens(s)
  BY <1>1
<1> HIDE DEF s, passed
<1>9. ArenasOK'
  <2>1. \A p \in Pids : paragraphs'[p].sentences \in Seq(Sids)
    <3> TAKE p \in Pids
    <3>1. paragraphs[p].sentences \in Seq(Sids)
      BY DEF TypeOK, ArenasOK
    <3> QED BY <1>2, <1>5, <3>1, AppendProperties
  <2> QED BY <1>5, <1>6, <2>1 DEF TypeOK, ArenasOK, ReuseSentence
<1>10. StoreOK' /\ InputOK'
  BY <1>6 DEF TypeOK, StoreOK, InputOK, ReuseSentence
<1>11. ListsOK'
  BY <1>2, <1>3, <1>6, <1>7, <1>8 DEF TypeOK, ListsOK, ReuseSentence
<1>12. LoopOK'
  BY <1>6 DEF TypeOK, LoopOK, ReuseSentence
<1> QED BY <1>9, <1>10, <1>11, <1>12 DEF TypeOK

(* So does allocating one. *)
LEMMA AllocSentenceType == ASSUME TypeOK, AllocSentence PROVE TypeOK'
<1> DEFINE h == NextSentenceHash
           s == Len(sentences) + 1
           new == [hash_value |-> h, words |-> << >>]
           passed == SpentSentences(h, Places(SentenceRows))
<1>1. h \in SentenceHash
  BY NextSentenceHashType DEF AllocSentence
<1>2. new \in Sentence /\ new.words = << >>
  BY <1>1, EmptySeq DEF Sentence
<1>3. /\ sentences' = Append(sentences, new)
      /\ sentences' \in Seq(Sentence)
      /\ Len(sentences') = Len(sentences) + 1
      /\ \A k \in 1 .. Len(sentences) : sentences'[k] = sentences[k]
      /\ sentences'[Len(sentences) + 1] = new
  BY <1>2, AppendProperties DEF TypeOK, ArenasOK, AllocSentence
<1>4. Len(sentences) \in Nat /\ s \in Nat
  BY LenProperties DEF TypeOK, ArenasOK
<1>5. \A l \in Seq(Sids) : l \in Seq(Sids')
  BY <1>3, <1>4, IdsGrow DEF Sids
<1>6. Sids \subseteq Sids' /\ s \in Sids'
  BY <1>3, <1>4 DEF Sids
<1>7. /\ paragraphs' \in Seq(Paragraph) /\ Len(paragraphs') = Len(paragraphs)
      /\ \A p \in Pids : paragraphs'[p].sentences =
              IF p = Head(todo) THEN Append(paragraphs[p].sentences, s)
              ELSE paragraphs[p].sentences
  BY <1>4, AttachType DEF AllocSentence
<1>8. Pids' = Pids /\ Tids' = Tids
  BY <1>7 DEF AllocSentence, Pids, Tids
<1>9. passed \subseteq Sids
  BY DEF SpentSentences, OpenSentences
<1>10. /\ matchedS' = matchedS \cup passed
       /\ matched_sentences_prev' = matched_sentences_prev \cup passed
       /\ unmatched_sentences_curr' = Append(unmatched_sentences_curr, s)
  BY DEF AllocSentence
<1> HIDE DEF h, s, new, passed
<1>11. ArenasOK'
  <2>1. \A p \in Pids : paragraphs'[p].sentences \in Seq(Sids')
    <3> TAKE p \in Pids
    <3>1. paragraphs[p].sentences \in Seq(Sids')
      BY <1>5 DEF TypeOK, ArenasOK
    <3> QED BY <1>6, <1>7, <3>1, AppendProperties
  <2>2. \A k \in Sids' : sentences'[k].words \in Seq(Tids)
    <3> TAKE k \in Sids'
    <3>1. CASE k \in Sids
      BY <1>3, <3>1 DEF TypeOK, ArenasOK, Sids
    <3>2. CASE k = Len(sentences) + 1
      BY <1>2, <1>3, <3>2, EmptySeq
    <3> QED BY <1>3, <1>4, <3>1, <3>2 DEF Sids
  <2> QED BY <1>3, <1>7, <1>8, <2>1, <2>2 DEF TypeOK, ArenasOK, AllocSentence
<1>12. StoreOK' /\ InputOK'
  BY <1>5, <1>8 DEF TypeOK, StoreOK, InputOK, AllocSentence
<1>13. ListsOK'
  <2>1. unmatched_sentences_curr' \in Seq(Sids')
    BY <1>5, <1>6, <1>10, AppendProperties DEF TypeOK, ListsOK
  <2>2. unmatched_sentences_prev' \in Seq(Sids')
    BY <1>5 DEF TypeOK, ListsOK, AllocSentence
  <2> QED BY <1>6, <1>8, <1>9, <1>10, <2>1, <2>2 DEF TypeOK, ListsOK, AllocSentence
<1>14. LoopOK'
  BY <1>8 DEF TypeOK, LoopOK, AllocSentence
<1> QED BY <1>11, <1>12, <1>13, <1>14 DEF TypeOK

(* The ends of the sentence loops keep the types. *)
LEMMA SentenceLoopsType ==
  ASSUME TypeOK,
         NextParagraph \/ EndSentences \/ TailSentence
           \/ NextTailParagraph \/ EndSentencesTail
  PROVE  TypeOK'
<1> USE DEF TypeOK
<1>1. ArenasOK' /\ StoreOK' /\ Pids' = Pids /\ Sids' = Sids /\ Tids' = Tids
  BY DEF NextParagraph, EndSentences, TailSentence, NextTailParagraph,
     EndSentencesTail, ArenasOK, StoreOK, Pids, Sids, Tids
<1>2. InputOK'
  BY <1>1 DEF NextParagraph, EndSentences, TailSentence, NextTailParagraph,
     EndSentencesTail, InputOK, Phases
<1>3. CASE TailSentence
  <2> DEFINE s == CurrentParagraph.sentences[pos]
  <2>1. Head(todo) \in Pids
    BY <1>3, TailType DEF TailSentence, LoopOK
  <2>2. CurrentParagraph.sentences \in Seq(Sids)
    BY <2>1 DEF CurrentParagraph, ArenasOK
  <2>3. pos \in 1 .. Len(CurrentParagraph.sentences) /\ pos + 1 \in Nat \ {0}
    BY <1>3, <2>2, LenProperties DEF TailSentence, LoopOK
  <2>4. s \in Sids
    BY <2>2, <2>3, ElementOfSeq
  <2> HIDE DEF s
  <2>5. Append(unmatched_sentences_prev, s) \in Seq(Sids)
    BY <2>4, AppendProperties DEF ListsOK
  <2>6. \/ UNCHANGED <<matchedS, matched_sentences_prev, unmatched_sentences_prev>>
        \/ /\ unmatched_sentences_prev' = Append(unmatched_sentences_prev, s)
           /\ matchedS' = matchedS \cup {s}
           /\ matched_sentences_prev' = matched_sentences_prev \cup {s}
    BY <1>3 DEF TailSentence, s
  <2>7. ListsOK'
    BY <1>1, <1>3, <2>4, <2>5, <2>6 DEF TailSentence, ListsOK
  <2>8. LoopOK'
    BY <1>1, <1>3, <2>3 DEF TailSentence, LoopOK
  <2> QED BY <1>1, <1>2, <2>7, <2>8
<1>4. CASE NextParagraph \/ NextTailParagraph
  <2>1. Tail(todo) \in Seq(Pids) /\ Tail(todo) \in Seq(Nat)
    BY <1>4, TailType DEF NextParagraph, NextTailParagraph, LoopOK
  <2>2. ListsOK'
    BY <1>1, <1>4 DEF NextParagraph, NextTailParagraph, ListsOK
  <2>3. /\ pc' = pc /\ pc \in {"sentences", "sentences_tail"}
        /\ todo' = Tail(todo) /\ pos' \in {1, pos}
        /\ diff' = diff /\ consumed' = consumed
    BY <1>4 DEF NextParagraph, NextTailParagraph
  <2>4. LoopOK'
    BY <1>1, <2>1, <2>3 DEF LoopOK
  <2> QED BY <1>1, <1>2, <2>2, <2>4
<1>5. CASE EndSentences \/ EndSentencesTail
  <2>1. unmatched_paragraphs_prev \in Seq(Pids) /\ unmatched_paragraphs_prev \in Seq(Nat)
    BY IdsAreNat, LenProperties DEF ListsOK, ArenasOK, Pids
  <2>2. ListsOK'
    BY <1>1, <1>5 DEF EndSentences, EndSentencesTail, ListsOK
  <2>3. LoopOK'
    BY <1>1, <1>5, <2>1 DEF EndSentences, EndSentencesTail, LoopOK
  <2> QED BY <1>1, <1>2, <2>2, <2>3
<1> QED BY <1>3, <1>4, <1>5
-----------------------------------------------------------------------------
(* The word level. *)
LEMMA GateType ==
  ASSUME TypeOK, DenseVandalism \/ InsertionOnly \/ StartDiff
  PROVE  TypeOK'
<1> USE DEF TypeOK
<1>1. Pids' = Pids /\ Sids' = Sids /\ Tids' = Tids
  BY DEF DenseVandalism, InsertionOnly, StartDiff, Pids, Sids, Tids
<1>2. ArenasOK' /\ ListsOK'
  BY <1>1 DEF DenseVandalism, InsertionOnly, StartDiff, ArenasOK, ListsOK
<1>3. Append(spam_ids, rev_id) \in Seq(RevId)
  BY AppendProperties DEF StoreOK, InputOK
<1>4. spam_ids' \in {spam_ids, Append(spam_ids, rev_id)}
      /\ spam_hashes' \in {spam_hashes, spam_hashes \cup {text}}
      /\ (spam_hashes' # spam_hashes => pc # "idle")
  BY DEF DenseVandalism, InsertionOnly, StartDiff
<1>5. StoreOK'
  BY <1>1, <1>3, <1>4 DEF StoreOK, InputOK, DenseVandalism, InsertionOnly, StartDiff
<1>6. InputOK'
  BY <1>1 DEF InputOK, Phases, DenseVandalism, InsertionOnly, StartDiff
<1>7. unmatched_sentences_curr \in Seq(Sids) /\ unmatched_sentences_curr \in Seq(Nat)
  BY IdsAreNat, LenProperties DEF ListsOK, ArenasOK, Sids
<1>8. CASE DenseVandalism
  BY <1>1, <1>2, <1>5, <1>6, <1>8 DEF DenseVandalism, LoopOK
<1>9. CASE InsertionOnly
  BY <1>1, <1>2, <1>5, <1>6, <1>7, <1>9 DEF InsertionOnly, LoopOK
<1>10. CASE StartDiff
  <2>1. diff' \in Seq(DiffEntry) /\ consumed' = {}
    BY <1>10 DEF StartDiff
  <2>2. LoopOK'
    BY <1>1, <1>7, <1>10, <2>1 DEF StartDiff, LoopOK
  <2> QED BY <1>2, <1>5, <1>6, <2>2
<1> QED BY <1>8, <1>9, <1>10

(* The word the word loop is at is a token of an allocated sentence. *)
LEMMA NextWordType ==
  ASSUME TypeOK, InWordLoop
  PROVE  Head(todo) \in Sids /\ NextWord \in Token
<1>1. Head(todo) \in Sids
  BY TailType DEF TypeOK, LoopOK, InWordLoop
<1>2. CurrentSentence \in Sentence
  BY <1>1, ElementOfSeq DEF CurrentSentence, TypeOK, ArenasOK, Sids
<1>3. /\ split_tokens[CurrentSentence.hash_value] \in Seq(Token)
      /\ Len(CurrentSentence.words) \in Nat
  BY <1>2, SplitAssumption, LenProperties DEF Sentence
<1>4. Len(CurrentSentence.words) + 1
        \in 1 .. Len(split_tokens[CurrentSentence.hash_value])
  BY <1>3, LenProperties DEF InWordLoop, MoreWords
<1> QED BY <1>1, <1>3, <1>4, ElementOfSeq DEF NextWord

(* Pushing a word of an arena of n words on the current sentence. *)
LEMMA PushWordType ==
  ASSUME TypeOK, InWordLoop, NEW n \in Nat, Len(words) <= n,
         NEW w \in 1 .. n, PushWord(w)
  PROVE  /\ sentences' \in Seq(Sentence)
         /\ Len(sentences') = Len(sentences)
         /\ \A s \in Sids : sentences'[s].words \in Seq(1 .. n)
<1> DEFINE q == Head(todo)
           new == [sentences[q] EXCEPT !.words = Append(@, w)]
<1>1. q \in 1 .. Len(sentences)
  BY NextWordType DEF Sids
<1>2. sentences \in Seq(Sentence)
  BY DEF TypeOK, ArenasOK
<1>3. sentences[q] \in Sentence
  BY <1>1, <1>2, ElementOfSeq
<1>4. new \in Sentence /\ new.words = Append(sentences[q].words, w)
  <2>1. w \in Nat /\ sentences[q].words \in Seq(Nat)
    BY <1>3 DEF Sentence
  <2>2. Append(sentences[q].words, w) \in Seq(Nat)
    BY <2>1, AppendProperties
  <2> QED BY <1>3, <2>2 DEF Sentence
<1>5. sentences' = [sentences EXCEPT ![q] = new]
  BY DEF PushWord
<1> HIDE DEF new, q
<1>6. /\ sentences' \in Seq(Sentence)
      /\ Len(sentences') = Len(sentences)
      /\ \A s \in 1 .. Len(sentences) :
           sentences'[s] = IF s = q THEN new ELSE sentences[s]
  BY <1>1, <1>2, <1>4, <1>5, ExceptSeq
<1>7. \A s \in Sids : sentences[s].words \in Seq(1 .. n)
  BY IdsGrow, LenProperties DEF TypeOK, ArenasOK, Tids
<1>8. Append(sentences[q].words, w) \in Seq(1 .. n)
  BY <1>1, <1>7, AppendProperties DEF Sids
<1> QED BY <1>4, <1>6, <1>7, <1>8 DEF Sids

(* A word is allocated well typed, and the ids in use stay valid. *)
LEMMA AllocWordType ==
  ASSUME TypeOK, InWordLoop, AllocWord(NextWord),
         UNCHANGED <<paragraphs, store, spam, pc, input, curr, matchedSets,
                     paraLists, sentLists>>
  PROVE  ArenasOK' /\ StoreOK' /\ InputOK' /\ ListsOK' /\ Pids' = Pids /\ Sids' = Sids
<1> DEFINE new == [value |-> NextWord, origin_rev_id |-> rev_id,
                   last_rev_id |-> rev_id, inbound |-> << >>, outbound |-> << >>]
<1>1. new \in Word
  BY NextWordType, EmptySeq DEF Word, TypeOK, InputOK
<1>2. words' = Append(words, new) /\ PushWord(Len(words) + 1)
  BY DEF AllocWord
<1> HIDE DEF new
<1>3. Len(words) \in Nat /\ words' \in Seq(Word) /\ Len(words') = Len(words) + 1
  BY <1>1, <1>2, AppendProperties, LenProperties DEF TypeOK, ArenasOK
<1>4. /\ sentences' \in Seq(Sentence)
      /\ Len(sentences') = Len(sentences)
      /\ \A s \in Sids : sentences'[s].words \in Seq(1 .. Len(words) + 1)
  BY <1>2, <1>3, PushWordType
<1>5. Pids' = Pids /\ Sids' = Sids /\ Tids \subseteq Tids'
  BY <1>3, <1>4 DEF Pids, Sids, Tids
<1>6. ArenasOK'
  BY <1>3, <1>4, <1>5 DEF TypeOK, ArenasOK, Tids
<1> QED BY <1>5, <1>6 DEF TypeOK, StoreOK, InputOK, ListsOK

(* Pushing onto an outbound list keeps the arena of words one. *)
LEMMA WordOutboundType ==
  ASSUME TypeOK, NEW w \in Tids,
         words' = [words EXCEPT ![w].outbound = Append(@, rev_id)]
  PROVE  words' \in Seq(Word) /\ Len(words') = Len(words)
<1> DEFINE new == [words[w] EXCEPT !.outbound = Append(@, rev_id)]
<1>1. words \in Seq(Word) /\ w \in 1 .. Len(words)
  BY DEF TypeOK, ArenasOK, Tids
<1>2. words[w] \in Word /\ rev_id \in RevId
  BY <1>1, ElementOfSeq DEF TypeOK, InputOK
<1>3. new \in Word
  BY <1>2, AppendProperties DEF Word
<1>4. words' = [words EXCEPT ![w] = new]
  OBVIOUS
<1> HIDE DEF new
<1>5. \A seq \in Seq(Word), e \in Word : \A k \in 1 .. Len(seq) :
        [seq EXCEPT ![k] = e] \in Seq(Word) /\ Len([seq EXCEPT ![k] = e]) = Len(seq)
  BY ExceptSeq
<1> QED BY ONLY <1>1, <1>3, <1>4, <1>5

(* A kept entry reuses an allocated word. *)
LEMMA KeepEntryType ==
  ASSUME TypeOK, NEW i \in DOMAIN diff, KeepEntry(i)
  PROVE  TypeOK'
<1>1. PICK c \in Places(PrevRows) :
        /\ matchedT' = matchedT \cup {At(PrevRows, c)}
        /\ PushWord(At(PrevRows, c))
  BY DEF KeepEntry
<1>2. At(PrevRows, c) \in Tids
  BY PrevRowsType
<1>3. /\ sentences' \in Seq(Sentence) /\ Len(sentences') = Len(sentences)
      /\ \A s \in Sids : sentences'[s].words \in Seq(Tids)
  BY <1>1, <1>2, PushWordType, LenProperties DEF KeepEntry, TypeOK, ArenasOK, Tids
<1>4. Pids' = Pids /\ Sids' = Sids /\ Tids' = Tids
  BY <1>3 DEF KeepEntry, Pids, Sids, Tids
<1>5. ArenasOK' /\ StoreOK' /\ InputOK'
  BY <1>3, <1>4 DEF TypeOK, ArenasOK, StoreOK, InputOK, KeepEntry
<1>6. ListsOK'
  BY <1>1, <1>2, <1>4 DEF TypeOK, ListsOK, KeepEntry
<1>7. LoopOK'
  BY <1>4 DEF TypeOK, LoopOK, KeepEntry
<1> QED BY <1>5, <1>6, <1>7 DEF TypeOK

(* A deleted entry marks one. *)
LEMMA DeleteEntryType ==
  ASSUME TypeOK, NEW i \in DOMAIN diff, DeleteEntry(i)
  PROVE  TypeOK'
<1>1. PICK c \in Places(PrevRows) :
        /\ matchedT' = matchedT \cup {At(PrevRows, c)}
        /\ words' = [words EXCEPT ![At(PrevRows, c)].outbound = Append(@, rev_id)]
  BY DEF DeleteEntry
<1>2. At(PrevRows, c) \in Tids
  BY PrevRowsType
<1>3. words' \in Seq(Word) /\ Len(words') = Len(words)
  BY <1>1, <1>2, WordOutboundType
<1>4. Pids' = Pids /\ Sids' = Sids /\ Tids' = Tids
  BY <1>3 DEF DeleteEntry, Pids, Sids, Tids
<1>5. ArenasOK' /\ StoreOK' /\ InputOK'
  BY <1>3, <1>4 DEF TypeOK, ArenasOK, StoreOK, InputOK, DeleteEntry
<1>6. ListsOK'
  BY <1>1, <1>2, <1>4 DEF TypeOK, ListsOK, DeleteEntry
<1>7. i + 1 \in Nat \ {0}
  BY LenProperties DEF TypeOK, LoopOK
<1>8. LoopOK'
  BY <1>4, <1>7 DEF TypeOK, LoopOK, DeleteEntry
<1> QED BY <1>5, <1>6, <1>8 DEF TypeOK

(* An inserted entry and the fallback allocate one. *)
LEMMA InsertWordType ==
  ASSUME TypeOK, FallbackWord \/ \E i \in DOMAIN diff : InsertEntry(i)
  PROVE  TypeOK'
<1>1. ArenasOK' /\ StoreOK' /\ InputOK' /\ ListsOK' /\ Pids' = Pids /\ Sids' = Sids
  BY AllocWordType DEF FallbackWord, InsertEntry
<1>2. /\ diff' = diff /\ consumed' \subseteq DOMAIN diff /\ pos' = 1
      /\ todo' = todo /\ pc' = pc
  BY DEF FallbackWord, InsertEntry, TypeOK, LoopOK
<1>3. LoopOK'
  BY <1>1, <1>2 DEF TypeOK, LoopOK
<1> QED BY <1>1, <1>3 DEF TypeOK

(* The ends of the word loop keep the types. *)
LEMMA WordLoopsType ==
  ASSUME TypeOK, NextSentence \/ EndWords
  PROVE  TypeOK'
<1> USE DEF TypeOK
<1>1. ArenasOK' /\ StoreOK' /\ ListsOK' /\ Pids' = Pids /\ Sids' = Sids
  BY DEF NextSentence, EndWords, ArenasOK, StoreOK, ListsOK, Pids, Sids, Tids
<1>2. InputOK'
  BY <1>1 DEF NextSentence, EndWords, InputOK, Phases
<1>3. CASE NextSentence
  <2>1. Tail(todo) \in Seq(Sids) /\ Tail(todo) \in Seq(Nat)
    BY <1>3, TailType DEF NextSentence, LoopOK
  <2> QED BY <1>1, <1>2, <1>3, <2>1 DEF NextSentence, LoopOK
<1>4. CASE EndWords
  BY <1>1, <1>2, <1>4 DEF EndWords, LoopOK
<1> QED BY <1>3, <1>4
-----------------------------------------------------------------------------
(* The recorder. *)
LEMMA FunctionIsSeq ==
  ASSUME NEW S, NEW n \in Nat, NEW f \in [1 .. n -> S]
  PROVE  f \in Seq(S) /\ Len(f) = n
BY SeqDef

(* The recorder pushes onto outbound lists and changes nothing else of a word. *)
LEMMA PushOutboundType ==
  ASSUME TypeOK, NEW s \in Sids, PushOutbound(s)
  PROVE  /\ words' \in Seq(Word) /\ Len(words') = Len(words)
         /\ \A w \in Tids :
              /\ words'[w].origin_rev_id = words[w].origin_rev_id
              /\ words'[w].last_rev_id = words[w].last_rev_id
              /\ words'[w].inbound = words[w].inbound
              /\ Ids(words'[w].outbound) \subseteq Ids(words[w].outbound) \cup {rev_id}
<1>1. words \in Seq(Word) /\ DOMAIN words = 1 .. Len(words) /\ Len(words) \in Nat
  BY LenProperties DEF TypeOK, ArenasOK
<1>2. rev_id \in RevId
  BY DEF TypeOK, InputOK
<1> DEFINE times(w) == Cardinality(OccurrencesIn(s, w))
           more(w) == [n \in 1 .. times(w) |-> rev_id]
<1>3. \A w : times(w) \in Nat
  <2> TAKE w
  <2>1. sentences[s].words \in Seq(Tids)
    BY DEF TypeOK, ArenasOK
  <2>2. /\ DOMAIN sentences[s].words = 1 .. Len(sentences[s].words)
        /\ Len(sentences[s].words) \in Nat
    BY <2>1, LenProperties
  <2>3. IsFiniteSet(1 .. Len(sentences[s].words))
    BY <2>2, FS_Interval
  <2>4. OccurrencesIn(s, w) \in SUBSET (1 .. Len(sentences[s].words))
    BY <2>2 DEF OccurrencesIn
  <2>5. IsFiniteSet(OccurrencesIn(s, w))
    BY <2>3, <2>4, FS_Subset
  <2> QED BY <2>5, FS_CardinalityType
<1> HIDE DEF times
<1>4. \A w : more(w) \in Seq(RevId) /\ Ids(more(w)) \subseteq {rev_id}
  BY <1>2, <1>3, FunctionIsSeq DEF Ids
<1>5. words' = [w \in DOMAIN words |->
                  IF w \in matchedT THEN words[w]
                  ELSE [words[w] EXCEPT !.outbound = @ \o more(w)]]
  BY DEF PushOutbound, times
<1> HIDE DEF more
<1>6. ASSUME NEW w \in 1 .. Len(words)
      PROVE  /\ words'[w] \in Word
             /\ words'[w].origin_rev_id = words[w].origin_rev_id
             /\ words'[w].last_rev_id = words[w].last_rev_id
             /\ words'[w].inbound = words[w].inbound
             /\ Ids(words'[w].outbound) \subseteq Ids(words[w].outbound) \cup {rev_id}
  <2>1. words[w] \in Word
    BY <1>1, ElementOfSeq
  <2>2. words[w].outbound \o more(w) \in Seq(RevId)
    BY <1>4, <2>1, ConcatProperties DEF Word
  <2>3. Ids(words[w].outbound \o more(w)) \subseteq Ids(words[w].outbound) \cup {rev_id}
    BY <1>4, <2>1, IdsConcat DEF Word
  <2>4. CASE w \in matchedT
    BY <1>1, <1>5, <2>1, <2>4
  <2>5. CASE w \notin matchedT
    <3>1. words'[w] = [words[w] EXCEPT !.outbound = @ \o more(w)]
      BY <1>1, <1>5, <2>5
    <3> QED BY <2>1, <2>2, <2>3, <3>1 DEF Word
  <2> QED BY <2>4, <2>5
<1>7. words' \in [1 .. Len(words) -> Word]
  BY <1>1, <1>5, <1>6
<1> QED BY <1>1, <1>6, <1>7, FunctionIsSeq DEF Tids

(* The outbound passes only push. *)
LEMMA OutboundPushes ==
  ASSUME TypeOK, OutboundSentence \/ OutboundParagraph
  PROVE  words' = words \/ \E s \in Sids : PushOutbound(s)
<1> USE DEF TypeOK
<1>1. CASE OutboundSentence
  <2>1. Head(todo) \in Sids
    BY <1>1, TailType DEF OutboundSentence, LoopOK
  <2> QED BY <1>1, <2>1 DEF OutboundSentence
<1>2. CASE OutboundParagraph
  <2>1. Head(todo) \in Pids
    BY <1>2, TailType DEF OutboundParagraph, LoopOK
  <2>2. CurrentParagraph.sentences \in Seq(Sids)
    BY <2>1 DEF CurrentParagraph, ArenasOK
  <2>3. ASSUME pos <= Len(CurrentParagraph.sentences)
        PROVE  CurrentParagraph.sentences[pos] \in Sids
    BY <2>2, <2>3, ElementOfSeq, LenProperties DEF LoopOK
  <2>4. \/ words' = words
        \/ /\ pos <= Len(CurrentParagraph.sentences)
           /\ PushOutbound(CurrentParagraph.sentences[pos])
    BY <1>2 DEF OutboundParagraph
  <2> QED BY <2>3, <2>4
<1> QED BY <1>1, <1>2

(* The outbound loops of the recorder keep the types. *)
LEMMA OutboundType ==
  ASSUME TypeOK, OutboundSentence \/ OutboundParagraph
  PROVE  TypeOK'
<1> USE DEF TypeOK
<1>1. words' \in Seq(Word) /\ Len(words') = Len(words)
  BY OutboundPushes, PushOutboundType DEF ArenasOK
<1>2. Pids' = Pids /\ Sids' = Sids /\ Tids' = Tids
  BY <1>1 DEF OutboundSentence, OutboundParagraph, Pids, Sids, Tids
<1>3. ArenasOK'
  BY <1>1, <1>2 DEF OutboundSentence, OutboundParagraph, ArenasOK
<1>4. StoreOK' /\ InputOK' /\ ListsOK'
  BY <1>2 DEF OutboundSentence, OutboundParagraph, StoreOK, InputOK, ListsOK
<1>5. CASE OutboundSentence
  <2>1. Tail(todo) \in Seq(Sids) /\ Tail(todo) \in Seq(Nat)
    BY <1>5, TailType DEF OutboundSentence, LoopOK
  <2> QED BY <1>2, <1>3, <1>4, <1>5, <2>1 DEF OutboundSentence, LoopOK
<1>6. CASE OutboundParagraph
  <2>1. Tail(todo) \in Seq(Pids) /\ Tail(todo) \in Seq(Nat)
    BY <1>6, TailType DEF OutboundParagraph, LoopOK
  <2>2. /\ pos' \in Nat \ {0} /\ todo' \in {todo, Tail(todo)}
        /\ pc' = pc /\ pc = "outbound_paragraphs"
        /\ UNCHANGED <<diff, consumed>>
    BY <1>6 DEF OutboundParagraph, LoopOK
  <2>3. LoopOK'
    BY <1>2, <2>1, <2>2 DEF LoopOK
  <2> QED BY <1>3, <1>4, <2>3
<1> QED BY <1>5, <1>6

(* So do the steps between them. *)
LEMMA RecorderLoopsType ==
  ASSUME TypeOK, BeginRecord \/ EndOutboundSentences
  PROVE  TypeOK'
<1> USE DEF TypeOK
<1>1. Pids' = Pids /\ Sids' = Sids /\ Tids' = Tids
  BY DEF BeginRecord, EndOutboundSentences, Pids, Sids, Tids
<1>2. ArenasOK' /\ StoreOK' /\ ListsOK'
  BY <1>1 DEF BeginRecord, EndOutboundSentences, ArenasOK, StoreOK, ListsOK
<1>3. InputOK'
  BY <1>1 DEF BeginRecord, EndOutboundSentences, InputOK, Phases
<1>4. /\ unmatched_sentences_prev \in Seq(Sids) /\ unmatched_sentences_prev \in Seq(Nat)
      /\ SecondPass \in Seq(Pids) /\ SecondPass \in Seq(Nat)
  BY IdsAreNat, LenProperties, EmptySeq DEF ListsOK, ArenasOK, Sids, Pids, SecondPass
<1>5. LoopOK'
  BY <1>1, <1>4 DEF BeginRecord, EndOutboundSentences, LoopOK
<1> QED BY <1>2, <1>3, <1>5

(* Recording inbound keeps the types. *)
LEMMA RecordInboundType == ASSUME TypeOK, RecordInbound PROVE TypeOK'
<1> USE DEF TypeOK
<1>1. words \in Seq(Word) /\ DOMAIN words = 1 .. Len(words) /\ Len(words) \in Nat
  BY LenProperties DEF ArenasOK
<1>2. rev_id \in RevId
  BY DEF InputOK
<1>3. \A w \in 1 .. Len(words) : words[w] \in Word
  BY <1>1, ElementOfSeq
<1>4. \A w \in 1 .. Len(words) : UpdateInbound(w) \in Word
  <2> TAKE w \in 1 .. Len(words)
  <2>1. Append(words[w].inbound, rev_id) \in Seq(RevId)
    BY <1>2, <1>3, AppendProperties DEF Word
  <2> QED BY <1>2, <1>3, <2>1 DEF UpdateInbound, Word
<1>5. words' = [w \in DOMAIN words |->
                  IF w \in InboundTokens /\ Survives(w) THEN UpdateInbound(w)
                  ELSE words[w]]
  BY DEF RecordInbound
<1>6. words' \in [1 .. Len(words) -> Word]
  BY <1>1, <1>3, <1>4, <1>5
<1>7. words' \in Seq(Word) /\ Len(words') = Len(words)
  BY <1>1, <1>6, FunctionIsSeq
<1>8. Pids' = Pids /\ Sids' = Sids /\ Tids' = Tids
  BY <1>7 DEF RecordInbound, Pids, Sids, Tids
<1>9. ArenasOK'
  BY <1>7, <1>8 DEF RecordInbound, ArenasOK
<1>10. StoreOK' /\ InputOK' /\ ListsOK' /\ LoopOK'
  BY <1>8 DEF RecordInbound, StoreOK, InputOK, ListsOK, LoopOK, Phases
<1> QED BY <1>9, <1>10

(* Storing the revision keeps the types. *)
LEMMA CommitType == ASSUME TypeOK, Commit PROVE TypeOK'
<1> USE DEF TypeOK
<1>1. Pids' = Pids /\ Sids' = Sids /\ Tids' = Tids
  BY DEF Commit, Pids, Sids, Tids
<1>2. /\ paragraphs_ht \o unmatched_paragraphs_curr \in Seq(Pids)
      /\ sentences_ht \o unmatched_sentences_curr \in Seq(Sids)
      /\ Append(ordered_revisions, rev_id) \in Seq(RevId)
  BY ConcatProperties, AppendProperties DEF StoreOK, ListsOK, InputOK
<1> DEFINE new == [id |-> rev_id, text |-> text, paragraphs |-> curr]
<1>3. new \in Revision /\ new.paragraphs \in Seq(Pids)
  <2>1. curr \in Seq(Nat)
    BY IdsAreNat, LenProperties DEF InputOK, ArenasOK, Pids
  <2> QED BY <2>1 DEF InputOK, Revision
<1>4. revisions' = [revisions EXCEPT ![rev_id] = new]
  BY DEF Commit
<1> HIDE DEF new
<1>5. /\ revisions' \in [RevId -> Revision]
      /\ \A r \in RevId : revisions'[r].paragraphs \in Seq(Pids)
  BY <1>3, <1>4 DEF StoreOK, InputOK
<1>6. StoreOK'
  BY <1>1, <1>2, <1>5 DEF Commit, StoreOK, InputOK
<1>7. ArenasOK' /\ InputOK' /\ ListsOK' /\ LoopOK'
  BY <1>1 DEF Commit, ArenasOK, InputOK, ListsOK, LoopOK, Phases
<1> QED BY <1>6, <1>7

(* Every step of a call, then every step. *)
LEMMA StepType == ASSUME TypeOK, Step PROVE TypeOK'
<1>1. CASE \E i \in DOMAIN diff : KeepEntry(i) \/ DeleteEntry(i) \/ InsertEntry(i)
  BY <1>1, KeepEntryType, DeleteEntryType, InsertWordType
<1>2. CASE ReuseParagraph \/ AllocParagraph \/ EndParagraphs \/ TailParagraph
             \/ EndParagraphsTail
  BY <1>2, ReuseParagraphType, AllocParagraphType, ParagraphLoopsType
<1>3. CASE ReuseSentence \/ AllocSentence \/ NextParagraph \/ EndSentences
             \/ TailSentence \/ NextTailParagraph \/ EndSentencesTail
  BY <1>3, ReuseSentenceType, AllocSentenceType, SentenceLoopsType
<1>4. CASE DenseVandalism \/ InsertionOnly \/ StartDiff \/ FallbackWord
             \/ NextSentence \/ EndWords
  BY <1>4, GateType, InsertWordType, WordLoopsType
<1>5. CASE BeginRecord \/ OutboundSentence \/ EndOutboundSentences
             \/ OutboundParagraph \/ RecordInbound \/ Commit
  BY <1>5, RecorderLoopsType, OutboundType, RecordInboundType, CommitType
<1> QED BY <1>1, <1>2, <1>3, <1>4, <1>5 DEF Step

(* A step that changes nothing keeps the types. *)
LEMMA StutterType == ASSUME TypeOK, UNCHANGED vars PROVE TypeOK'
<1>1. Pids' = Pids /\ Sids' = Sids /\ Tids' = Tids
  BY DEF vars, Pids, Sids, Tids
<1> QED BY <1>1 DEF vars, TypeOK, ArenasOK, StoreOK, InputOK, ListsOK, LoopOK

(* The type invariant of the algorithm: every id a list, an arena entry or *)
(* a hash table holds stays within the arena it names, so no lookup of     *)
(* cascade.rs indexes out of bounds.                                       *)
THEOREM TypeCorrect == Spec => []TypeOK
<1>1. Init => TypeOK
  BY InitType
<1>2. TypeOK /\ [Next]_vars => TypeOK'
  BY ArrivalType, StepType, StutterType DEF Next
<1> QED BY <1>1, <1>2, PTL DEF Spec
-----------------------------------------------------------------------------
(* A rolled-back revision leaves no trace in a token's history.            *)

(* What NoSpamInHistory allows a history to name. *)
Nameable == Stored \cup (IF Recording THEN {rev_id} ELSE {})

(* A step that leaves the words alone and takes nothing off the revisions  *)
(* a history may name.                                                     *)
LEMMA SameWordsClean ==
  ASSUME NoSpamInHistory, words' = words, Nameable \subseteq Nameable'
  PROVE  NoSpamInHistory'
BY DEF NoSpamInHistory, Nameable, HistoryNames, Tids, Stored, Ids, Recording

(* A step past the density gate that adds the current revision at most.    *)
LEMMA RecordingClean ==
  ASSUME TypeOK, NoSpamInHistory, Recording, Recording', rev_id' = rev_id,
         ordered_revisions' = ordered_revisions,
         \A w \in Tids' :
           \/ HistoryNames(w)' \subseteq {rev_id}
           \/ w \in Tids /\ HistoryNames(w)' \subseteq HistoryNames(w) \cup {rev_id}
  PROVE  NoSpamInHistory'
<1>1. Nameable' = Nameable /\ rev_id \in Nameable
  BY DEF Nameable, Stored, Ids
<1>2. ASSUME NEW w \in Tids' PROVE HistoryNames(w)' \subseteq Nameable'
  <2>1. CASE HistoryNames(w)' \subseteq {rev_id}
    BY <1>1, <2>1
  <2>2. CASE w \in Tids /\ HistoryNames(w)' \subseteq HistoryNames(w) \cup {rev_id}
    <3>1. HistoryNames(w) \subseteq Nameable
      BY <2>2 DEF NoSpamInHistory, Nameable
    <3> QED BY <1>1, <2>2, <3>1
  <2> QED BY <1>2, <2>1, <2>2
<1> QED BY <1>2 DEF NoSpamInHistory, Nameable

(* A word allocated past the density gate names the revision in progress only. *)
LEMMA AllocWordClean ==
  ASSUME TypeOK, NoSpamInHistory, pc = "words", NEW v,
         AllocWord(v), UNCHANGED <<pc, rev_id, ordered_revisions>>
  PROVE  NoSpamInHistory'
<1> DEFINE new == [value |-> v, origin_rev_id |-> rev_id,
                   last_rev_id |-> rev_id, inbound |-> << >>, outbound |-> << >>]
<1>1. words \in Seq(Word) /\ Len(words) \in Nat
  BY LenProperties DEF TypeOK, ArenasOK
<1>2. words' = Append(words, new)
  BY DEF AllocWord
<1>3. /\ Len(words') = Len(words) + 1
      /\ \A w \in 1 .. Len(words) : words'[w] = words[w]
      /\ words'[Len(words) + 1] = new
  BY <1>1, <1>2, AppendProperties
<1>4. ASSUME NEW w \in Tids'
      PROVE  \/ HistoryNames(w)' \subseteq {rev_id}
             \/ w \in Tids /\ HistoryNames(w)' \subseteq HistoryNames(w) \cup {rev_id}
  <2>1. CASE w \in Tids
    BY <1>3, <2>1 DEF Tids, HistoryNames, Ids
  <2>2. CASE w = Len(words) + 1
    <3>1. words'[w].inbound = << >> /\ words'[w].outbound = << >>
          /\ words'[w].origin_rev_id = rev_id /\ words'[w].last_rev_id = rev_id
      BY <1>3, <2>2
    <3>2. Ids(<< >>) = {}
      BY DEF Ids
    <3> QED BY <3>1, <3>2 DEF HistoryNames, Ids
  <2> QED BY <1>1, <1>3, <2>1, <2>2 DEF Tids
<1> QED BY <1>4, RecordingClean DEF Recording

(* A step that rewrites words in place, each keeping its history or adding *)
(* the current revision to it.                                             *)
LEMMA RewriteClean ==
  ASSUME TypeOK, NoSpamInHistory, Recording, Recording',
         rev_id' = rev_id, ordered_revisions' = ordered_revisions,
         DOMAIN words' = DOMAIN words, Tids' = Tids,
         \A w \in Tids :
           /\ words'[w].origin_rev_id = words[w].origin_rev_id
           /\ words'[w].last_rev_id \in {words[w].last_rev_id, rev_id}
           /\ Ids(words'[w].inbound) \subseteq Ids(words[w].inbound) \cup {rev_id}
           /\ Ids(words'[w].outbound) \subseteq Ids(words[w].outbound) \cup {rev_id}
  PROVE  NoSpamInHistory'
<1>1. ASSUME NEW w \in Tids'
      PROVE  w \in Tids /\ HistoryNames(w)' \subseteq HistoryNames(w) \cup {rev_id}
  <2>1. Ids(words'[w].inbound) = Ids(words[w].inbound)'
        /\ Ids(words'[w].outbound) = Ids(words[w].outbound)'
    BY DEF Ids
  <2> QED BY <2>1 DEF HistoryNames, Ids
<1> QED BY <1>1, RecordingClean

(* An outbound pushed past the gate names it too. *)
LEMMA DeleteEntryClean ==
  ASSUME TypeOK, NoSpamInHistory, NEW i \in DOMAIN diff, DeleteEntry(i)
  PROVE  NoSpamInHistory'
<1>1. PICK c \in Places(PrevRows) :
        words' = [words EXCEPT ![At(PrevRows, c)].outbound = Append(@, rev_id)]
  BY DEF DeleteEntry
<1> DEFINE v == At(PrevRows, c)
<1>2. v \in Tids
  BY PrevRowsType
<1>3. words' \in Seq(Word) /\ Len(words') = Len(words)
  BY <1>1, <1>2, WordOutboundType
<1>4. words \in Seq(Word) /\ DOMAIN words' = DOMAIN words /\ Tids' = Tids
      /\ DOMAIN words = Tids
  BY <1>3, LenProperties DEF TypeOK, ArenasOK, Tids
<1> HIDE DEF v
<1>5. ASSUME NEW w \in Tids
      PROVE  /\ words'[w].origin_rev_id = words[w].origin_rev_id
             /\ words'[w].last_rev_id = words[w].last_rev_id
             /\ words'[w].inbound = words[w].inbound
             /\ words'[w].outbound \in {words[w].outbound, Append(words[w].outbound, rev_id)}
  <2>1. words[w] \in Word
    BY <1>4, ElementOfSeq DEF Tids
  <2>2. words' = [words EXCEPT ![v] = [words[v] EXCEPT !.outbound = Append(@, rev_id)]]
    BY <1>1 DEF v
  <2>3. CASE w = v
    <3>1. words'[w] = [words[w] EXCEPT !.outbound = Append(@, rev_id)]
      BY <1>4, <2>2, <2>3
    <3> QED BY <2>1, <3>1 DEF Word
  <2>4. CASE w # v
    BY <1>4, <2>2, <2>4
  <2> QED BY <2>3, <2>4
<1>6. ASSUME NEW w \in Tids
      PROVE  Ids(Append(words[w].outbound, rev_id)) = Ids(words[w].outbound) \cup {rev_id}
  <2>1. words[w] \in Word
    BY <1>4, ElementOfSeq DEF Tids
  <2>2. words[w].outbound \in Seq(RevId) /\ rev_id \in RevId
    BY <2>1 DEF Word, TypeOK, InputOK
  <2> QED BY <2>2, IdsAppend
<1> QED BY <1>4, <1>5, <1>6, RewriteClean DEF DeleteEntry, InWordLoop, Recording

(* The outbound loops of the recorder name the revision in progress only. *)
LEMMA OutboundClean ==
  ASSUME TypeOK, NoSpamInHistory, OutboundSentence \/ OutboundParagraph
  PROVE  NoSpamInHistory'
<1>1. CASE words' = words
  <2>1. Nameable' = Nameable
    BY DEF OutboundSentence, OutboundParagraph, Nameable, Stored, Ids, Recording
  <2> QED BY <1>1, <2>1, SameWordsClean
<1>2. ASSUME NEW s \in Sids, PushOutbound(s) PROVE NoSpamInHistory'
  <2>1. /\ words' \in Seq(Word) /\ Len(words') = Len(words)
        /\ \A w \in Tids :
             /\ words'[w].origin_rev_id = words[w].origin_rev_id
             /\ words'[w].last_rev_id = words[w].last_rev_id
             /\ words'[w].inbound = words[w].inbound
             /\ Ids(words'[w].outbound) \subseteq Ids(words[w].outbound) \cup {rev_id}
    BY <1>2, PushOutboundType
  <2>2. DOMAIN words' = DOMAIN words /\ Tids' = Tids
    BY <2>1, LenProperties DEF TypeOK, ArenasOK, Tids
  <2> QED BY <2>1, <2>2, RewriteClean DEF OutboundSentence, OutboundParagraph, Recording
<1> QED BY <1>1, <1>2, OutboundPushes

(* So does the recording of inbound and last_rev_id. *)
LEMMA RecordInboundClean ==
  ASSUME TypeOK, NoSpamInHistory, RecordInbound
  PROVE  NoSpamInHistory'
<1>1. words \in Seq(Word) /\ DOMAIN words = Tids /\ rev_id \in RevId
  BY LenProperties DEF TypeOK, ArenasOK, InputOK, Tids
<1>2. words' = [w \in DOMAIN words |->
                  IF w \in InboundTokens /\ Survives(w) THEN UpdateInbound(w)
                  ELSE words[w]]
  BY DEF RecordInbound
<1>3. DOMAIN words' = DOMAIN words
  BY <1>2
<1>4. Tids' = Tids
  <2>1. TypeOK'
    BY RecordInboundType
  <2> QED BY <1>3, <2>1, LenProperties DEF TypeOK, ArenasOK, Tids
<1>5. ASSUME NEW w \in Tids
      PROVE  /\ words'[w].origin_rev_id = words[w].origin_rev_id
             /\ words'[w].last_rev_id \in {words[w].last_rev_id, rev_id}
             /\ Ids(words'[w].inbound) \subseteq Ids(words[w].inbound) \cup {rev_id}
             /\ Ids(words'[w].outbound) \subseteq Ids(words[w].outbound) \cup {rev_id}
  <2>1. words[w] \in Word
    BY <1>1, ElementOfSeq DEF Tids
  <2>2. Ids(Append(words[w].inbound, rev_id)) = Ids(words[w].inbound) \cup {rev_id}
    BY <1>1, <2>1, IdsAppend DEF Word
  <2>3. words'[w] \in {words[w], UpdateInbound(w)}
    BY <1>1, <1>2
  <2> QED BY <2>1, <2>2, <2>3 DEF UpdateInbound, Word
<1> QED BY <1>3, <1>4, <1>5, RewriteClean DEF RecordInbound, Recording

(* What was named as in progress is stored by the commit. *)
LEMMA CommitClean ==
  ASSUME TypeOK, NoSpamInHistory, Commit
  PROVE  NoSpamInHistory'
<1>1. Ids(Append(ordered_revisions, rev_id)) = Ids(ordered_revisions) \cup {rev_id}
  BY IdsAppend DEF TypeOK, StoreOK, InputOK
<1>2. Stored' = Stored \cup {rev_id}
  BY <1>1 DEF Commit, Stored, Ids
<1>3. Nameable \subseteq Nameable'
  BY <1>2 DEF Nameable
<1> QED BY <1>3, SameWordsClean DEF Commit

(* No step leaves the name of a rejected revision behind. *)
LEMMA NoSpamStep ==
  ASSUME TypeOK, NoSpamInHistory, Next
  PROVE  NoSpamInHistory'
<1>1. CASE Commit
  BY <1>1, CommitClean
<1>2. CASE RecordInbound
  BY <1>2, RecordInboundClean
<1>3. CASE OutboundSentence \/ OutboundParagraph
  BY <1>3, OutboundClean
<1>4. CASE FallbackWord \/ \E i \in DOMAIN diff : InsertEntry(i)
  BY <1>4, AllocWordClean DEF FallbackWord, InsertEntry, InWordLoop
<1>5. CASE \E i \in DOMAIN diff : DeleteEntry(i)
  BY <1>5, DeleteEntryClean
<1>6. CASE \E i \in DOMAIN diff : KeepEntry(i)
  <2>1. words' = words /\ Nameable' = Nameable
    BY <1>6 DEF KeepEntry, Nameable, Stored, Ids, Recording
  <2> QED BY <2>1, SameWordsClean
<1>7. CASE \E t \in Text, move \in BOOLEAN :
             HashMatch(t) \/ LengthShrink(t, move) \/ BeginCascade(t, move)
  <2>1. words' = words /\ Nameable \subseteq Nameable'
    BY <1>7 DEF HashMatch, LengthShrink, BeginCascade, Arrives, Nameable,
       Stored, Ids, Recording
  <2> QED BY <2>1, SameWordsClean
<1>8. CASE ReuseParagraph \/ AllocParagraph \/ EndParagraphs \/ TailParagraph
             \/ EndParagraphsTail \/ ReuseSentence \/ AllocSentence
             \/ NextParagraph \/ EndSentences \/ TailSentence
             \/ NextTailParagraph \/ EndSentencesTail
  <2>1. /\ words' = words /\ ordered_revisions' = ordered_revisions
        /\ rev_id' = rev_id /\ ~ Recording
    BY <1>8 DEF ReuseParagraph, AllocParagraph, EndParagraphs, TailParagraph,
       EndParagraphsTail, ReuseSentence, AllocSentence, NextParagraph,
       EndSentences, TailSentence, NextTailParagraph, EndSentencesTail, Recording
  <2> QED BY <2>1, SameWordsClean DEF Nameable, Stored, Ids
<1>9. CASE DenseVandalism \/ InsertionOnly \/ StartDiff \/ NextSentence
             \/ EndWords \/ BeginRecord \/ EndOutboundSentences
  <2>1. /\ words' = words /\ ordered_revisions' = ordered_revisions
        /\ rev_id' = rev_id /\ (Recording => Recording')
    BY <1>9 DEF DenseVandalism, InsertionOnly, StartDiff, NextSentence, EndWords,
       BeginRecord, EndOutboundSentences, Recording
  <2> QED BY <2>1, SameWordsClean DEF Nameable, Stored, Ids
<1>10. (\E t \in Text : HashMatch(t)) \/
        (\E t \in Text, move \in BOOLEAN : LengthShrink(t, move) \/ BeginCascade(t, move))
         => \E t \in Text, move \in BOOLEAN :
             HashMatch(t) \/ LengthShrink(t, move) \/ BeginCascade(t, move)
  OBVIOUS
<1> QED BY <1>1, <1>2, <1>3, <1>4, <1>5, <1>6, <1>7, <1>8, <1>9, <1>10 DEF Next, Step

(* Whatever the feed, a revision that hash-, length- or density-based      *)
(* vandalism detection rejects is never named by a token's origin, last    *)
(* revision, inbound or outbound list: the roll-back of analyse_revision   *)
(* needs to undo nothing in the words, because the gates come before the   *)
(* first write to one.                                                     *)
THEOREM SpamLeavesNoTrace == Spec => []NoSpamInHistory
<1>1. Init => NoSpamInHistory
  BY EmptySeq DEF Init, NoSpamInHistory, Tids
<1>2. TypeOK /\ NoSpamInHistory /\ [Next]_vars => NoSpamInHistory'
  <2> SUFFICES ASSUME TypeOK, NoSpamInHistory, UNCHANGED vars
               PROVE  NoSpamInHistory'
    BY NoSpamStep
  <2>1. words' = words /\ Nameable' = Nameable
    BY DEF vars, Nameable, Stored, Ids, Recording
  <2> QED BY <2>1, SameWordsClean
<1> QED BY <1>1, <1>2, TypeCorrect, PTL DEF Spec
-----------------------------------------------------------------------------
(* The matching cascade. *)

(* Known to the article, and allocated by the call that is running. *)
OldP == Ids(paragraphs_ht)
OldS == Ids(sentences_ht)
OldT == UNION { SentenceTokens(s) : s \in OldS }
NewP == Ids(unmatched_paragraphs_curr)
NewS == Ids(unmatched_sentences_curr)
SentencesOf(P) == UNION { ParagraphSentences(p) : p \in P }
TokensOf(P)    == UNION { ParagraphTokens(p) : p \in P }

StoredInOrder ==
  /\ Stored \subseteq 1 .. rev_id
  /\ pc # "idle" => rev_id \in (1 .. MaxRevisions) \ Stored
  /\ last_good_rev_id \in Stored \cup {0}
  /\ revisions[0].paragraphs = << >>

(* How much of a hash's split has been built, and that it is all of it. *)
SentencePart(s) ==
  LET t == split_tokens[sentences[s].hash_value]
  IN  /\ Len(sentences[s].words) <= Len(t)
      /\ \A k \in DOMAIN sentences[s].words : words[sentences[s].words[k]].value = t[k]
SentenceWhole(s) ==
  SentencePart(s) /\ Len(sentences[s].words) = Len(split_tokens[sentences[s].hash_value])
ParagraphPart(p) ==
  LET t == split_sentences[paragraphs[p].hash_value]
  IN  /\ Len(paragraphs[p].sentences) <= Len(t)
      /\ \A j \in DOMAIN paragraphs[p].sentences :
           sentences[paragraphs[p].sentences[j]].hash_value = t[j]
ParagraphWhole(p) ==
  ParagraphPart(p) /\ Len(paragraphs[p].sentences) = Len(split_sentences[paragraphs[p].hash_value])
TextPart(ps, t) ==
  /\ Len(ps) <= Len(split_paragraphs[t])
  /\ \A i \in DOMAIN ps : paragraphs[ps[i]].hash_value = split_paragraphs[t][i]

(* No token in two places of the paragraphs P. *)
Separate(P) ==
  /\ \A p, q \in P : p # q => ParagraphTokens(p) \cap ParagraphTokens(q) = {}
  /\ \A p \in P : IsInjective(paragraphs[p].sentences)
  /\ \A p \in P : \A s, t \in ParagraphSentences(p) :
       s # t => SentenceTokens(s) \cap SentenceTokens(t) = {}
  /\ \A p \in P : \A s \in ParagraphSentences(p) : IsInjective(sentences[s].words)

(* What holds of the article, whatever the call in progress has done. *)
StoredSpelled ==
  /\ \A s \in OldS : SentenceWhole(s)
  /\ \A p \in OldP : ParagraphWhole(p)
  /\ \A r \in Stored :
       /\ revisions[r].text \in Text
       /\ TextPart(revisions[r].paragraphs, revisions[r].text)
       /\ Len(revisions[r].paragraphs) = Len(split_paragraphs[revisions[r].text])
StoredDistinct ==
  \A r \in Stored : IsInjective(revisions[r].paragraphs) /\ Separate(Ids(revisions[r].paragraphs))
ArticleInv == HashTablesSound /\ StoredSpelled /\ StoredDistinct

(* What the call in progress has built; no clause looks at its loop. *)
NewIds ==
  /\ IsInjective(unmatched_paragraphs_curr) /\ NewP \cap OldP = {}
  /\ IsInjective(unmatched_sentences_curr) /\ NewS \cap OldS = {}
InUse ==
  /\ NewP \subseteq Ids(curr) /\ Ids(curr) \subseteq OldP \cup NewP
  /\ NewS \subseteq SentencesOf(NewP) /\ SentencesOf(NewP) \subseteq OldS \cup NewS
Parts ==
  /\ TextPart(curr, text)
  /\ \A p \in NewP : ParagraphPart(p)
  /\ \A s \in NewS : SentencePart(s)
Apart ==
  /\ IsInjective(curr) /\ Separate(Ids(curr))
  /\ matchedP \subseteq OldP /\ Ids(curr) \cap OldP \subseteq matchedP
  /\ TokensOf(Ids(curr)) \cap OldT \subseteq matchedT
  /\ SentencesOf(NewP) \cap OldS \subseteq matchedS
  /\ \A p, q \in NewP : p # q => ParagraphSentences(p) \cap ParagraphSentences(q) = {}
WorkInv == NewIds /\ InUse /\ Parts /\ Apart

(* How far its loop has come. *)
PrevLists ==
  Ids(unmatched_paragraphs_prev) \subseteq OldP /\ Ids(unmatched_sentences_prev) \subseteq OldS
TodoIds ==
  /\ pc \in {"paragraphs", "paragraphs_tail"} => unmatched_sentences_curr = << >>
  /\ pc \in {"paragraphs_tail", "sentences_tail"} => Ids(todo) \subseteq OldP
  /\ pc = "sentences" => Ids(todo) \subseteq NewP
  /\ pc = "words" => Ids(todo) \subseteq NewS
Wholes ==
  /\ pc # "paragraphs" => Len(curr) = Len(split_paragraphs[text])
  /\ \A p \in NewP : \/ pc \in {"paragraphs", "paragraphs_tail"}
                     \/ pc = "sentences" /\ p \in Ids(todo)
                     \/ ParagraphWhole(p)
  /\ \A s \in NewS : \/ pc \in {"sentences", "sentences_tail", "gate"}
                     \/ pc = "words" /\ s \in Ids(todo)
                     \/ SentenceWhole(s)
LoopInv == PrevLists /\ TodoIds /\ Wholes

MatchInv == StoredInOrder /\ ArticleInv /\ (pc # "idle" => WorkInv /\ LoopInv)
-----------------------------------------------------------------------------
(* Lists of ids. *)
LEMMA IdsOf ==
  ASSUME NEW S, NEW s \in Seq(S)
  PROVE  /\ Ids(s) = { s[i] : i \in 1 .. Len(s) } /\ Ids(s) \subseteq S
         /\ DOMAIN s = 1 .. Len(s) /\ Len(s) \in Nat
<1>1. DOMAIN s = 1 .. Len(s) /\ Len(s) \in Nat /\ \A i \in 1 .. Len(s) : s[i] \in S
  BY LenProperties
<1> QED BY <1>1 DEF Ids

LEMMA SeqOfIds ==
  ASSUME NEW S, NEW s \in Seq(S), NEW T, Ids(s) \subseteq T
  PROVE  s \in Seq(T)
<1>1. /\ Len(s) \in Nat /\ s \in [1 .. Len(s) -> S]
      /\ \A i \in 1 .. Len(s) : s[i] \in T
  BY IdsOf, LenProperties
<1>2. s \in [1 .. Len(s) -> T]
  BY <1>1
<1> QED BY <1>1, <1>2, SeqDef

LEMMA EmptyIds == Ids(<< >>) = {} /\ IsInjective(<< >>) /\ Len(<< >>) = 0 /\ DOMAIN << >> = {}
<1>1. << >> \in Seq({}) /\ Len(<< >>) = 0
  BY EmptySeq
<1>2. DOMAIN << >> = 1 .. 0
  BY <1>1, LenProperties
<1> QED BY <1>1, <1>2 DEF Ids, IsInjective

(* Taking the head off a list. *)
LEMMA IdsTail ==
  ASSUME NEW S, NEW s \in Seq(S), s # << >>
  PROVE  /\ Head(s) \in Ids(s) /\ Ids(Tail(s)) \subseteq Ids(s)
         /\ Ids(s) \subseteq Ids(Tail(s)) \cup {Head(s)}
<1>1. /\ Len(s) \in Nat \ {0} /\ DOMAIN s = 1 .. Len(s)
      /\ Head(s) = s[1]
  BY NonEmptySeq
<1>2. /\ Tail(s) \in Seq(S) /\ Len(Tail(s)) = Len(s) - 1
      /\ \A i \in 1 .. Len(Tail(s)) : Tail(s)[i] = s[i + 1]
      /\ DOMAIN Tail(s) = 1 .. Len(Tail(s))
  BY HeadTailProperties, LenProperties
<1>3. ASSUME NEW i \in 1 .. Len(s) PROVE s[i] \in Ids(Tail(s)) \cup {Head(s)}
  <2>1. CASE i = 1
    BY <1>1, <2>1
  <2>2. CASE i # 1
    <3>1. i - 1 \in 1 .. Len(Tail(s)) /\ (i - 1) + 1 = i
      BY <1>1, <1>2, <2>2
    <3>2. Tail(s)[i - 1] = s[i]
      BY <1>2, <3>1
    <3> QED BY <1>2, <3>1, <3>2 DEF Ids
  <2> QED BY <2>1, <2>2
<1>4. ASSUME NEW i \in 1 .. Len(Tail(s)) PROVE Tail(s)[i] \in Ids(s)
  <2>1. i + 1 \in 1 .. Len(s) /\ Tail(s)[i] = s[i + 1]
    BY <1>1, <1>2
  <2> QED BY <1>1, <2>1 DEF Ids
<1> QED BY <1>1, <1>2, <1>3, <1>4 DEF Ids

(* Lists without repetition. *)
LEMMA InjectiveAppend ==
  ASSUME NEW S, NEW s \in Seq(S), NEW x \in S, IsInjective(s), x \notin Ids(s)
  PROVE  IsInjective(Append(s, x))
<1>1. /\ \A i \in 1 .. Len(s) : Append(s, x)[i] = s[i]
      /\ Append(s, x)[Len(s) + 1] = x
      /\ DOMAIN Append(s, x) = 1 .. Len(s) + 1
      /\ DOMAIN s = 1 .. Len(s) /\ Len(s) \in Nat
  BY AppendProperties, LenProperties
<1> QED BY <1>1 DEF Ids, IsInjective

LEMMA InjectiveConcat ==
  ASSUME NEW S, NEW s \in Seq(S), NEW t \in Seq(S), IsInjective(s), IsInjective(t),
         Ids(t) \cap Ids(s) = {}
  PROVE  IsInjective(s \o t)
<1>1. /\ \A i \in 1 .. Len(s) + Len(t) :
           (s \o t)[i] = IF i <= Len(s) THEN s[i] ELSE t[i - Len(s)]
      /\ DOMAIN (s \o t) = 1 .. Len(s) + Len(t)
      /\ DOMAIN s = 1 .. Len(s) /\ Len(s) \in Nat
      /\ DOMAIN t = 1 .. Len(t) /\ Len(t) \in Nat
  BY ConcatProperties, LenProperties
<1> DEFINE c == s \o t
<1> SUFFICES ASSUME NEW i \in 1 .. Len(s) + Len(t), NEW j \in 1 .. Len(s) + Len(t), c[i] = c[j]
             PROVE  i = j
  BY <1>1 DEF IsInjective
<1>2. CASE i <= Len(s) /\ j <= Len(s)
  BY <1>1, <1>2 DEF IsInjective
<1>3. CASE i > Len(s) /\ j > Len(s)
  <2>1. i - Len(s) \in DOMAIN t /\ j - Len(s) \in DOMAIN t
    BY <1>1, <1>3
  <2>2. t[i - Len(s)] = t[j - Len(s)]
    BY <1>1, <1>3
  <2>3. i - Len(s) = j - Len(s)
    BY <2>1, <2>2 DEF IsInjective
  <2> QED BY <1>1, <2>3
<1>4. ASSUME NEW k \in 1 .. Len(s) + Len(t), NEW l \in 1 .. Len(s) + Len(t),
             k <= Len(s), l > Len(s)
      PROVE  c[k] # c[l]
  <2>1. k \in DOMAIN s /\ l - Len(s) \in DOMAIN t
    BY <1>1, <1>4
  <2>2. s[k] \in Ids(s) /\ t[l - Len(s)] \in Ids(t)
    BY <2>1 DEF Ids
  <2>3. c[k] = s[k] /\ c[l] = t[l - Len(s)]
    BY <1>1, <1>4
  <2> QED BY <2>2, <2>3
<1> QED BY <1>1, <1>2, <1>3, <1>4
-----------------------------------------------------------------------------
(* What the type invariant says of the lists the invariants speak of. *)
LEMMA Kinds ==
  ASSUME TypeOK
  PROVE  /\ paragraphs_ht \in Seq(Pids) /\ sentences_ht \in Seq(Sids)
         /\ unmatched_paragraphs_curr \in Seq(Pids) /\ unmatched_sentences_curr \in Seq(Sids)
         /\ unmatched_paragraphs_prev \in Seq(Pids) /\ unmatched_sentences_prev \in Seq(Sids)
         /\ curr \in Seq(Pids) /\ todo \in Seq(Nat)
         /\ Len(paragraphs) \in Nat /\ Len(sentences) \in Nat /\ Len(words) \in Nat
         /\ \A p \in Pids : paragraphs[p].sentences \in Seq(Sids)
         /\ \A s \in Sids : sentences[s].words \in Seq(Tids)
BY LenProperties DEF TypeOK, ArenasOK, StoreOK, InputOK, ListsOK, LoopOK

LEMMA Allocated ==
  ASSUME TypeOK
  PROVE  /\ OldP \subseteq Pids /\ NewP \subseteq Pids /\ Ids(curr) \subseteq Pids
         /\ OldS \subseteq Sids /\ NewS \subseteq Sids
         /\ \A r \in RevId : Ids(revisions[r].paragraphs) \subseteq Pids
<1>1. \A r \in RevId : revisions[r].paragraphs \in Seq(Pids)
  BY DEF TypeOK, StoreOK
<1> QED BY <1>1, Kinds, IdsOf DEF OldP, OldS, NewP, NewS

(* The sentences of the paragraphs the article knows are known to it, and  *)
(* so are the paragraphs of the revision matching starts from.             *)
LEMMA KnownParts ==
  ASSUME TypeOK, StoredInOrder, HashTablesSound
  PROVE  /\ \A p \in OldP : ParagraphSentences(p) \subseteq OldS
         /\ \A p \in OldP : ParagraphTokens(p) \subseteq OldT
         /\ \A r \in Stored : Ids(revisions[r].paragraphs) \subseteq OldP
         /\ Ids(revision_prev.paragraphs) \subseteq OldP
<1>1. OldP = UNION { Ids(revisions[r].paragraphs) : r \in Stored }
      /\ OldS = UNION { ParagraphSentences(p) : p \in OldP }
  BY DEF HashTablesSound, OldP, OldS
<1>2. \A p \in OldP : ParagraphSentences(p) \subseteq OldS
  BY <1>1
<1>3. \A r \in Stored : Ids(revisions[r].paragraphs) \subseteq OldP
  BY <1>1
<1>4. \A p \in OldP : ParagraphTokens(p) \subseteq OldT
  BY <1>2 DEF ParagraphTokens, OldT
<1> QED BY <1>2, <1>3, <1>4, EmptyIds DEF StoredInOrder, revision_prev

(* A scan reaches nothing but what the article knows. *)
LEMMA KnownParagraphs ==
  ASSUME TypeOK, StoredInOrder, HashTablesSound, NEW c \in Places(ParagraphRows)
  PROVE  At(ParagraphRows, c) \in OldP
<1>1. revision_prev.paragraphs \in Seq(Pids) /\ paragraphs_ht \in Seq(Pids)
  BY DEF TypeOK, StoreOK, revision_prev
<1>2. revision_prev.paragraphs \in Seq(OldP) /\ paragraphs_ht \in Seq(OldP)
  BY <1>1, KnownParts, SeqOfIds DEF OldP
<1>3. \A i \in DOMAIN ParagraphRows : ParagraphRows[i] \in Seq(OldP)
  BY <1>2 DEF ParagraphRows
<1> QED BY <1>3, PlaceIn

LEMMA KnownSentences ==
  ASSUME TypeOK, StoredInOrder, HashTablesSound, PrevLists, NEW c \in Places(SentenceRows)
  PROVE  At(SentenceRows, c) \in OldS
<1> USE DEF SentenceRows
<1>1. sentences_ht \in Seq(OldS)
  BY Kinds, SeqOfIds DEF OldS
<1>2. ASSUME NEW i \in 1 .. Len(unmatched_paragraphs_prev)
      PROVE  paragraphs[unmatched_paragraphs_prev[i]].sentences \in Seq(OldS)
  <2> DEFINE p == unmatched_paragraphs_prev[i]
  <2>1. p \in OldP /\ p \in Pids
    BY Kinds, IdsOf, Allocated DEF PrevLists
  <2>2. Ids(paragraphs[p].sentences) \subseteq OldS
    BY <2>1, KnownParts DEF ParagraphSentences, Ids
  <2> QED BY <2>1, <2>2, Kinds, SeqOfIds
<1>3. Len(unmatched_paragraphs_prev) \in Nat
  BY Kinds, LenProperties
<1>4. \A i \in DOMAIN SentenceRows : SentenceRows[i] \in Seq(OldS)
  BY <1>1, <1>2, <1>3
<1> HIDE DEF SentenceRows
<1> QED BY <1>4, PlaceIn

LEMMA KnownWords ==
  ASSUME TypeOK, PrevLists, NEW c \in Places(PrevRows)
  PROVE  At(PrevRows, c) \in OldT
<1>1. ASSUME NEW i \in DOMAIN unmatched_sentences_prev
      PROVE  sentences[unmatched_sentences_prev[i]].words \in Seq(OldT)
  <2> DEFINE s == unmatched_sentences_prev[i]
  <2>1. s \in OldS /\ s \in Sids
    BY Kinds, IdsOf, Allocated DEF PrevLists
  <2>2. Ids(sentences[s].words) \subseteq OldT
    BY <2>1 DEF OldT, SentenceTokens, Ids
  <2> QED BY <2>1, <2>2, Kinds, SeqOfIds
<1>2. \A i \in DOMAIN PrevRows : PrevRows[i] \in Seq(OldT)
  BY <1>1 DEF PrevRows
<1> QED BY <1>2, PlaceIn
-----------------------------------------------------------------------------
(* Steps that leave what the article knows alone. *)
KnownAlone ==
  /\ UNCHANGED <<paragraphs_ht, sentences_ht, revisions, ordered_revisions>>
  /\ \A p \in OldP : paragraphs'[p] = paragraphs[p]
  /\ \A s \in OldS : sentences'[s] = sentences[s]
  /\ \A w \in Tids : words'[w].value = words[w].value

(* A sentence or a paragraph that stands has the tokens it had. *)
LEMMA SameSentence ==
  ASSUME NEW s, sentences'[s] = sentences[s]
  PROVE  SentenceTokens(s)' = SentenceTokens(s)
BY DEF SentenceTokens

LEMMA SameKnown ==
  ASSUME TypeOK, StoredInOrder, HashTablesSound, KnownAlone
  PROVE  /\ OldP' = OldP /\ OldS' = OldS /\ OldT' = OldT /\ Stored' = Stored
         /\ \A s \in OldS : SentenceTokens(s)' = SentenceTokens(s)
         /\ \A p \in OldP : ParagraphSentences(p)' = ParagraphSentences(p)
         /\ \A p \in OldP : ParagraphTokens(p)' = ParagraphTokens(p)
<1>1. OldP' = OldP /\ OldS' = OldS /\ Stored' = Stored
  BY DEF KnownAlone, OldP, OldS, Stored, Ids
<1>2. \A s \in OldS : SentenceTokens(s)' = SentenceTokens(s)
  BY DEF KnownAlone, SentenceTokens
<1>3. \A p \in OldP : ParagraphSentences(p)' = ParagraphSentences(p)
  BY DEF KnownAlone, ParagraphSentences
<1>4. \A p \in OldP : ParagraphSentences(p) \subseteq OldS
  BY KnownParts
<1>5. \A p \in OldP : ParagraphTokens(p)' = ParagraphTokens(p)
  BY <1>2, <1>3, <1>4 DEF ParagraphTokens
<1>6. OldT' = OldT
  BY <1>1, <1>2 DEF OldT
<1> QED BY <1>1, <1>2, <1>3, <1>5, <1>6

(* What spells a hash goes on doing so while its ids stand. *)
LEMMA SentenceStands ==
  ASSUME TypeOK, NEW s \in Sids, sentences'[s] = sentences[s],
         \A w \in Tids : words'[w].value = words[w].value
  PROVE  /\ SentencePart(s) => SentencePart(s)'
         /\ SentenceWhole(s) => SentenceWhole(s)'
<1>1. \A k \in DOMAIN sentences[s].words : sentences[s].words[k] \in Tids
  BY Kinds, LenProperties
<1> QED BY <1>1 DEF SentencePart, SentenceWhole

LEMMA ParagraphStands ==
  ASSUME TypeOK, NEW p \in Pids, paragraphs'[p] = paragraphs[p],
         \A s \in Sids : sentences'[s].hash_value = sentences[s].hash_value
  PROVE  /\ ParagraphPart(p) => ParagraphPart(p)'
         /\ ParagraphWhole(p) => ParagraphWhole(p)'
<1>1. \A j \in DOMAIN paragraphs[p].sentences : paragraphs[p].sentences[j] \in Sids
  BY Kinds, LenProperties
<1> QED BY <1>1 DEF ParagraphPart, ParagraphWhole

LEMMA KnownStands ==
  ASSUME TypeOK, StoredInOrder, ArticleInv, KnownAlone
  PROVE  ArticleInv'
<1> USE DEF ArticleInv
<1>1. /\ OldP' = OldP /\ OldS' = OldS /\ Stored' = Stored
      /\ \A s \in OldS : SentenceTokens(s)' = SentenceTokens(s)
      /\ \A p \in OldP : ParagraphSentences(p)' = ParagraphSentences(p)
      /\ \A p \in OldP : ParagraphTokens(p)' = ParagraphTokens(p)
      /\ revisions' = revisions /\ paragraphs_ht' = paragraphs_ht /\ sentences_ht' = sentences_ht
  BY SameKnown DEF KnownAlone
<1>2. /\ OldP \subseteq Pids /\ OldS \subseteq Sids
      /\ \A p \in OldP : ParagraphSentences(p) \subseteq OldS
      /\ \A r \in Stored : Ids(revisions[r].paragraphs) \subseteq OldP
  BY Allocated, KnownParts
<1>3. HashTablesSound'
  <2>1. OldP' = UNION { Ids(revisions'[r].paragraphs) : r \in Stored' }
    BY <1>1 DEF HashTablesSound, OldP
  <2>2. OldS' = UNION { ParagraphSentences(p)' : p \in OldP' }
    BY <1>1 DEF HashTablesSound, OldP, OldS
  <2> QED BY <1>1, <2>1, <2>2 DEF HashTablesSound, OldP, OldS
<1>4. StoredSpelled'
  <2>1. \A s \in OldS : SentenceWhole(s)'
    BY <1>2, SentenceStands DEF StoredSpelled, KnownAlone
  <2>2. ASSUME NEW p \in OldP PROVE ParagraphWhole(p)'
    <3>1. paragraphs'[p] = paragraphs[p] /\ ParagraphWhole(p)
      BY DEF KnownAlone, StoredSpelled
    <3>2. \A j \in DOMAIN paragraphs[p].sentences : paragraphs[p].sentences[j] \in OldS
      BY <1>2 DEF ParagraphSentences
    <3> QED BY <3>1, <3>2 DEF ParagraphWhole, ParagraphPart, KnownAlone
  <2>3. ASSUME NEW r \in Stored
        PROVE  TextPart(revisions[r].paragraphs, revisions[r].text)'
    <3>1. \A i \in DOMAIN revisions[r].paragraphs : revisions[r].paragraphs[i] \in OldP
      BY <1>2 DEF Ids
    <3> QED BY <1>1, <3>1 DEF StoredSpelled, TextPart, KnownAlone
  <2> QED BY <1>1, <2>1, <2>2, <2>3 DEF StoredSpelled
<1>5. StoredDistinct'
  <2>1. ASSUME NEW r \in Stored PROVE Separate(Ids(revisions[r].paragraphs))'
    <3> DEFINE P == Ids(revisions[r].paragraphs)
    <3>1. P' = P /\ P \subseteq OldP /\ Separate(P)
      BY <1>1, <1>2 DEF StoredDistinct
    <3> HIDE DEF P
    <3>2. /\ \A p \in P : paragraphs'[p] = paragraphs[p]
          /\ \A p \in P : ParagraphSentences(p)' = ParagraphSentences(p)
          /\ \A p \in P : ParagraphTokens(p)' = ParagraphTokens(p)
      BY <1>1, <3>1 DEF KnownAlone
    <3>3. \A p \in P : \A s \in ParagraphSentences(p) :
            sentences'[s] = sentences[s] /\ SentenceTokens(s)' = SentenceTokens(s)
      BY <1>1, <1>2, <3>1 DEF KnownAlone
    <3>4. Separate(P)'
      BY <3>1, <3>2, <3>3 DEF Separate
    <3> QED BY <3>1, <3>4 DEF P
  <2> QED BY <1>1, <2>1 DEF StoredDistinct
<1> QED BY <1>3, <1>4, <1>5
-----------------------------------------------------------------------------
LEMMA MatchInit == Init => MatchInv
<1> SUFFICES ASSUME Init PROVE MatchInv
  OBVIOUS
<1>1. Stored = {} /\ OldP = {} /\ OldS = {}
  BY EmptyIds DEF Init, Stored, OldP, OldS
<1>2. StoredInOrder
  BY <1>1, BoundAssumption DEF Init, StoredInOrder, DefaultRevision, RevId
<1>3. HashTablesSound
  BY <1>1, EmptyIds DEF Init, HashTablesSound, OldP, OldS
<1>4. StoredSpelled /\ StoredDistinct
  BY <1>1 DEF StoredSpelled, StoredDistinct
<1> QED BY <1>2, <1>3, <1>4 DEF Init, MatchInv, ArticleInv

LEMMA ArrivalMatch ==
  ASSUME TypeOK, MatchInv, NEW t \in Text, NEW move \in BOOLEAN,
         HashMatch(t) \/ LengthShrink(t, move) \/ BeginCascade(t, move)
  PROVE  MatchInv'
<1>1. ArticleInv'
  BY KnownStands DEF KnownAlone, HashMatch, LengthShrink, BeginCascade, MatchInv
<1>2. /\ rev_id \in Nat /\ rev_id' = rev_id + 1 /\ rev_id < MaxRevisions /\ Stored' = Stored
      /\ revisions' = revisions /\ last_good_rev_id' = last_good_rev_id
  BY DEF HashMatch, LengthShrink, BeginCascade, Arrives, Stored, Ids, TypeOK, InputOK, RevId
<1>3. StoredInOrder'
  BY <1>2, BoundAssumption DEF MatchInv, StoredInOrder
<1>4. CASE HashMatch(t) \/ LengthShrink(t, move)
  <2>1. pc' = "idle"
    BY <1>4 DEF HashMatch, LengthShrink, Arrives
  <2> QED BY <1>1, <1>3, <2>1 DEF MatchInv
<1>5. CASE BeginCascade(t, move)
  <2>1. /\ pc' = "paragraphs" /\ text' \in Text /\ curr' = << >> /\ matchedP' = {}
        /\ unmatched_paragraphs_prev' = << >> /\ unmatched_paragraphs_curr' = << >>
        /\ unmatched_sentences_prev' = << >> /\ unmatched_sentences_curr' = << >>
        /\ todo' = << >>
    BY <1>5 DEF BeginCascade
  <2>2. NewP' = {} /\ NewS' = {} /\ Ids(curr') = {} /\ SentencesOf(NewP)' = {}
        /\ TokensOf(Ids(curr))' = {}
    BY <2>1, EmptyIds DEF NewP, NewS, SentencesOf, TokensOf
  <2>3. Len(split_paragraphs[text']) \in Nat
    BY <2>1, SplitAssumption, LenProperties
  <2>4. NewIds' /\ InUse' /\ Parts'
    BY <2>1, <2>2, <2>3, EmptyIds DEF NewIds, InUse, Parts, TextPart
  <2>5. Apart'
    BY <2>1, <2>2, EmptyIds DEF Apart, Separate
  <2>6. LoopInv'
    BY <2>1, <2>2, EmptyIds DEF LoopInv, PrevLists, TodoIds, Wholes
  <2> QED BY <1>1, <1>3, <2>4, <2>5, <2>6 DEF MatchInv, WorkInv
<1> QED BY <1>4, <1>5

(* Steps that build nothing: the loops' own, and those of the recorder. *)
BuildsNothing ==
  /\ UNCHANGED <<paragraphs, sentences, paragraphs_ht, sentences_ht, revisions,
                 ordered_revisions, last_good_rev_id, rev_id, text, curr,
                 unmatched_paragraphs_curr, unmatched_sentences_curr, matchedP>>
  /\ \A w \in Tids : words'[w].value = words[w].value
  /\ matchedS \subseteq matchedS' /\ matchedT \subseteq matchedT'
  /\ pc # "idle"

LEMMA WorkStands ==
  ASSUME TypeOK, MatchInv, BuildsNothing
  PROVE  /\ StoredInOrder' /\ ArticleInv' /\ WorkInv'
         /\ OldP' = OldP /\ OldS' = OldS /\ NewP' = NewP /\ NewS' = NewS
         /\ \A s \in Sids : SentenceWhole(s) => SentenceWhole(s)'
         /\ \A p \in Pids : ParagraphWhole(p) => ParagraphWhole(p)'
<1>1. KnownAlone
  BY DEF BuildsNothing, KnownAlone
<1>2. /\ OldP' = OldP /\ OldS' = OldS /\ OldT' = OldT /\ NewP' = NewP /\ NewS' = NewS
      /\ Stored' = Stored /\ ArticleInv'
  BY <1>1, SameKnown, KnownStands DEF BuildsNothing, MatchInv, ArticleInv, NewP, NewS, Ids
<1>3. StoredInOrder'
  BY <1>2 DEF MatchInv, StoredInOrder, BuildsNothing
<1>4. /\ \A s \in Sids : SentencePart(s) => SentencePart(s)'
      /\ \A s \in Sids : SentenceWhole(s) => SentenceWhole(s)'
  BY SentenceStands DEF BuildsNothing
<1>5. /\ \A p \in Pids : ParagraphPart(p) => ParagraphPart(p)'
      /\ \A p \in Pids : ParagraphWhole(p) => ParagraphWhole(p)'
  BY ParagraphStands DEF BuildsNothing
<1>6. /\ \A p : ParagraphSentences(p)' = ParagraphSentences(p)
      /\ \A s : SentenceTokens(s)' = SentenceTokens(s)
  BY DEF BuildsNothing, ParagraphSentences, SentenceTokens
<1>7. \A p : ParagraphTokens(p)' = ParagraphTokens(p)
  BY <1>6 DEF ParagraphTokens
<1>8. SentencesOf(NewP)' = SentencesOf(NewP) /\ TokensOf(Ids(curr))' = TokensOf(Ids(curr))
  BY <1>2, <1>6, <1>7 DEF SentencesOf, TokensOf, BuildsNothing, Ids
<1>9. WorkInv
  BY DEF MatchInv, BuildsNothing
<1>10. NewIds' /\ InUse'
  BY <1>2, <1>8, <1>9 DEF WorkInv, NewIds, InUse, BuildsNothing, Ids
<1>11. Parts'
  <2>1. TextPart(curr, text)'
    BY <1>9 DEF WorkInv, Parts, TextPart, BuildsNothing
  <2> QED BY <1>2, <1>4, <1>5, <1>9, <2>1, Allocated DEF WorkInv, Parts
<1>12. Separate(Ids(curr))'
  BY <1>6, <1>7, <1>9 DEF WorkInv, Apart, Separate, BuildsNothing, Ids
<1>13. Apart'
  <2>1. Ids(curr') = Ids(curr) /\ matchedP' = matchedP /\ IsInjective(curr')
        /\ matchedS \subseteq matchedS' /\ matchedT \subseteq matchedT'
    BY <1>9 DEF WorkInv, Apart, BuildsNothing
  <2>2. \A p, q \in NewP : p # q => ParagraphSentences(p)' \cap ParagraphSentences(q)' = {}
    BY <1>6, <1>9 DEF WorkInv, Apart
  <2>3. /\ SentencesOf(NewP) \cap OldS \subseteq matchedS'
        /\ TokensOf(Ids(curr)) \cap OldT \subseteq matchedT'
        /\ matchedP' \subseteq OldP /\ Ids(curr') \cap OldP \subseteq matchedP'
    BY <1>9, <2>1 DEF WorkInv, Apart
  <2> QED BY <1>2, <1>8, <1>12, <2>1, <2>2, <2>3 DEF Apart
<1> QED BY <1>2, <1>3, <1>4, <1>5, <1>10, <1>11, <1>13 DEF WorkInv

(* The value of a word is never rewritten. *)
LEMMA ValuesStand ==
  ASSUME TypeOK,
         \/ \E s : PushOutbound(s)
         \/ RecordInbound
         \/ \E i \in DOMAIN diff : DeleteEntry(i)
  PROVE  \A w \in Tids : words'[w].value = words[w].value
<1>1. /\ words \in Seq(Word) /\ DOMAIN words = Tids
      /\ \A w \in Tids : words[w] \in Word
  BY LenProperties DEF TypeOK, ArenasOK, Tids
<1>2. ASSUME NEW s, PushOutbound(s), NEW w \in Tids PROVE words'[w].value = words[w].value
  BY <1>1, <1>2 DEF PushOutbound, Word
<1>3. ASSUME RecordInbound, NEW w \in Tids PROVE words'[w].value = words[w].value
  <2>1. words'[w] \in {words[w], UpdateInbound(w)}
    BY <1>1, <1>3 DEF RecordInbound
  <2> QED BY <1>1, <2>1 DEF UpdateInbound, Word
<1>4. ASSUME NEW i \in DOMAIN diff, DeleteEntry(i), NEW w \in Tids
      PROVE  words'[w].value = words[w].value
  <2>1. PICK c \in Places(PrevRows) :
          words' = [words EXCEPT ![At(PrevRows, c)] = [words[At(PrevRows, c)] EXCEPT !.outbound = Append(@, rev_id)]]
    BY <1>4 DEF DeleteEntry
  <2>2. At(PrevRows, c) \in Tids
    BY PrevRowsType
  <2> DEFINE v == At(PrevRows, c)
             new == [words[v] EXCEPT !.outbound = Append(@, rev_id)]
  <2>3. new.value = words[v].value
    BY <1>1, <2>2 DEF Word
  <2>4. words' = [words EXCEPT ![v] = new]
    BY <2>1
  <2> HIDE DEF v, new
  <2> QED BY <1>1, <2>3, <2>4
<1> QED BY <1>2, <1>3, <1>4

(* The ends and the tails of the paragraph and sentence loops. *)
LEMMA ParagraphLoopsMatch ==
  ASSUME TypeOK, MatchInv, EndParagraphs \/ TailParagraph \/ EndParagraphsTail
  PROVE  MatchInv'
<1>1. BuildsNothing /\ pc' # "idle"
  BY DEF BuildsNothing, EndParagraphs, TailParagraph, EndParagraphsTail
<1>2. /\ StoredInOrder' /\ ArticleInv' /\ WorkInv'
      /\ OldP' = OldP /\ OldS' = OldS /\ NewP' = NewP /\ NewS' = NewS
      /\ pc \in {"paragraphs", "paragraphs_tail"} /\ LoopInv
      /\ unmatched_sentences_prev' = unmatched_sentences_prev
      /\ unmatched_sentences_curr' = unmatched_sentences_curr /\ unmatched_sentences_curr = << >>
      /\ NewS = {}
  BY <1>1, WorkStands, EmptyIds
     DEF EndParagraphs, TailParagraph, EndParagraphsTail, MatchInv, LoopInv, TodoIds, NewS
<1>3. CASE EndParagraphs
  <2>1. /\ pc' = "paragraphs_tail" /\ todo' = revision_prev.paragraphs
        /\ Len(curr') = Len(split_paragraphs[text'])
        /\ unmatched_paragraphs_prev' = unmatched_paragraphs_prev
    BY <1>3 DEF EndParagraphs
  <2>2. Ids(todo') \subseteq OldP
    BY <2>1, KnownParts DEF MatchInv, ArticleInv
  <2>3. LoopInv'
    BY <1>2, <2>1, <2>2 DEF LoopInv, PrevLists, TodoIds, Wholes
  <2> QED BY <1>1, <1>2, <2>3 DEF MatchInv
<1>4. CASE TailParagraph
  <2>1. /\ todo \in Seq(Pids) /\ todo # << >> /\ Ids(todo) \subseteq OldP /\ todo' = Tail(todo)
        /\ pc' = "paragraphs_tail" /\ UNCHANGED <<curr, text>> /\ pc = "paragraphs_tail"
    BY <1>2, <1>4 DEF TailParagraph, TypeOK, LoopOK, LoopInv, TodoIds
  <2>2. Head(todo) \in OldP /\ Head(todo) \in Pids /\ Ids(todo') \subseteq OldP
    BY <2>1, IdsTail, TailType
  <2>3. Ids(unmatched_paragraphs_prev') \subseteq Ids(unmatched_paragraphs_prev) \cup {Head(todo)}
    BY <1>4, <2>2, Kinds, IdsAppend DEF TailParagraph
  <2>4. LoopInv'
    BY <1>2, <2>1, <2>2, <2>3 DEF LoopInv, PrevLists, TodoIds, Wholes
  <2> QED BY <1>1, <1>2, <2>4 DEF MatchInv
<1>5. CASE EndParagraphsTail
  <2>1. /\ pc' = IF unmatched_paragraphs_curr = << >> THEN "record" ELSE "sentences"
        /\ todo' = unmatched_paragraphs_curr /\ pc = "paragraphs_tail"
        /\ UNCHANGED <<curr, text, unmatched_paragraphs_prev>>
    BY <1>5 DEF EndParagraphsTail
  <2>2. Ids(todo') = NewP /\ (pc' = "record" => NewP = {})
    BY <2>1, EmptyIds DEF NewP
  <2>3. LoopInv'
    BY <1>2, <2>1, <2>2 DEF LoopInv, PrevLists, TodoIds, Wholes
  <2> QED BY <1>1, <1>2, <2>3 DEF MatchInv
<1> QED BY <1>3, <1>4, <1>5

LEMMA SentenceLoopsMatch ==
  ASSUME TypeOK, MatchInv,
         NextParagraph \/ EndSentences \/ TailSentence \/ NextTailParagraph \/ EndSentencesTail
  PROVE  MatchInv'
<1>1. BuildsNothing /\ pc' # "idle"
  BY DEF BuildsNothing, NextParagraph, EndSentences, TailSentence, NextTailParagraph,
     EndSentencesTail
<1>2. /\ StoredInOrder' /\ ArticleInv' /\ WorkInv'
      /\ OldP' = OldP /\ OldS' = OldS /\ NewP' = NewP /\ NewS' = NewS
      /\ \A p \in Pids : ParagraphWhole(p) => ParagraphWhole(p)'
      /\ WorkInv /\ LoopInv
      /\ UNCHANGED <<curr, text, unmatched_paragraphs_prev, unmatched_paragraphs_curr,
                     unmatched_sentences_curr>>
      /\ NewP \subseteq Pids /\ todo \in Seq(Pids)
  <2>1. todo \in Seq(Pids) /\ pc # "idle"
    BY DEF NextParagraph, EndSentences, TailSentence, NextTailParagraph,
       EndSentencesTail, TypeOK, LoopOK
  <2>2. /\ \A p \in Pids : ParagraphWhole(p) => ParagraphWhole(p)'
        /\ StoredInOrder' /\ ArticleInv' /\ WorkInv'
        /\ OldP' = OldP /\ OldS' = OldS /\ NewP' = NewP /\ NewS' = NewS
    BY <1>1, WorkStands
  <2>3. UNCHANGED <<curr, text, unmatched_paragraphs_prev, unmatched_paragraphs_curr,
                    unmatched_sentences_curr>>
    BY DEF NextParagraph, EndSentences, TailSentence, NextTailParagraph, EndSentencesTail
  <2> QED BY <2>1, <2>2, <2>3, Allocated DEF MatchInv
<1>3. CASE NextParagraph
  <2>1. /\ todo # << >> /\ todo' = Tail(todo) /\ pc = "sentences" /\ pc' = "sentences"
        /\ unmatched_sentences_prev' = unmatched_sentences_prev /\ ~ MoreSentences
    BY <1>3 DEF NextParagraph
  <2>2. /\ Head(todo) \in Ids(todo) /\ Ids(todo') \subseteq Ids(todo)
        /\ Ids(todo) \subseteq Ids(todo') \cup {Head(todo)} /\ Ids(todo) \subseteq NewP
    BY <1>2, <2>1, IdsTail DEF LoopInv, TodoIds
  <2>3. ParagraphWhole(Head(todo))
    <3>1. ParagraphPart(Head(todo)) /\ Head(todo) \in Pids
      BY <1>2, <2>2 DEF WorkInv, Parts
    <3>2. paragraphs[Head(todo)].sentences \in Seq(Sids) /\ paragraphs[Head(todo)] \in Paragraph
      BY <3>1, Kinds, ElementOfSeq DEF TypeOK, ArenasOK, Pids
    <3>3. split_sentences[paragraphs[Head(todo)].hash_value] \in Seq(SentenceHash)
      BY <3>2, SplitAssumption DEF Paragraph
    <3> QED BY <2>1, <3>1, <3>2, <3>3, LenProperties
         DEF ParagraphWhole, ParagraphPart, MoreSentences, CurrentParagraph
  <2>4. LoopInv'
    BY <1>2, <2>1, <2>2, <2>3 DEF LoopInv, PrevLists, TodoIds, Wholes
  <2> QED BY <1>1, <1>2, <2>4 DEF MatchInv
<1>4. CASE EndSentences
  <2>1. /\ todo = << >> /\ todo' = unmatched_paragraphs_prev
        /\ pc = "sentences" /\ pc' = "sentences_tail"
        /\ unmatched_sentences_prev' = unmatched_sentences_prev
    BY <1>4 DEF EndSentences
  <2>2. LoopInv'
    BY <1>2, <2>1, EmptyIds DEF LoopInv, PrevLists, TodoIds, Wholes
  <2> QED BY <1>1, <1>2, <2>2 DEF MatchInv
<1>5. CASE TailSentence
  <2> DEFINE s == CurrentParagraph.sentences[pos]
  <2>1. /\ pc = "sentences_tail" /\ pc' = pc /\ todo' = todo /\ todo # << >>
        /\ unmatched_sentences_prev' \in {unmatched_sentences_prev,
                                          Append(unmatched_sentences_prev, s)}
        /\ pos <= Len(CurrentParagraph.sentences)
    BY <1>5 DEF TailSentence
  <2>2. Head(todo) \in OldP /\ Head(todo) \in Pids
    BY <1>2, <2>1, IdsTail, TailType DEF LoopInv, TodoIds
  <2>3. pos \in DOMAIN paragraphs[Head(todo)].sentences
    <3>1. /\ DOMAIN paragraphs[Head(todo)].sentences = 1 .. Len(paragraphs[Head(todo)].sentences)
          /\ Len(paragraphs[Head(todo)].sentences) \in Nat /\ pos \in Nat \ {0}
      BY <2>2, Kinds, LenProperties DEF TypeOK, LoopOK
    <3> QED BY <2>1, <3>1 DEF CurrentParagraph
  <2>4. s \in OldS /\ s \in Sids
    BY <2>2, <2>3, KnownParts, Allocated DEF CurrentParagraph, ParagraphSentences, MatchInv, ArticleInv
  <2> HIDE DEF s
  <2>5. Ids(unmatched_sentences_prev') \subseteq OldS
    <3>1. Ids(Append(unmatched_sentences_prev, s)) = Ids(unmatched_sentences_prev) \cup {s}
      BY <2>4, Kinds, IdsAppend
    <3> QED BY <1>2, <2>1, <2>4, <3>1 DEF LoopInv, PrevLists
  <2>6. LoopInv'
    BY <1>2, <2>1, <2>5 DEF LoopInv, PrevLists, TodoIds, Wholes
  <2> QED BY <1>1, <1>2, <2>6 DEF MatchInv
<1>6. CASE NextTailParagraph
  <2>1. /\ pc = "sentences_tail" /\ pc' = pc /\ todo' = Tail(todo) /\ todo # << >>
        /\ unmatched_sentences_prev' = unmatched_sentences_prev
    BY <1>6 DEF NextTailParagraph
  <2>2. Ids(todo') \subseteq OldP
    BY <1>2, <2>1, IdsTail DEF LoopInv, TodoIds
  <2>3. LoopInv'
    BY <1>2, <2>1, <2>2 DEF LoopInv, PrevLists, TodoIds, Wholes
  <2> QED BY <1>1, <1>2, <2>3 DEF MatchInv
<1>7. CASE EndSentencesTail
  <2>1. /\ pc = "sentences_tail" /\ unmatched_sentences_prev' = unmatched_sentences_prev
        /\ pc' = IF unmatched_sentences_curr = << >> THEN "record" ELSE "gate"
        /\ (pc' = "record" => NewS = {})
    BY <1>7, EmptyIds DEF EndSentencesTail, NewS
  <2>2. LoopInv'
    BY <1>2, <2>1 DEF LoopInv, PrevLists, TodoIds, Wholes
  <2> QED BY <1>1, <1>2, <2>2 DEF MatchInv
<1> QED BY <1>3, <1>4, <1>5, <1>6, <1>7

LEMMA GateMatch ==
  ASSUME TypeOK, MatchInv, DenseVandalism \/ InsertionOnly \/ StartDiff
  PROVE  MatchInv'
<1>1. CASE DenseVandalism
  <2>1. ArticleInv'
    BY <1>1, KnownStands DEF KnownAlone, DenseVandalism, MatchInv
  <2>2. StoredInOrder' /\ pc' = "idle"
    BY <1>1 DEF DenseVandalism, MatchInv, StoredInOrder, Stored, Ids
  <2> QED BY <2>1, <2>2 DEF MatchInv
<1>2. CASE InsertionOnly \/ StartDiff
  <2>1. BuildsNothing /\ pc' = "words" /\ pc = "gate" /\ todo' = unmatched_sentences_curr
        /\ UNCHANGED <<curr, text, unmatched_paragraphs_prev, unmatched_sentences_prev>>
    BY <1>2 DEF BuildsNothing, InsertionOnly, StartDiff
  <2>2. /\ StoredInOrder' /\ ArticleInv' /\ WorkInv' /\ LoopInv
        /\ OldP' = OldP /\ OldS' = OldS /\ NewP' = NewP /\ NewS' = NewS
        /\ \A p \in Pids : ParagraphWhole(p) => ParagraphWhole(p)'
        /\ NewP \subseteq Pids
    BY <2>1, WorkStands, Allocated DEF MatchInv
  <2>3. LoopInv'
    BY <2>1, <2>2 DEF LoopInv, PrevLists, TodoIds, Wholes, NewS
  <2> QED BY <2>1, <2>2, <2>3 DEF MatchInv
<1> QED BY <1>1, <1>2

(* The ends of the word loop, and the entry that deletes a word. *)
LEMMA WordLoopsMatch ==
  ASSUME TypeOK, MatchInv,
         NextSentence \/ EndWords \/ \E i \in DOMAIN diff : DeleteEntry(i)
  PROVE  MatchInv'
<1>1. /\ pc = "words"
      /\ UNCHANGED <<paragraphs, sentences, paragraphs_ht, sentences_ht, revisions,
                     ordered_revisions, last_good_rev_id, rev_id, text, curr,
                     unmatched_paragraphs_curr, unmatched_sentences_curr, matchedP, matchedS,
                     unmatched_paragraphs_prev, unmatched_sentences_prev>>
      /\ matchedT \subseteq matchedT'
  BY DEF NextSentence, EndWords, DeleteEntry, InWordLoop
<1>2. \A w \in Tids : words'[w].value = words[w].value
  BY ValuesStand DEF NextSentence, EndWords
<1>3. BuildsNothing
  BY <1>1, <1>2 DEF BuildsNothing
<1>4. /\ StoredInOrder' /\ ArticleInv' /\ WorkInv' /\ WorkInv /\ LoopInv
      /\ OldP' = OldP /\ OldS' = OldS /\ NewP' = NewP /\ NewS' = NewS
      /\ \A p \in Pids : ParagraphWhole(p) => ParagraphWhole(p)'
      /\ \A s \in Sids : SentenceWhole(s) => SentenceWhole(s)'
      /\ NewP \subseteq Pids /\ NewS \subseteq Sids
  BY <1>1, <1>3, WorkStands, Allocated DEF MatchInv
<1>5. CASE NextSentence
  <2>1. todo # << >> /\ todo' = Tail(todo) /\ pc' = "words" /\ ~ MoreWords
    BY <1>5 DEF NextSentence
  <2>2. /\ Head(todo) \in Ids(todo) /\ Ids(todo') \subseteq Ids(todo)
        /\ Ids(todo) \subseteq Ids(todo') \cup {Head(todo)} /\ Ids(todo) \subseteq NewS
    BY <1>1, <1>4, <2>1, IdsTail, Kinds DEF LoopInv, TodoIds
  <2>3. SentenceWhole(Head(todo))
    <3>1. SentencePart(Head(todo)) /\ Head(todo) \in Sids
      BY <1>4, <2>2 DEF WorkInv, Parts
    <3>2. sentences[Head(todo)].words \in Seq(Tids) /\ sentences[Head(todo)] \in Sentence
      BY <3>1, Kinds, ElementOfSeq DEF TypeOK, ArenasOK, Sids
    <3>3. split_tokens[sentences[Head(todo)].hash_value] \in Seq(Token)
      BY <3>2, SplitAssumption DEF Sentence
    <3> QED BY <2>1, <3>1, <3>2, <3>3, LenProperties
         DEF SentenceWhole, SentencePart, MoreWords, CurrentSentence
  <2>4. LoopInv'
    BY <1>1, <1>4, <2>1, <2>2, <2>3 DEF LoopInv, PrevLists, TodoIds, Wholes
  <2> QED BY <1>4, <2>4 DEF MatchInv
<1>6. CASE EndWords
  <2>1. todo = << >> /\ pc' = "record" /\ Ids(todo) = {}
    BY <1>6, EmptyIds DEF EndWords
  <2>2. LoopInv'
    BY <1>1, <1>4, <2>1 DEF LoopInv, PrevLists, TodoIds, Wholes
  <2> QED BY <1>4, <2>2 DEF MatchInv
<1>7. CASE \E i \in DOMAIN diff : DeleteEntry(i)
  <2>1. todo' = todo /\ pc' = "words"
    BY <1>7 DEF DeleteEntry, InWordLoop
  <2>2. LoopInv'
    BY <1>1, <1>4, <2>1 DEF LoopInv, PrevLists, TodoIds, Wholes
  <2> QED BY <1>4, <2>2 DEF MatchInv
<1> QED BY <1>5, <1>6, <1>7

(* The recorder writes histories only. *)
LEMMA RecorderMatch ==
  ASSUME TypeOK, MatchInv,
         BeginRecord \/ OutboundSentence \/ EndOutboundSentences \/ OutboundParagraph
           \/ RecordInbound
  PROVE  MatchInv'
<1>1. /\ pc \in {"record", "outbound", "outbound_paragraphs"}
      /\ pc' \in {"outbound", "outbound_paragraphs", "commit"}
      /\ UNCHANGED <<paragraphs, sentences, paragraphs_ht, sentences_ht, revisions,
                     ordered_revisions, last_good_rev_id, rev_id, text, curr,
                     unmatched_paragraphs_curr, unmatched_sentences_curr, matchedP,
                     matchedS, matchedT, unmatched_paragraphs_prev, unmatched_sentences_prev>>
  BY DEF BeginRecord, OutboundSentence, EndOutboundSentences, OutboundParagraph, RecordInbound
<1>2. \A w \in Tids : words'[w].value = words[w].value
  BY ValuesStand
     DEF BeginRecord, OutboundSentence, EndOutboundSentences, OutboundParagraph, RecordInbound
<1>3. BuildsNothing
  BY <1>1, <1>2 DEF BuildsNothing
<1>4. /\ StoredInOrder' /\ ArticleInv' /\ WorkInv' /\ LoopInv
      /\ OldP' = OldP /\ OldS' = OldS /\ NewP' = NewP /\ NewS' = NewS
      /\ \A p \in Pids : ParagraphWhole(p) => ParagraphWhole(p)'
      /\ \A s \in Sids : SentenceWhole(s) => SentenceWhole(s)'
      /\ NewP \subseteq Pids /\ NewS \subseteq Sids
  BY <1>1, <1>3, WorkStands, Allocated DEF MatchInv
<1>5. LoopInv'
  BY <1>1, <1>4 DEF LoopInv, PrevLists, TodoIds, Wholes
<1> QED BY <1>4, <1>5 DEF MatchInv
-----------------------------------------------------------------------------
(* The tokens of a paragraph or sentence the article knows stand apart. *)
LEMMA KnownApart ==
  ASSUME TypeOK, StoredInOrder, ArticleInv
  PROVE  /\ \A p \in OldP : Separate({p})
         /\ \A s \in OldS : IsInjective(sentences[s].words)
<1>1. OldP = UNION { Ids(revisions[r].paragraphs) : r \in Stored }
      /\ OldS = UNION { ParagraphSentences(p) : p \in OldP }
  BY DEF ArticleInv, HashTablesSound, OldP, OldS
<1>2. ASSUME NEW p \in OldP PROVE Separate({p})
  <2>1. PICK r \in Stored : p \in Ids(revisions[r].paragraphs)
    BY <1>1
  <2> QED BY <2>1 DEF ArticleInv, StoredDistinct, Separate
<1>3. ASSUME NEW s \in OldS PROVE IsInjective(sentences[s].words)
  <2>1. PICK p \in OldP : s \in ParagraphSentences(p)
    BY <1>1
  <2> QED BY <1>2, <2>1 DEF Separate
<1> QED BY <1>2, <1>3

(* One more paragraph whose tokens are nowhere else. *)
LEMMA SeparateMore ==
  ASSUME NEW P, NEW p, Separate(P), Separate({p}),
         ParagraphTokens(p) \cap TokensOf(P) = {}
  PROVE  Separate(P \cup {p})
<1>1. \A q \in P : ParagraphTokens(p) \cap ParagraphTokens(q) = {}
  BY DEF TokensOf
<1> QED BY <1>1 DEF Separate

(* The paragraph level leaves the loop where it is. *)
LEMMA ReuseParagraphMatch == ASSUME TypeOK, MatchInv, ReuseParagraph PROVE MatchInv'
<1>1. PICK c \in Places(ParagraphRows) :
        LET h == NextParagraphHash
            p == At(ParagraphRows, c)
            passed == SpentParagraphs(h, PlacesBefore(ParagraphRows, c))
        IN  /\ IsFirst(ParagraphRows, c, FreeParagraphs(h))
            /\ matchedP' = matchedP \cup passed \cup {p}
            /\ matchedS' = matchedS \cup ParagraphSentences(p)
            /\ matchedT' = matchedT \cup ParagraphTokens(p)
            /\ curr' = Append(curr, p)
  BY DEF ReuseParagraph
<1> DEFINE h == NextParagraphHash
           p == At(ParagraphRows, c)
           passed == SpentParagraphs(h, PlacesBefore(ParagraphRows, c))
<1>2. /\ pc = "paragraphs" /\ pc' = "paragraphs" /\ Len(curr) < Len(split_paragraphs[text])
      /\ UNCHANGED <<paragraphs, sentences, words, paragraphs_ht, sentences_ht, revisions,
                     ordered_revisions, last_good_rev_id, rev_id, text,
                     unmatched_paragraphs_prev, unmatched_paragraphs_curr,
                     unmatched_sentences_prev, unmatched_sentences_curr, todo>>
  BY DEF ReuseParagraph
<1>3. StoredInOrder /\ HashTablesSound /\ ArticleInv /\ WorkInv /\ LoopInv
  BY <1>2 DEF MatchInv, ArticleInv
<1>4. p \in OldP /\ p \in Pids /\ OldP \subseteq Pids /\ ParagraphTokens(p) \subseteq OldT
  BY <1>3, KnownParagraphs, KnownParts, Allocated
<1>5. /\ paragraphs[p].hash_value = h /\ p \notin matchedP
      /\ ParagraphTokens(p) \cap matchedT = {}
  BY <1>1 DEF IsFirst, FreeParagraphs, OpenParagraphs, NoneMatched
<1>6. passed \subseteq OldP
  BY <1>3, KnownParagraphs DEF SpentParagraphs, PlacesBefore
<1>7. curr' = Append(curr, p) /\ Ids(curr') = Ids(curr) \cup {p} /\ p \notin Ids(curr)
  BY <1>1, <1>3, <1>4, <1>5, Kinds, IdsAppend DEF WorkInv, Apart
<1>8. /\ matchedP' = matchedP \cup passed \cup {p} /\ matchedT' = matchedT \cup ParagraphTokens(p)
      /\ matchedS \subseteq matchedS'
  BY <1>1
<1> HIDE DEF p, passed, h
<1>9. /\ OldP' = OldP /\ OldS' = OldS /\ OldT' = OldT /\ NewP' = NewP /\ NewS' = NewS
      /\ ArticleInv' /\ StoredInOrder'
  <2>1. KnownAlone
    BY <1>2 DEF KnownAlone
  <2>2. NewP' = NewP /\ NewS' = NewS /\ Stored' = Stored
    BY <1>2 DEF NewP, NewS, Stored, Ids
  <2> QED BY <1>2, <1>3, <2>1, <2>2, SameKnown, KnownStands DEF StoredInOrder
<1>10. /\ \A q : ParagraphSentences(q)' = ParagraphSentences(q)
       /\ \A s : SentenceTokens(s)' = SentenceTokens(s)
       /\ \A q : ParagraphTokens(q)' = ParagraphTokens(q)
  BY <1>2 DEF ParagraphSentences, SentenceTokens, ParagraphTokens
<1>11. NewIds' /\ InUse'
  <2>1. SentencesOf(NewP)' = SentencesOf(NewP)
    BY <1>9, <1>10 DEF SentencesOf
  <2> QED BY <1>2, <1>3, <1>4, <1>7, <1>9, <2>1 DEF WorkInv, NewIds, InUse
<1>12. TextPart(curr, text)'
  <2>1. /\ Len(curr') = Len(curr) + 1 /\ curr'[Len(curr) + 1] = p
        /\ \A i \in 1 .. Len(curr) : curr'[i] = curr[i]
        /\ DOMAIN curr' = 1 .. Len(curr) + 1
        /\ Len(curr) \in Nat /\ DOMAIN curr = 1 .. Len(curr)
    BY <1>4, <1>7, Kinds, AppendProperties, LenProperties
  <2>2. Len(split_paragraphs[text]) \in Nat
    BY SplitAssumption, LenProperties, <1>2 DEF TypeOK, InputOK
  <2>3. paragraphs[p].hash_value = split_paragraphs[text][Len(curr) + 1]
    BY <1>5 DEF h, NextParagraphHash
  <2> QED BY <1>2, <1>3, <2>1, <2>2, <2>3 DEF TextPart, WorkInv, Parts
<1>13. Parts'
  BY <1>2, <1>3, <1>9, <1>12 DEF WorkInv, Parts, ParagraphPart, SentencePart
<1>14. TokensOf(Ids(curr))' = TokensOf(Ids(curr)) \cup ParagraphTokens(p)
  BY <1>7, <1>10 DEF TokensOf
<1>15. Separate(Ids(curr))'
  <2>1. ParagraphTokens(p) \cap TokensOf(Ids(curr)) = {}
    BY <1>3, <1>4, <1>5 DEF WorkInv, Apart
  <2>2. Separate(Ids(curr) \cup {p})
    BY <1>3, <1>4, <2>1, KnownApart, SeparateMore DEF WorkInv, Apart
  <2>3. Separate(Ids(curr'))
    BY <1>7, <2>2
  <2> QED BY <1>2, <1>10, <2>3 DEF Separate
<1>16. IsInjective(curr')
  BY <1>3, <1>4, <1>7, Kinds, InjectiveAppend DEF WorkInv, Apart
<1>17. Apart'
  <2>1. matchedP' \subseteq OldP /\ Ids(curr') \cap OldP \subseteq matchedP'
    BY <1>3, <1>4, <1>6, <1>7, <1>8 DEF WorkInv, Apart
  <2>2. (TokensOf(Ids(curr)) \cup ParagraphTokens(p)) \cap OldT \subseteq matchedT'
    BY <1>3, <1>8 DEF WorkInv, Apart
  <2>3. SentencesOf(NewP)' = SentencesOf(NewP)
    BY <1>9, <1>10 DEF SentencesOf
  <2>4. /\ SentencesOf(NewP) \cap OldS \subseteq matchedS'
        /\ \A q, r \in NewP : q # r => ParagraphSentences(q) \cap ParagraphSentences(r) = {}
    BY <1>3, <1>8 DEF WorkInv, Apart
  <2> QED BY <1>9, <1>10, <1>14, <1>15, <1>16, <2>1, <2>2, <2>3, <2>4 DEF Apart
<1>18. LoopInv'
  BY <1>2, <1>3, <1>9 DEF LoopInv, PrevLists, TodoIds, Wholes, SentenceWhole, SentencePart
<1> QED BY <1>2, <1>9, <1>11, <1>13, <1>17, <1>18 DEF MatchInv, WorkInv

LEMMA AllocParagraphMatch == ASSUME TypeOK, MatchInv, AllocParagraph PROVE MatchInv'
<1>0. PICK p : p = Len(paragraphs) + 1
  OBVIOUS
<1> DEFINE h == NextParagraphHash
           new == [hash_value |-> h, sentences |-> << >>]
           passed == SpentParagraphs(h, Places(ParagraphRows))
<1>1. /\ pc = "paragraphs" /\ pc' = "paragraphs" /\ Len(curr) < Len(split_paragraphs[text])
      /\ paragraphs' = Append(paragraphs, new)
      /\ matchedP' = matchedP \cup passed
      /\ unmatched_paragraphs_curr' = Append(unmatched_paragraphs_curr, p)
      /\ curr' = Append(curr, p)
      /\ UNCHANGED <<sentences, words, matchedS, matchedT, paragraphs_ht, sentences_ht, revisions,
                     ordered_revisions, last_good_rev_id, rev_id, text,
                     unmatched_paragraphs_prev, unmatched_sentences_prev,
                     unmatched_sentences_curr, todo>>
  BY <1>0 DEF AllocParagraph
<1>2. StoredInOrder /\ HashTablesSound /\ ArticleInv /\ WorkInv /\ LoopInv
  BY <1>1 DEF MatchInv, ArticleInv
<1>3. h \in ParagraphHash /\ new \in Paragraph /\ new.sentences = << >> /\ new.hash_value = h
  BY <1>1, NextParagraphHashType, EmptySeq DEF Paragraph
<1>4. passed \subseteq OldP
  BY <1>2, KnownParagraphs DEF SpentParagraphs
<1> HIDE DEF new, passed
<1>5. /\ \A q \in Pids : paragraphs'[q] = paragraphs[q]
      /\ paragraphs'[p] = new /\ p \notin Pids /\ p \in Nat /\ Pids \subseteq Nat
  BY <1>0, <1>1, <1>3, AppendProperties, LenProperties DEF TypeOK, ArenasOK, Pids
<1>6. /\ OldP \subseteq Pids /\ OldS \subseteq Sids /\ NewP \subseteq Pids /\ Ids(curr) \subseteq Pids
  BY Allocated
<1>7. /\ Ids(curr') = Ids(curr) \cup {p} /\ IsInjective(curr')
      /\ NewP' = NewP \cup {p} /\ IsInjective(unmatched_paragraphs_curr')
  <2>1. curr \in Seq(Nat) /\ unmatched_paragraphs_curr \in Seq(Nat)
    BY <1>5, Kinds, IdsOf, SeqOfIds
  <2>2. IsInjective(curr) /\ IsInjective(unmatched_paragraphs_curr)
    BY <1>2 DEF WorkInv, Apart, NewIds
  <2> QED BY <1>1, <1>5, <1>6, <2>1, <2>2, IdsAppend, InjectiveAppend DEF NewP
<1>8. /\ OldP' = OldP /\ OldS' = OldS /\ OldT' = OldT /\ NewS' = NewS
      /\ ArticleInv' /\ StoredInOrder'
  <2>1. KnownAlone
    BY <1>1, <1>5, <1>6 DEF KnownAlone
  <2>2. NewS' = NewS /\ Stored' = Stored
    BY <1>1 DEF NewS, Stored, Ids
  <2> QED BY <1>1, <1>2, <2>1, <2>2, SameKnown, KnownStands DEF StoredInOrder
<1>9. /\ \A q \in Pids : ParagraphSentences(q)' = ParagraphSentences(q)
      /\ \A s : SentenceTokens(s)' = SentenceTokens(s)
      /\ \A q \in Pids : ParagraphTokens(q)' = ParagraphTokens(q)
      /\ ParagraphSentences(p)' = {} /\ ParagraphTokens(p)' = {}
      /\ paragraphs'[p].sentences = << >> /\ DOMAIN paragraphs'[p].sentences = {}
  <2>1. \A q \in Pids : ParagraphSentences(q)' = ParagraphSentences(q)
    BY <1>5 DEF ParagraphSentences
  <2>2. \A s : SentenceTokens(s)' = SentenceTokens(s)
    BY <1>1 DEF SentenceTokens
  <2>3. \A q \in Pids : ParagraphTokens(q)' = ParagraphTokens(q)
    BY <2>1, <2>2 DEF ParagraphTokens
  <2>4. paragraphs'[p].sentences = << >> /\ DOMAIN paragraphs'[p].sentences = {}
    BY <1>3, <1>5, EmptyIds
  <2>5. ParagraphSentences(p)' = {}
    BY <2>4 DEF ParagraphSentences
  <2>6. ParagraphTokens(p)' = {}
    BY <2>5 DEF ParagraphTokens
  <2> QED BY <2>1, <2>2, <2>3, <2>4, <2>5, <2>6
<1>10. NewIds' /\ InUse'
  <2>1. SentencesOf(NewP)' = SentencesOf(NewP)
    BY <1>6, <1>7, <1>9 DEF SentencesOf
  <2>2. NewP' \cap OldP' = {}
    BY <1>2, <1>5, <1>6, <1>7, <1>8 DEF WorkInv, NewIds
  <2> QED BY <1>1, <1>2, <1>7, <1>8, <2>1, <2>2 DEF WorkInv, NewIds, InUse
<1>11. TextPart(curr, text)'
  <2>1. /\ Len(curr') = Len(curr) + 1 /\ curr'[Len(curr) + 1] = p
        /\ \A i \in 1 .. Len(curr) : curr'[i] = curr[i] /\ curr[i] \in Pids
        /\ DOMAIN curr' = 1 .. Len(curr) + 1
        /\ Len(curr) \in Nat /\ DOMAIN curr = 1 .. Len(curr)
    <3>1. curr \in Seq(Nat) /\ p \in Nat
      BY <1>5, Kinds, IdsOf, SeqOfIds
    <3>2. \A i \in 1 .. Len(curr) : curr[i] \in Pids
      BY Kinds, LenProperties
    <3> QED BY <1>1, <3>1, <3>2, AppendProperties, LenProperties
  <2>2. Len(split_paragraphs[text]) \in Nat
    BY SplitAssumption, LenProperties, <1>1 DEF TypeOK, InputOK
  <2>3. paragraphs'[p].hash_value = split_paragraphs[text][Len(curr) + 1]
    BY <1>3, <1>5 DEF NextParagraphHash
  <2>4. \A i \in 1 .. Len(curr) : paragraphs[curr[i]].hash_value = split_paragraphs[text][i]
    BY <1>2, <2>1 DEF TextPart, WorkInv, Parts
  <2>5. ASSUME NEW i \in 1 .. Len(curr) + 1
        PROVE  paragraphs'[curr'[i]].hash_value = split_paragraphs[text][i]
    <3>1. CASE i \in 1 .. Len(curr)
      BY <1>5, <2>1, <2>4, <3>1
    <3>2. CASE i = Len(curr) + 1
      BY <2>1, <2>3, <3>2
    <3> QED BY <2>1, <3>1, <3>2
  <2>6. text' = text /\ Len(curr) < Len(split_paragraphs[text])
    BY <1>1
  <2> QED BY <2>1, <2>2, <2>5, <2>6 DEF TextPart
<1>12. Parts'
  <2>1. \A q \in NewP : ParagraphPart(q)'
    BY <1>1, <1>2, <1>5, <1>6, ParagraphStands DEF WorkInv, Parts
  <2>2. ParagraphPart(p)'
    <3>1. Len(split_sentences[h]) \in Nat
      BY <1>3, SplitAssumption, LenProperties
    <3> QED BY <1>3, <1>5, <3>1, EmptyIds DEF ParagraphPart
  <2>3. \A s \in NewS : SentencePart(s)'
    BY <1>1, <1>2 DEF WorkInv, Parts, SentencePart
  <2> QED BY <1>7, <1>8, <1>11, <2>1, <2>2, <2>3 DEF Parts
<1>13. Separate(Ids(curr))'
  <2>1. \A q \in Ids(curr) : q \in Pids /\ paragraphs'[q] = paragraphs[q]
    BY <1>5, <1>6
  <2>2. Separate(Ids(curr))
    BY <1>2 DEF WorkInv, Apart
  <2>3. \A q \in Ids(curr) \cup {p} : ParagraphTokens(q)' = IF q = p THEN {} ELSE ParagraphTokens(q)
    BY <1>5, <1>9, <2>1
  <2>4. \A q, r \in Ids(curr) \cup {p} :
          q # r => ParagraphTokens(q)' \cap ParagraphTokens(r)' = {}
    BY <2>2, <2>3 DEF Separate
  <2>5. \A q \in Ids(curr) \cup {p} : \A s, t \in ParagraphSentences(q)' :
          s # t => SentenceTokens(s)' \cap SentenceTokens(t)' = {}
    BY <1>6, <1>9, <2>2 DEF Separate
  <2>7. \A q \in Ids(curr) \cup {p} : IsInjective(paragraphs'[q].sentences)
    BY <1>9, <2>1, <2>2, EmptyIds DEF Separate
  <2>6. \A q \in Ids(curr) \cup {p} : \A s \in ParagraphSentences(q)' : IsInjective(sentences'[s].words)
    BY <1>1, <1>9, <2>1, <2>2 DEF Separate
  <2> QED BY <1>7, <2>4, <2>5, <2>6, <2>7 DEF Separate
<1>14. Apart'
  <2>1. matchedP' \subseteq OldP /\ Ids(curr') \cap OldP \subseteq matchedP'
    BY <1>1, <1>2, <1>4, <1>5, <1>6, <1>7 DEF WorkInv, Apart
  <2>2. TokensOf(Ids(curr))' = TokensOf(Ids(curr))
    BY <1>6, <1>7, <1>9 DEF TokensOf
  <2>3. \A q, r \in NewP \cup {p} :
          q # r => ParagraphSentences(q)' \cap ParagraphSentences(r)' = {}
    BY <1>2, <1>6, <1>9 DEF WorkInv, Apart
  <2>8. SentencesOf(NewP)' = SentencesOf(NewP)
    BY <1>6, <1>7, <1>9 DEF SentencesOf
  <2>4. TokensOf(Ids(curr)) \cap OldT \subseteq matchedT
    BY <1>2 DEF WorkInv, Apart
  <2>5. (SentencesOf(NewP) \cap OldS \subseteq matchedS)'
    BY <1>1, <1>2, <1>8, <2>8 DEF WorkInv, Apart
  <2>6. (TokensOf(Ids(curr)) \cap OldT \subseteq matchedT)'
    BY <1>1, <1>8, <2>2, <2>4
  <2>7. (matchedP \subseteq OldP /\ Ids(curr) \cap OldP \subseteq matchedP)'
    BY <1>8, <2>1
  <2> QED BY <1>7, <1>13, <2>3, <2>5, <2>6, <2>7 DEF Apart
<1>15. LoopInv'
  <2>1. \A s \in NewS : SentenceWhole(s) => SentenceWhole(s)'
    BY <1>1 DEF SentenceWhole, SentencePart
  <2> QED BY <1>1, <1>2, <1>8, <2>1 DEF LoopInv, PrevLists, TodoIds, Wholes
<1> QED BY <1>1, <1>8, <1>10, <1>12, <1>14, <1>15 DEF MatchInv, WorkInv
-----------------------------------------------------------------------------
(* The sentence level: a sentence x of the hash asked for, whose tokens    *)
(* are nowhere in the revision so far, is attached to the paragraph.       *)
LEMMA AttachMatch ==
  ASSUME TypeOK, MatchInv, pc = "sentences", todo # << >>, MoreSentences,
         NEW x \in Nat, Attach(x),
         UNCHANGED <<pc, words, paragraphs_ht, sentences_ht, revisions, ordered_revisions,
                     last_good_rev_id, rev_id, text, curr, matchedP,
                     unmatched_paragraphs_prev, unmatched_paragraphs_curr,
                     unmatched_sentences_prev, todo>>,
         \A s \in Sids : sentences'[s] = sentences[s],
         sentences'[x].hash_value = NextSentenceHash,
         matchedS \subseteq matchedS', matchedT \subseteq matchedT',
         x \notin SentencesOf(NewP), x \in matchedS' \/ x \notin OldS,
         SentenceTokens(x)' \cap TokensOf(Ids(curr)) = {},
         SentenceTokens(x)' \cap OldT \subseteq matchedT',
         IsInjective(sentences'[x].words),
         \/ x \in OldS /\ NewS' = NewS
            /\ UNCHANGED unmatched_sentences_curr
         \/ x \notin Sids /\ NewS' = NewS \cup {x} /\ SentencePart(x)'
            /\ IsInjective(unmatched_sentences_curr')
  PROVE  MatchInv'
<1>1. PICK q : q = Head(todo)
  OBVIOUS
<1>2. StoredInOrder /\ ArticleInv /\ HashTablesSound /\ WorkInv /\ LoopInv
  BY DEF MatchInv, ArticleInv
<1>3. /\ q \in NewP /\ q \in Pids /\ q \notin OldP /\ q \in Ids(curr) /\ q \in Ids(todo)
  <2>1. q \in Ids(todo) /\ Ids(todo) \subseteq NewP
    BY <1>1, <1>2, Kinds, IdsTail DEF LoopInv, TodoIds
  <2> QED BY <1>2, <2>1, Allocated DEF WorkInv, NewIds, InUse
<1>4. /\ \A p \in Pids \ {q} : paragraphs'[p] = paragraphs[p]
      /\ paragraphs'[q].sentences = Append(paragraphs[q].sentences, x)
      /\ paragraphs'[q].hash_value = paragraphs[q].hash_value
  <2>1. /\ paragraphs' = [paragraphs EXCEPT ![q] = [paragraphs[q] EXCEPT !.sentences = Append(@, x)]]
        /\ DOMAIN paragraphs = Pids /\ paragraphs[q] \in Paragraph
    BY <1>1, <1>3, LenProperties, ElementOfSeq DEF Attach, TypeOK, ArenasOK, Pids
  <2> QED BY <1>3, <2>1 DEF Paragraph
<1>5. /\ OldP \subseteq Pids /\ OldS \subseteq Sids /\ NewP \subseteq Pids /\ NewS \subseteq Sids
      /\ Ids(curr) \subseteq Pids
  BY Allocated
<1>6. /\ OldP' = OldP /\ OldS' = OldS /\ OldT' = OldT /\ NewP' = NewP
      /\ ArticleInv' /\ StoredInOrder'
  <2>1. KnownAlone
    BY <1>3, <1>4, <1>5 DEF KnownAlone
  <2>2. NewP' = NewP /\ Stored' = Stored
    BY DEF NewP, Stored, Ids
  <2> QED BY <1>2, <2>1, <2>2, SameKnown, KnownStands DEF StoredInOrder
<1>7. /\ \A s \in Sids : SentenceTokens(s)' = SentenceTokens(s)
      /\ \A p \in Pids : ParagraphSentences(p) \subseteq Sids
  BY MembersType DEF SentenceTokens
<1>8. /\ \A p \in Pids \ {q} : ParagraphSentences(p)' = ParagraphSentences(p)
      /\ \A p \in Pids \ {q} : ParagraphTokens(p)' = ParagraphTokens(p)
  <2>1. \A p \in Pids \ {q} : ParagraphSentences(p)' = ParagraphSentences(p)
    BY <1>4 DEF ParagraphSentences
  <2> QED BY <1>7, <2>1 DEF ParagraphTokens
<1>9. /\ ParagraphSentences(q)' = ParagraphSentences(q) \cup {x}
      /\ ParagraphTokens(q)' = ParagraphTokens(q) \cup SentenceTokens(x)'
      /\ IsInjective(paragraphs'[q].sentences)
  <2>1. paragraphs[q].sentences \in Seq(Nat)
    <3>1. \A p \in Pids : paragraphs[p].sentences \in Seq(Sids)
      BY Kinds
    <3>2. Sids \subseteq Nat
      BY DEF Sids
    <3>3. paragraphs[q].sentences \in Seq(Sids)
      BY <1>3, <3>1
    <3> QED BY <3>2, <3>3, IdsAreNat, Kinds DEF Sids
  <2>2. /\ ParagraphSentences(q) = Ids(paragraphs[q].sentences)
        /\ ParagraphSentences(q)' = Ids(paragraphs'[q].sentences)
    BY DEF ParagraphSentences, Ids
  <2>3. x \notin ParagraphSentences(q)
    BY <1>3 DEF SentencesOf
  <2>4. ParagraphSentences(q)' = ParagraphSentences(q) \cup {x}
    BY <1>4, <2>1, <2>2, IdsAppend
  <2>5. IsInjective(paragraphs[q].sentences)
    BY <1>2, <1>3 DEF WorkInv, Apart, Separate
  <2>6. IsInjective(paragraphs'[q].sentences)
    BY <1>4, <2>1, <2>2, <2>3, <2>5, InjectiveAppend
  <2>7. ParagraphTokens(q)' = ParagraphTokens(q) \cup SentenceTokens(x)'
    BY <1>3, <1>7, <2>4 DEF ParagraphTokens
  <2> QED BY <2>4, <2>6, <2>7
<1>10. /\ SentencesOf(NewP)' = SentencesOf(NewP) \cup {x}
       /\ TokensOf(Ids(curr))' = TokensOf(Ids(curr)) \cup SentenceTokens(x)'
  BY <1>3, <1>5, <1>6, <1>8, <1>9 DEF SentencesOf, TokensOf
<1>11. NewIds' /\ InUse'
  <2>1. IsInjective(unmatched_sentences_curr') /\ NewS' \cap OldS = {}
    BY <1>2, <1>5 DEF WorkInv, NewIds
  <2>2. NewS' \subseteq SentencesOf(NewP)' /\ SentencesOf(NewP)' \subseteq OldS \cup NewS'
    BY <1>2, <1>10 DEF WorkInv, InUse
  <2> QED BY <1>2, <1>6, <2>1, <2>2 DEF WorkInv, NewIds, InUse
<1>12. Parts'
  <2>1. TextPart(curr, text)'
    <3>1. \A p \in Pids : paragraphs'[p].hash_value = paragraphs[p].hash_value
      BY <1>4
    <3>2. \A i \in DOMAIN curr : curr[i] \in Pids
      BY Kinds, LenProperties
    <3> QED BY <1>2, <3>1, <3>2 DEF WorkInv, Parts, TextPart
  <2>2. \A p \in NewP \ {q} : ParagraphPart(p)'
    BY <1>2, <1>4, <1>5, ParagraphStands DEF WorkInv, Parts
  <2>3. ParagraphPart(q)'
    <3> DEFINE t == split_sentences[paragraphs[q].hash_value]
               ss == paragraphs[q].sentences
    <3>1. /\ ss \in Seq(Sids) /\ Len(ss) \in Nat /\ DOMAIN ss = 1 .. Len(ss)
          /\ ss \in Seq(Nat)
      BY <1>3, Kinds, LenProperties, IdsAreNat DEF Sids
    <3>2. /\ Len(Append(ss, x)) = Len(ss) + 1 /\ DOMAIN Append(ss, x) = 1 .. Len(ss) + 1
          /\ \A j \in 1 .. Len(ss) : Append(ss, x)[j] = ss[j] /\ ss[j] \in Sids
          /\ Append(ss, x)[Len(ss) + 1] = x
      BY <3>1, AppendProperties, LenProperties, SMTT(20)
    <3>3. Len(t) \in Nat
      <4>1. paragraphs[q] \in Paragraph
        BY <1>3, ElementOfSeq DEF TypeOK, ArenasOK, Pids
      <4> QED BY <4>1, SplitAssumption, LenProperties DEF Paragraph
    <3>4. Len(ss) < Len(t) /\ sentences'[x].hash_value = t[Len(ss) + 1]
      BY <1>1 DEF MoreSentences, CurrentParagraph, NextSentenceHash
    <3>5. \A j \in 1 .. Len(ss) : sentences[ss[j]].hash_value = t[j]
      BY <1>2, <1>3, <3>1 DEF WorkInv, Parts, ParagraphPart
    <3> HIDE DEF t, ss
    <3>6. ASSUME NEW j \in 1 .. Len(ss) + 1 PROVE sentences'[Append(ss, x)[j]].hash_value = t[j]
      <4>1. CASE j \in 1 .. Len(ss)
        BY <3>2, <3>5, <4>1
      <4>2. CASE j = Len(ss) + 1
        BY <3>2, <3>4, <4>2
      <4> QED BY <3>1, <4>1, <4>2
    <3>7. /\ paragraphs'[q].sentences = Append(ss, x)
          /\ split_sentences[paragraphs'[q].hash_value] = t
      BY <1>4 DEF t, ss
    <3> QED BY <3>1, <3>2, <3>3, <3>4, <3>6, <3>7 DEF ParagraphPart
  <2>4. \A s \in NewS : SentencePart(s)'
    BY <1>2, <1>5, SentenceStands DEF WorkInv, Parts
  <2>5. \A s \in NewS' : SentencePart(s)'
    BY <2>4
  <2> QED BY <1>6, <2>1, <2>2, <2>3, <2>5 DEF Parts
<1>13. Separate(Ids(curr))'
  <2>1. Separate(Ids(curr))
    BY <1>2 DEF WorkInv, Apart
  <2>2. \A p \in Ids(curr) : ParagraphTokens(p) \subseteq TokensOf(Ids(curr))
    BY DEF TokensOf
  <2>3. \A p, r \in Ids(curr) : p # r => ParagraphTokens(p)' \cap ParagraphTokens(r)' = {}
    BY <1>5, <1>8, <1>9, <2>1, <2>2 DEF Separate
  <2>4. \A p \in Ids(curr) : IsInjective(paragraphs'[p].sentences)
    BY <1>4, <1>5, <1>9, <2>1 DEF Separate
  <2>5. ASSUME NEW p \in Ids(curr), NEW s \in ParagraphSentences(p)',
               NEW t \in ParagraphSentences(p)', s # t
        PROVE  SentenceTokens(s)' \cap SentenceTokens(t)' = {}
    <3>1. CASE s \in ParagraphSentences(p) /\ t \in ParagraphSentences(p)
      BY <1>5, <1>7, <2>1, <2>5, <3>1 DEF Separate
    <3>2. ASSUME NEW u \in ParagraphSentences(p) PROVE SentenceTokens(u)' \cap SentenceTokens(x)' = {}
      <4>1. SentenceTokens(u)' = SentenceTokens(u) /\ SentenceTokens(u) \subseteq ParagraphTokens(p)
        BY <1>5, <1>7 DEF ParagraphTokens
      <4> QED BY <2>2, <4>1
    <3> QED BY <1>5, <1>8, <1>9, <2>5, <3>1, <3>2
  <2>6. \A p \in Ids(curr) : \A s \in ParagraphSentences(p)' : IsInjective(sentences'[s].words)
    BY <1>5, <1>7, <1>8, <1>9, <2>1 DEF Separate
  <2> QED BY <2>3, <2>4, <2>5, <2>6 DEF Separate
<1>14. Apart'
  <2>1. (TokensOf(Ids(curr)) \cap OldT \subseteq matchedT)'
    BY <1>2, <1>6, <1>10 DEF WorkInv, Apart
  <2>2. (SentencesOf(NewP) \cap OldS \subseteq matchedS)'
    BY <1>2, <1>6, <1>10 DEF WorkInv, Apart
  <2>3. \A p, r \in NewP : p # r => ParagraphSentences(p)' \cap ParagraphSentences(r)' = {}
    <3>1. \A p \in NewP : x \notin ParagraphSentences(p)
      BY DEF SentencesOf
    <3> QED BY <1>2, <1>5, <1>8, <1>9, <3>1 DEF WorkInv, Apart
  <2> QED BY <1>2, <1>6, <1>13, <2>1, <2>2, <2>3 DEF WorkInv, Apart
<1>15. LoopInv'
  <2>1. \A p \in NewP \ {q} : ParagraphWhole(p) => ParagraphWhole(p)'
    BY <1>4, <1>5, ParagraphStands
  <2> QED BY <1>2, <1>3, <1>6, <2>1 DEF LoopInv, PrevLists, TodoIds, Wholes
<1> QED BY <1>6, <1>11, <1>12, <1>14, <1>15 DEF MatchInv, WorkInv

LEMMA ReuseSentenceMatch == ASSUME TypeOK, MatchInv, ReuseSentence PROVE MatchInv'
<1>1. PICK c \in Places(SentenceRows) :
        LET h == NextSentenceHash
            s == At(SentenceRows, c)
            passed == SpentSentences(h, PlacesBefore(SentenceRows, c))
        IN  /\ IsFirst(SentenceRows, c, FreeSentences(h))
            /\ matchedS' = matchedS \cup passed \cup {s}
            /\ matchedT' = matchedT \cup SentenceTokens(s)
            /\ Attach(s)
  BY DEF ReuseSentence
<1>2. PICK s : s = At(SentenceRows, c)
  OBVIOUS
<1>3. /\ pc = "sentences" /\ todo # << >> /\ MoreSentences
      /\ UNCHANGED <<pc, words, sentences, paragraphs_ht, sentences_ht, revisions,
                     ordered_revisions, last_good_rev_id, rev_id, text, curr, matchedP,
                     unmatched_paragraphs_prev, unmatched_paragraphs_curr,
                     unmatched_sentences_prev, unmatched_sentences_curr, todo>>
  BY DEF ReuseSentence
<1>4. StoredInOrder /\ ArticleInv /\ HashTablesSound /\ WorkInv /\ LoopInv
  BY <1>3 DEF MatchInv, ArticleInv
<1>5. s \in OldS /\ s \in Nat /\ SentenceTokens(s) \subseteq OldT
  BY <1>2, <1>4, KnownSentences, Allocated DEF LoopInv, OldT, Sids
<1>6. /\ sentences[s].hash_value = NextSentenceHash /\ s \notin matchedS
      /\ SentenceTokens(s) \cap matchedT = {}
  BY <1>1, <1>2 DEF IsFirst, FreeSentences, OpenSentences, NoneMatched
<1>7. /\ matchedS \subseteq matchedS' /\ s \in matchedS' /\ Attach(s)
      /\ matchedT' = matchedT \cup SentenceTokens(s)
  BY <1>1, <1>2
<1>8. s \notin SentencesOf(NewP)
  BY <1>4, <1>5, <1>6 DEF WorkInv, Apart
<1>9. SentenceTokens(s)' = SentenceTokens(s) /\ sentences'[s] = sentences[s]
  BY <1>3 DEF SentenceTokens
<1>10. SentenceTokens(s) \cap TokensOf(Ids(curr)) = {}
  BY <1>4, <1>5, <1>6 DEF WorkInv, Apart
<1>11. IsInjective(sentences[s].words)
  BY <1>4, <1>5, KnownApart
<1>12. NewS' = NewS
  BY <1>3 DEF NewS, Ids
<1> QED BY <1>3, <1>5, <1>6, <1>7, <1>8, <1>9, <1>10, <1>11, <1>12, AttachMatch

LEMMA AllocSentenceMatch == ASSUME TypeOK, MatchInv, AllocSentence PROVE MatchInv'
<1>1. PICK x : x = Len(sentences) + 1
  OBVIOUS
<1> DEFINE new == [hash_value |-> NextSentenceHash, words |-> << >>]
<1>2. /\ pc = "sentences" /\ todo # << >> /\ MoreSentences
      /\ sentences' = Append(sentences, new)
      /\ unmatched_sentences_curr' = Append(unmatched_sentences_curr, x)
      /\ Attach(x) /\ matchedS \subseteq matchedS'
      /\ UNCHANGED <<pc, words, paragraphs_ht, sentences_ht, revisions,
                     ordered_revisions, last_good_rev_id, rev_id, text, curr, matchedP,
                     matchedT, unmatched_paragraphs_prev, unmatched_paragraphs_curr,
                     unmatched_sentences_prev, todo>>
  BY <1>1 DEF AllocSentence
<1>3. StoredInOrder /\ ArticleInv /\ HashTablesSound /\ WorkInv /\ LoopInv
  BY <1>2 DEF MatchInv, ArticleInv
<1>4. /\ NextSentenceHash \in SentenceHash /\ new \in Sentence
      /\ new.words = << >> /\ new.hash_value = NextSentenceHash
  BY <1>2, NextSentenceHashType, EmptySeq DEF Sentence
<1> HIDE DEF new
<1>5. /\ \A s \in Sids : sentences'[s] = sentences[s]
      /\ sentences'[x] = new /\ x \notin Sids /\ x \in Nat /\ Sids \subseteq Nat
  BY <1>1, <1>2, <1>4, AppendProperties, LenProperties DEF TypeOK, ArenasOK, Sids
<1>6. OldS \subseteq Sids /\ NewS \subseteq Sids /\ SentencesOf(NewP) \subseteq Sids
  BY <1>3, Allocated DEF WorkInv, InUse
<1>7. SentenceTokens(x)' = {} /\ IsInjective(sentences'[x].words)
  BY <1>4, <1>5, EmptyIds DEF SentenceTokens
<1>8. SentencePart(x)'
  <2>1. Len(split_tokens[NextSentenceHash]) \in Nat
    BY <1>4, SplitAssumption, LenProperties
  <2> QED BY <1>4, <1>5, <2>1, EmptyIds DEF SentencePart
<1>9. NewS' = NewS \cup {x} /\ IsInjective(unmatched_sentences_curr')
  <2>1. unmatched_sentences_curr \in Seq(Nat)
    BY <1>5, Kinds, SeqMonotonic
  <2>2. IsInjective(unmatched_sentences_curr) /\ x \notin NewS
    BY <1>3, <1>5, <1>6 DEF WorkInv, NewIds
  <2> QED BY <1>2, <1>5, <2>1, <2>2, IdsAppend, InjectiveAppend DEF NewS
<1> QED BY <1>2, <1>4, <1>5, <1>6, <1>7, <1>8, <1>9, AttachMatch
-----------------------------------------------------------------------------
(* The word level: a word w of the value asked for, which is nowhere in    *)
(* the revision so far, is pushed on the sentence.                         *)
LEMMA PushMatch ==
  ASSUME TypeOK, MatchInv, InWordLoop, NEW w \in Nat, PushWord(w),
         UNCHANGED <<pc, paragraphs, paragraphs_ht, sentences_ht, revisions,
                     ordered_revisions, last_good_rev_id, rev_id, text, curr, matchedP,
                     matchedS, unmatched_paragraphs_prev, unmatched_paragraphs_curr,
                     unmatched_sentences_prev, unmatched_sentences_curr, todo>>,
         \A v \in Tids : words'[v].value = words[v].value,
         words'[w].value = NextWord,
         w \notin TokensOf(Ids(curr)), w \in OldT => w \in matchedT',
         matchedT \subseteq matchedT'
  PROVE  MatchInv'
<1>1. PICK q : q = Head(todo)
  OBVIOUS
<1>2. StoredInOrder /\ ArticleInv /\ HashTablesSound /\ WorkInv /\ LoopInv
      /\ pc = "words" /\ todo # << >> /\ MoreWords
  BY DEF MatchInv, ArticleInv, InWordLoop
<1>3. /\ q \in NewS /\ q \in Sids /\ q \notin OldS /\ q \in Ids(todo)
  <2>1. q \in Ids(todo) /\ Ids(todo) \subseteq NewS
    BY <1>1, <1>2, Kinds, IdsTail DEF LoopInv, TodoIds
  <2> QED BY <1>2, <2>1, Allocated DEF WorkInv, NewIds
<1>4. /\ \A s \in Sids \ {q} : sentences'[s] = sentences[s]
      /\ sentences'[q].words = Append(sentences[q].words, w)
      /\ sentences'[q].hash_value = sentences[q].hash_value
  <2>1. /\ sentences' = [sentences EXCEPT ![q] = [sentences[q] EXCEPT !.words = Append(@, w)]]
        /\ DOMAIN sentences = Sids /\ sentences[q] \in Sentence
    BY <1>1, <1>3, LenProperties, ElementOfSeq DEF PushWord, TypeOK, ArenasOK, Sids
  <2> QED BY <1>3, <2>1 DEF Sentence
<1>5. /\ OldP \subseteq Pids /\ OldS \subseteq Sids /\ NewP \subseteq Pids /\ NewS \subseteq Sids
      /\ Ids(curr) \subseteq Pids
  BY Allocated
<1>6. /\ OldP' = OldP /\ OldS' = OldS /\ OldT' = OldT /\ NewP' = NewP /\ NewS' = NewS
      /\ ArticleInv' /\ StoredInOrder'
  <2>1. KnownAlone
    BY <1>3, <1>4, <1>5 DEF KnownAlone
  <2>2. NewP' = NewP /\ NewS' = NewS /\ Stored' = Stored
    BY DEF NewP, NewS, Stored, Ids
  <2> QED BY <1>2, <2>1, <2>2, SameKnown, KnownStands DEF StoredInOrder
<1>7. /\ \A p : ParagraphSentences(p)' = ParagraphSentences(p)
      /\ \A p \in Pids : ParagraphSentences(p) \subseteq Sids
  BY MembersType DEF ParagraphSentences
<1>8. /\ \A s \in Sids \ {q} : SentenceTokens(s)' = SentenceTokens(s)
      /\ SentenceTokens(q)' = SentenceTokens(q) \cup {w}
      /\ (q \in Sids => sentences[q].words \in Seq(Nat))
  <2>1. sentences[q].words \in Seq(Nat)
    <3>1. sentences[q].words \in Seq(Tids) /\ Tids \subseteq Nat
      BY <1>3, Kinds DEF Tids
    <3> QED BY <3>1, SeqMonotonic
  <2>2. /\ SentenceTokens(q) = Ids(sentences[q].words)
        /\ SentenceTokens(q)' = Ids(sentences'[q].words)
    BY DEF SentenceTokens, Ids
  <2>3. \A s \in Sids \ {q} : SentenceTokens(s)' = SentenceTokens(s)
    BY <1>4 DEF SentenceTokens
  <2> QED BY <1>4, <2>1, <2>2, <2>3, IdsAppend
(* The sentence stands in one paragraph of the revision only. *)
<1>9. PICK z \in NewP : q \in ParagraphSentences(z)
  BY <1>2, <1>3 DEF WorkInv, InUse, SentencesOf
<1>10. \A p \in Ids(curr) \ {z} : q \notin ParagraphSentences(p)
  <2>1. \A p \in OldP : q \notin ParagraphSentences(p)
    BY <1>2, <1>3, KnownParts
  <2>2. \A p \in NewP \ {z} : q \notin ParagraphSentences(p)
    BY <1>2, <1>9 DEF WorkInv, Apart
  <2> QED BY <1>2, <2>1, <2>2 DEF WorkInv, InUse
<1>11. /\ \A p \in Ids(curr) \ {z} : ParagraphTokens(p)' = ParagraphTokens(p)
       /\ ParagraphTokens(z)' = ParagraphTokens(z) \cup {w}
       /\ z \in Ids(curr)
  <2>1. \A p \in Ids(curr) \ {z} : ParagraphTokens(p)' = ParagraphTokens(p)
    BY <1>5, <1>7, <1>8, <1>10 DEF ParagraphTokens
  <2>2. ParagraphTokens(z)' = ParagraphTokens(z) \cup {w}
    BY <1>5, <1>7, <1>8, <1>9 DEF ParagraphTokens
  <2> QED BY <1>2, <2>1, <2>2 DEF WorkInv, InUse
<1>12. /\ TokensOf(Ids(curr))' = TokensOf(Ids(curr)) \cup {w}
       /\ SentencesOf(NewP)' = SentencesOf(NewP)
  BY <1>6, <1>7, <1>11 DEF TokensOf, SentencesOf
<1>13. NewIds' /\ InUse'
  BY <1>2, <1>6, <1>12 DEF WorkInv, NewIds, InUse
<1>14. Parts'
  <2>1. \A s \in Sids : sentences'[s].hash_value = sentences[s].hash_value
    BY <1>4
  <2>2. \A p \in NewP : ParagraphPart(p)'
    BY <1>2, <1>5, <2>1, ParagraphStands DEF WorkInv, Parts
  <2>3. \A s \in NewS \ {q} : SentencePart(s)'
    BY <1>2, <1>4, <1>5, SentenceStands DEF WorkInv, Parts
  <2>4. SentencePart(q)'
    <3> DEFINE t == split_tokens[sentences[q].hash_value]
               ws == sentences[q].words
    <3>1. /\ ws \in Seq(Tids) /\ Len(ws) \in Nat /\ DOMAIN ws = 1 .. Len(ws)
          /\ ws \in Seq(Nat)
      BY <1>3, <1>8, Kinds, LenProperties
    <3>2. /\ Len(Append(ws, w)) = Len(ws) + 1 /\ DOMAIN Append(ws, w) = 1 .. Len(ws) + 1
          /\ \A j \in 1 .. Len(ws) : Append(ws, w)[j] = ws[j] /\ ws[j] \in Tids
          /\ Append(ws, w)[Len(ws) + 1] = w
      BY <3>1, AppendProperties, LenProperties
    <3>3. Len(t) \in Nat
      <4>1. sentences[q] \in Sentence
        BY <1>3, ElementOfSeq DEF TypeOK, ArenasOK, Sids
      <4> QED BY <4>1, SplitAssumption, LenProperties DEF Sentence
    <3>4. Len(ws) < Len(t) /\ words'[w].value = t[Len(ws) + 1]
      BY <1>1, <1>2 DEF MoreWords, CurrentSentence, NextWord
    <3>5. \A j \in 1 .. Len(ws) : words[ws[j]].value = t[j]
      BY <1>2, <1>3, <3>1 DEF WorkInv, Parts, SentencePart
    <3> HIDE DEF t, ws
    <3>6. ASSUME NEW j \in 1 .. Len(ws) + 1 PROVE words'[Append(ws, w)[j]].value = t[j]
      <4>1. CASE j \in 1 .. Len(ws)
        BY <3>2, <3>5, <4>1
      <4>2. CASE j = Len(ws) + 1
        BY <3>2, <3>4, <4>2
      <4> QED BY <3>1, <4>1, <4>2
    <3>7. /\ sentences'[q].words = Append(ws, w)
          /\ split_tokens[sentences'[q].hash_value] = t
      BY <1>4 DEF t, ws
    <3> QED BY <3>1, <3>2, <3>3, <3>4, <3>6, <3>7 DEF SentencePart
  <2>5. TextPart(curr, text)'
    BY <1>2 DEF WorkInv, Parts, TextPart
  <2> QED BY <1>6, <2>2, <2>3, <2>4, <2>5 DEF Parts
<1>15. Separate(Ids(curr))'
  <2>1. Separate(Ids(curr))
    BY <1>2 DEF WorkInv, Apart
  <2>2. \A p \in Ids(curr) : w \notin ParagraphTokens(p)
    BY DEF TokensOf
  <2>3. \A p, r \in Ids(curr) : p # r => ParagraphTokens(p)' \cap ParagraphTokens(r)' = {}
    BY <1>11, <2>1, <2>2 DEF Separate
  <2>4. \A p \in Ids(curr) : IsInjective(paragraphs'[p].sentences)
    BY <2>1 DEF Separate
  <2>5. ASSUME NEW p \in Ids(curr), NEW s \in ParagraphSentences(p),
               NEW t \in ParagraphSentences(p), s # t
        PROVE  SentenceTokens(s)' \cap SentenceTokens(t)' = {}
    <3>1. w \notin SentenceTokens(s) /\ w \notin SentenceTokens(t)
      BY <2>2 DEF ParagraphTokens
    <3>2. SentenceTokens(s) \cap SentenceTokens(t) = {} /\ s \in Sids /\ t \in Sids
      BY <1>5, <1>7, <2>1, <2>5 DEF Separate
    <3> QED BY <1>8, <2>5, <3>1, <3>2
  <2>6. ASSUME NEW p \in Ids(curr), NEW s \in ParagraphSentences(p)
        PROVE  IsInjective(sentences'[s].words)
    <3>1. IsInjective(sentences[s].words) /\ s \in Sids
      BY <1>5, <1>7, <2>1 DEF Separate
    <3>2. w \notin SentenceTokens(s)
      BY <2>2 DEF ParagraphTokens
    <3>3. CASE s = q
      <4>1. w \notin Ids(sentences[q].words)
        BY <3>2, <3>3 DEF SentenceTokens, Ids
      <4>2. sentences[q].words \in Seq(Nat) /\ IsInjective(sentences[q].words)
        BY <1>3, <1>8, <3>1, <3>3
      <4>3. IsInjective(Append(sentences[q].words, w))
        BY <4>1, <4>2, InjectiveAppend
      <4> QED BY <1>4, <3>3, <4>3
    <3>4. CASE s # q
      BY <1>4, <3>1, <3>4
    <3> QED BY <3>3, <3>4
  <2> QED BY <1>7, <2>3, <2>4, <2>5, <2>6 DEF Separate
<1>16. Apart'
  <2>1. (TokensOf(Ids(curr)) \cap OldT \subseteq matchedT)'
    BY <1>2, <1>6, <1>12 DEF WorkInv, Apart
  <2>2. \A p, r \in NewP : p # r => ParagraphSentences(p)' \cap ParagraphSentences(r)' = {}
    BY <1>2, <1>7 DEF WorkInv, Apart
  <2> QED BY <1>2, <1>6, <1>12, <1>15, <2>1, <2>2 DEF WorkInv, Apart
<1>17. LoopInv'
  <2>1. \A s \in NewS \ {q} : SentenceWhole(s) => SentenceWhole(s)'
    BY <1>4, <1>5, SentenceStands
  <2>2. \A p \in NewP : ParagraphWhole(p) => ParagraphWhole(p)'
    BY <1>4, <1>5, ParagraphStands
  <2> QED BY <1>2, <1>3, <1>6, <2>1, <2>2 DEF LoopInv, PrevLists, TodoIds, Wholes
<1> QED BY <1>6, <1>13, <1>14, <1>16, <1>17 DEF MatchInv, WorkInv

LEMMA KeepEntryMatch ==
  ASSUME TypeOK, MatchInv, NEW i \in DOMAIN diff, KeepEntry(i)
  PROVE  MatchInv'
<1>1. PICK c \in Places(PrevRows) :
        /\ find_unmatched_prev(NextWord, c)
        /\ matchedT' = matchedT \cup {At(PrevRows, c)}
        /\ PushWord(At(PrevRows, c))
  BY DEF KeepEntry
<1>2. PICK w : w = At(PrevRows, c)
  OBVIOUS
<1>3. WorkInv /\ LoopInv
  BY DEF MatchInv, KeepEntry, InWordLoop
<1>4. w \in OldT /\ w \in Nat
  BY <1>2, <1>3, KnownWords, PrevRowsType DEF LoopInv, Tids
<1>5. w \notin matchedT /\ words[w].value = NextWord
  BY <1>1, <1>2 DEF find_unmatched_prev, IsFirst, FreeWords
<1>6. w \notin TokensOf(Ids(curr))
  BY <1>3, <1>4, <1>5 DEF WorkInv, Apart
<1> QED BY <1>1, <1>2, <1>4, <1>5, <1>6, PushMatch DEF KeepEntry

LEMMA AllocWordMatch ==
  ASSUME TypeOK, MatchInv, FallbackWord \/ \E i \in DOMAIN diff : InsertEntry(i)
  PROVE  MatchInv'
<1>1. PICK w : w = Len(words) + 1
  OBVIOUS
<1> DEFINE new == [value |-> NextWord, origin_rev_id |-> rev_id,
                   last_rev_id |-> rev_id, inbound |-> << >>, outbound |-> << >>]
<1>2. InWordLoop /\ words' = Append(words, new) /\ PushWord(w)
      /\ UNCHANGED <<pc, paragraphs, paragraphs_ht, sentences_ht, revisions,
                     ordered_revisions, last_good_rev_id, rev_id, text, curr, matchedP,
                     matchedS, matchedT, unmatched_paragraphs_prev, unmatched_paragraphs_curr,
                     unmatched_sentences_prev, unmatched_sentences_curr, todo>>
  BY <1>1 DEF FallbackWord, InsertEntry, AllocWord
<1>3. new \in Word /\ new.value = NextWord
  BY <1>2, NextWordType, EmptySeq DEF Word, TypeOK, InputOK
<1> HIDE DEF new
<1>4. /\ \A v \in Tids : words'[v] = words[v]
      /\ words'[w] = new /\ w \notin Tids /\ w \in Nat
  BY <1>1, <1>2, <1>3, AppendProperties, LenProperties DEF TypeOK, ArenasOK, Tids
<1>5. TokensOf(Ids(curr)) \subseteq Tids /\ OldT \subseteq Tids
  BY Allocated, MembersType DEF TokensOf, OldT
<1> QED BY <1>2, <1>3, <1>4, <1>5, PushMatch
-----------------------------------------------------------------------------
(* The commit makes what was built known. *)
LEMMA CommitMatch == ASSUME TypeOK, MatchInv, Commit PROVE MatchInv'
<1>1. /\ pc = "commit" /\ pc' = "idle"
      /\ paragraphs_ht' = paragraphs_ht \o unmatched_paragraphs_curr
      /\ sentences_ht' = sentences_ht \o unmatched_sentences_curr
      /\ revisions' = [revisions EXCEPT ![rev_id] =
                         [id |-> rev_id, text |-> text, paragraphs |-> curr]]
      /\ ordered_revisions' = Append(ordered_revisions, rev_id)
      /\ last_good_rev_id' = rev_id
      /\ UNCHANGED <<words, sentences, paragraphs, rev_id>>
  BY DEF Commit
<1>2. StoredInOrder /\ ArticleInv /\ HashTablesSound /\ WorkInv /\ LoopInv
  BY <1>1 DEF MatchInv, ArticleInv
<1>3. /\ text \in Text /\ rev_id \in RevId /\ rev_id # 0 /\ rev_id \notin Stored
      /\ DOMAIN revisions = RevId
  BY <1>1, <1>2 DEF TypeOK, InputOK, StoreOK, StoredInOrder
<1>4. Stored' = Stored \cup {rev_id}
  BY <1>1, <1>3, IdsAppend DEF Stored, TypeOK, StoreOK
<1>5. /\ \A r \in Stored : revisions'[r] = revisions[r]
      /\ revisions'[0] = revisions[0]
      /\ revisions'[rev_id].paragraphs = curr /\ revisions'[rev_id].text = text
  <2>1. Stored \subseteq RevId /\ 0 \in RevId
    BY <1>2, BoundAssumption, <1>3 DEF StoredInOrder, RevId
  <2> QED BY <1>1, <1>3, <2>1
<1>6. StoredInOrder'
  <2>1. rev_id \in 1 .. rev_id
    BY <1>3 DEF RevId
  <2> QED BY <1>1, <1>2, <1>4, <1>5, <2>1 DEF StoredInOrder
<1>7. OldP' = OldP \cup NewP /\ OldS' = OldS \cup NewS
  BY <1>1, Kinds, IdsConcat DEF OldP, OldS, NewP, NewS
<1>8. /\ \A p : ParagraphSentences(p)' = ParagraphSentences(p)
      /\ \A s : SentenceTokens(s)' = SentenceTokens(s)
      /\ \A p : ParagraphTokens(p)' = ParagraphTokens(p)
  BY <1>1 DEF ParagraphSentences, SentenceTokens, ParagraphTokens
<1>9. HashTablesSound'
  <2>1. IsInjective(paragraphs_ht') /\ IsInjective(sentences_ht')
    BY <1>1, <1>2, Kinds, InjectiveConcat
       DEF HashTablesSound, WorkInv, NewIds, OldP, OldS, NewP, NewS
  <2>2. OldP = UNION { Ids(revisions[r].paragraphs) : r \in Stored }
    BY <1>2 DEF HashTablesSound, OldP
  <2>3. OldP' = UNION { Ids(revisions'[r].paragraphs) : r \in Stored' }
    BY <1>2, <1>4, <1>5, <1>7, <2>2 DEF WorkInv, InUse
  <2>4. OldS = SentencesOf(OldP)
    BY <1>2 DEF HashTablesSound, OldP, OldS, SentencesOf
  <2>5. SentencesOf(OldP \cup NewP) = SentencesOf(OldP) \cup SentencesOf(NewP)
    BY DEF SentencesOf
  <2>6. OldS' = SentencesOf(OldP \cup NewP)
    BY <1>2, <1>7, <2>4, <2>5 DEF WorkInv, InUse
  <2>7. OldS' = UNION { ParagraphSentences(p)' : p \in OldP' }
    BY <1>7, <1>8, <2>6 DEF SentencesOf
  <2> QED BY <2>1, <2>3, <2>7 DEF HashTablesSound, OldP, OldS
<1>10. StoredSpelled'
  <2>1. \A s \in OldS \cup NewS : SentenceWhole(s)
    BY <1>1, <1>2 DEF ArticleInv, StoredSpelled, LoopInv, Wholes
  <2>2. \A p \in OldP \cup NewP : ParagraphWhole(p)
    BY <1>1, <1>2 DEF ArticleInv, StoredSpelled, LoopInv, Wholes
  <2>3. \A s : SentenceWhole(s) => SentenceWhole(s)'
    BY <1>1 DEF SentenceWhole, SentencePart
  <2>4. \A p : ParagraphWhole(p) => ParagraphWhole(p)'
    BY <1>1 DEF ParagraphWhole, ParagraphPart
  <2>5. \A ps, t : TextPart(ps, t) => TextPart(ps, t)'
    BY <1>1 DEF TextPart
  <2>6. TextPart(curr, text) /\ Len(curr) = Len(split_paragraphs[text])
    BY <1>1, <1>2 DEF WorkInv, Parts, LoopInv, Wholes
  <2>7. ASSUME NEW r \in Stored'
        PROVE  /\ revisions'[r].text \in Text
               /\ TextPart(revisions[r].paragraphs, revisions[r].text)'
               /\ Len(revisions'[r].paragraphs) = Len(split_paragraphs[revisions'[r].text])
    <3>1. CASE r = rev_id
      BY <1>1, <1>3, <1>5, <2>6, <3>1 DEF TextPart
    <3>2. CASE r \in Stored
      BY <1>1, <1>2, <1>5, <3>2 DEF ArticleInv, StoredSpelled, TextPart
    <3> QED BY <1>4, <3>1, <3>2
  <2> QED BY <1>7, <2>1, <2>2, <2>3, <2>4, <2>7 DEF StoredSpelled
<1>11. StoredDistinct'
  <2>1. \A P : Separate(P) => Separate(P)'
    BY <1>1, <1>8 DEF Separate
  <2>2. ASSUME NEW r \in Stored'
        PROVE  IsInjective(revisions'[r].paragraphs) /\ Separate(Ids(revisions'[r].paragraphs))
    <3>1. CASE r = rev_id
      BY <1>2, <1>5, <3>1 DEF WorkInv, Apart
    <3>2. CASE r \in Stored
      BY <1>2, <1>5, <3>2 DEF ArticleInv, StoredDistinct
    <3> QED BY <1>4, <3>1, <3>2
  <2>3. \A r \in Stored' : Separate(Ids(revisions[r].paragraphs))'
    BY <1>1, <1>8, <2>2 DEF Separate
  <2> QED BY <2>2, <2>3 DEF StoredDistinct
<1> QED BY <1>1, <1>6, <1>9, <1>10, <1>11 DEF MatchInv, ArticleInv

LEMMA MatchStep == ASSUME TypeOK, MatchInv, [Next]_vars PROVE MatchInv'
<1>1. CASE UNCHANGED vars
  <2>1. KnownAlone /\ (pc # "idle" => BuildsNothing)
    BY <1>1 DEF vars, KnownAlone, BuildsNothing
  <2>2. StoredInOrder' /\ ArticleInv'
    BY <1>1, <2>1, KnownStands DEF vars, MatchInv, StoredInOrder, Stored, Ids
  <2>3. CASE pc = "idle"
    BY <1>1, <2>2, <2>3 DEF vars, MatchInv
  <2>4. CASE pc # "idle"
    <3>1. /\ WorkInv' /\ OldP' = OldP /\ OldS' = OldS /\ NewP' = NewP /\ NewS' = NewS
          /\ \A s \in Sids : SentenceWhole(s) => SentenceWhole(s)'
          /\ \A p \in Pids : ParagraphWhole(p) => ParagraphWhole(p)'
          /\ NewP \subseteq Pids /\ NewS \subseteq Sids /\ LoopInv
      BY <2>1, <2>4, WorkStands, Allocated DEF MatchInv
    <3>2. LoopInv'
      BY <1>1, <3>1 DEF vars, LoopInv, PrevLists, TodoIds, Wholes
    <3> QED BY <2>2, <3>1, <3>2 DEF MatchInv
  <2> QED BY <2>3, <2>4
<1>2. CASE \E t \in Text : HashMatch(t)
  BY <1>2, ArrivalMatch
<1>3. CASE \E t \in Text, move \in BOOLEAN : LengthShrink(t, move) \/ BeginCascade(t, move)
  BY <1>3, ArrivalMatch
<1>4. CASE Step
  BY <1>4, ReuseParagraphMatch, AllocParagraphMatch, ParagraphLoopsMatch,
     ReuseSentenceMatch, AllocSentenceMatch, SentenceLoopsMatch, GateMatch,
     KeepEntryMatch, AllocWordMatch, WordLoopsMatch, RecorderMatch, CommitMatch DEF Step
<1> QED BY <1>1, <1>2, <1>3, <1>4 DEF Next

(* Whatever the feed, the splits and the transcripts of the diff, matching *)
(* keeps the article in order, its hash tables sound, its paragraphs and   *)
(* sentences spelled as their hashes say and its tokens apart, and what    *)
(* the call in progress has built fits with it.                            *)
THEOREM MatchingCorrect == Spec => []MatchInv
<1>1. TypeOK /\ MatchInv /\ [Next]_vars => MatchInv'
  BY MatchStep
<1> QED BY <1>1, MatchInit, TypeCorrect, PTL DEF Spec

(* The hash tables name what the stored revisions are made of, each id     *)
(* once, and nothing that a rolled-back revision allocated.                *)
THEOREM TablesAreSound == Spec => []HashTablesSound
<1>1. MatchInv => HashTablesSound
  BY DEF MatchInv, ArticleInv
<1> QED BY <1>1, MatchingCorrect, PTL
-----------------------------------------------------------------------------
(* A token of a stored revision stands at one of its places only. *)
LEMMA OnePlace ==
  ASSUME TypeOK, MatchInv, NEW r \in Stored,
         NEW o1 \in TokenPlaces(revisions[r].paragraphs),
         NEW o2 \in TokenPlaces(revisions[r].paragraphs),
         TokenAt(revisions[r].paragraphs, o1) = TokenAt(revisions[r].paragraphs, o2)
  PROVE  o1 = o2
<1>1. PICK paras : paras = revisions[r].paragraphs
  OBVIOUS
<1>2. IsInjective(paras) /\ Separate(Ids(paras))
  BY <1>1 DEF MatchInv, ArticleInv, StoredDistinct
<1> DEFINE sents(i)    == paragraphs[paras[i]].sentences
           toks(i, j)  == sentences[sents(i)[j]].words
           place(o, i, j, k) == /\ i \in DOMAIN paras /\ j \in DOMAIN sents(i)
                                /\ k \in DOMAIN toks(i, j) /\ o = <<i, j, k>>
<1>0. ASSUME NEW o \in TokenPlaces(paras) PROVE \E i, j, k : place(o, i, j, k)
  <2>1. PICK i \in DOMAIN paras :
          o \in UNION { { <<i, j, k>> : k \in DOMAIN toks(i, j) } : j \in DOMAIN sents(i) }
    BY DEF TokenPlaces
  <2>2. PICK j \in DOMAIN sents(i) : o \in { <<i, j, k>> : k \in DOMAIN toks(i, j) }
    BY <2>1
  <2> QED BY <2>2
<1>3. PICK i1, j1, k1 : place(o1, i1, j1, k1)
  BY <1>0, <1>1
<1>4. PICK i2, j2, k2 : place(o2, i2, j2, k2)
  BY <1>0, <1>1
<1> DEFINE p1 == paras[i1]
           p2 == paras[i2]
           s1 == paragraphs[p1].sentences[j1]
           s2 == paragraphs[p2].sentences[j2]
           w == sentences[s1].words[k1]
<1>5. w = sentences[s2].words[k2]
  BY <1>1, <1>3, <1>4, ZenonT(20) DEF TokenAt
<1>6. /\ p1 \in Ids(paras) /\ p2 \in Ids(paras)
      /\ s1 \in ParagraphSentences(p1) /\ s2 \in ParagraphSentences(p2)
      /\ w \in SentenceTokens(s1) /\ w \in SentenceTokens(s2)
  BY <1>3, <1>4, <1>5, ZenonT(20) DEF Ids, ParagraphSentences, SentenceTokens
<1>7. w \in ParagraphTokens(p1) /\ w \in ParagraphTokens(p2)
  BY <1>6, ZenonT(20) DEF ParagraphTokens
<1>8. i1 = i2
  <2>1. p1 = p2
    BY <1>2, <1>6, <1>7 DEF Separate
  <2> QED BY <1>2, <1>3, <1>4, <2>1 DEF IsInjective
<1>9. j1 = j2
  <2>1. s1 = s2
    BY <1>2, <1>6, <1>8 DEF Separate
  <2>2. IsInjective(paragraphs[p1].sentences)
    BY <1>2, <1>6 DEF Separate
  <2> QED BY <1>3, <1>4, <1>8, <2>1, <2>2 DEF IsInjective
<1>10. k1 = k2
  <2>1. IsInjective(sentences[s1].words)
    BY <1>2, <1>6 DEF Separate
  <2> QED BY <1>3, <1>4, <1>5, <1>8, <1>9, <2>1, ZenonT(20) DEF IsInjective
<1> QED BY <1>3, <1>4, <1>8, <1>9, <1>10

(* The matched flags of the three levels never let one previous word serve *)
(* two current ones: no token stands at two places of a stored revision.   *)
THEOREM DistinctTokens == Spec => []TokensDistinct
<1>1. TypeOK /\ MatchInv => TokensDistinct
  BY OnePlace DEF TokensDistinct
<1> QED BY <1>1, MatchingCorrect, TypeCorrect, PTL
-----------------------------------------------------------------------------
(* What a sentence, a paragraph and a revision spell. *)
WordValues == [w \in Tids |-> words[w].value]

LEMMA SentenceSpells ==
  ASSUME TypeOK, NEW s \in Sids, SentenceWhole(s)
  PROVE  split_tokens[sentences[s].hash_value] = MapSeq(WordValues, sentences[s].words)
<1> DEFINE ws == sentences[s].words
           t  == split_tokens[sentences[s].hash_value]
<1>1. ws \in Seq(Tids) /\ sentences[s] \in Sentence
  <2>1. sentences \in Seq(Sentence) /\ ws \in Seq(Tids)
    BY Kinds DEF TypeOK, ArenasOK
  <2> QED BY <2>1, LenProperties DEF Sids
<1>2. t \in Seq(Token)
  BY <1>1, SplitAssumption DEF Sentence
<1>3. Len(ws) = Len(t) /\ \A k \in DOMAIN ws : words[ws[k]].value = t[k]
  BY DEF SentenceWhole, SentencePart
<1> HIDE DEF ws, t
<1>4. /\ DOMAIN ws = 1 .. Len(ws) /\ \A k \in 1 .. Len(ws) : ws[k] \in Tids
      /\ DOMAIN t = 1 .. Len(t) /\ t \in [1 .. Len(t) -> Token]
  BY <1>1, <1>2, LenProperties
<1>5. \A k \in DOMAIN ws : WordValues[ws[k]] = t[k]
  BY <1>3, <1>4 DEF WordValues
<1>6. t = [k \in DOMAIN ws |-> WordValues[ws[k]]]
  BY <1>3, <1>4, <1>5
<1> QED BY <1>6 DEF MapSeq, ws, t

ParagraphList(p) ==
  FlattenSeq([j \in DOMAIN paragraphs[p].sentences |->
                sentences[paragraphs[p].sentences[j]].words])
ParagraphSpelling(h) ==
  FlattenSeq([j \in DOMAIN split_sentences[h] |-> split_tokens[split_sentences[h][j]]])

LEMMA ParagraphSpells ==
  ASSUME TypeOK, MatchInv, NEW p \in OldP
  PROVE  /\ ParagraphList(p) \in Seq(Tids)
         /\ ParagraphSpelling(paragraphs[p].hash_value) = MapSeq(WordValues, ParagraphList(p))
<1> DEFINE ss == paragraphs[p].sentences
           t  == split_sentences[paragraphs[p].hash_value]
           a  == [j \in DOMAIN ss |-> sentences[ss[j]].words]
           b  == [j \in DOMAIN t |-> split_tokens[t[j]]]
<1>1. p \in Pids /\ paragraphs[p] \in Paragraph /\ ss \in Seq(Sids)
  <2>1. p \in Pids
    BY Allocated
  <2>2. paragraphs \in Seq(Paragraph) /\ ss \in Seq(Sids)
    BY <2>1, Kinds DEF TypeOK, ArenasOK
  <2> QED BY <2>1, <2>2, LenProperties DEF Pids
<1>2. t \in Seq(SentenceHash)
  BY <1>1, SplitAssumption DEF Paragraph
<1>3. Len(ss) = Len(t) /\ \A j \in DOMAIN ss : sentences[ss[j]].hash_value = t[j]
  BY DEF MatchInv, ArticleInv, StoredSpelled, ParagraphWhole, ParagraphPart
<1>4. \A j \in DOMAIN ss : ss[j] \in OldS
  BY KnownParts DEF MatchInv, ArticleInv, ParagraphSentences
<1> HIDE DEF ss, t
<1>5. /\ DOMAIN ss = 1 .. Len(ss) /\ Len(ss) \in Nat /\ DOMAIN t = 1 .. Len(t)
      /\ \A j \in 1 .. Len(ss) : ss[j] \in Sids
      /\ \A j \in 1 .. Len(t) : t[j] \in SentenceHash
  BY <1>1, <1>2, LenProperties
<1>6. a \in Seq(Seq(Tids)) /\ Len(a) = Len(ss)
  <2>1. \A j \in 1 .. Len(ss) : sentences[ss[j]].words \in Seq(Tids)
    BY <1>5, Kinds
  <2>2. a \in [1 .. Len(ss) -> Seq(Tids)]
    BY <1>5, <2>1
  <2> QED BY <1>5, <2>2, FunctionIsSeq
<1>7. b \in Seq(Seq(Token)) /\ Len(b) = Len(ss)
  <2>1. \A j \in 1 .. Len(t) : split_tokens[t[j]] \in Seq(Token)
    BY <1>5, SplitAssumption
  <2>2. b \in [1 .. Len(ss) -> Seq(Token)]
    BY <1>3, <1>5, <2>1
  <2> QED BY <1>5, <2>2, FunctionIsSeq, ZenonT(20)
<1>8. ASSUME NEW j \in 1 .. Len(a) PROVE b[j] = MapSeq(WordValues, a[j])
  <2>1. j \in DOMAIN ss /\ j \in DOMAIN t /\ ss[j] \in Sids /\ SentenceWhole(ss[j])
    BY <1>3, <1>4, <1>5, <1>6 DEF MatchInv, ArticleInv, StoredSpelled
  <2>2. split_tokens[sentences[ss[j]].hash_value] = MapSeq(WordValues, sentences[ss[j]].words)
    BY <2>1, SentenceSpells
  <2> QED BY <1>3, <2>1, <2>2
<1> HIDE DEF a, b
<1>9. FlattenSeq(a) \in Seq(Tids) /\ FlattenSeq(b) = MapSeq(WordValues, FlattenSeq(a))
  BY <1>6, <1>7, <1>8, FlattenMap
<1> QED BY <1>9 DEF a, b, ss, t, ParagraphList, ParagraphSpelling

LEMMA RevisionSpells ==
  ASSUME TypeOK, MatchInv, NEW r \in Stored
  PROVE  /\ iter_rev_tokens(r) \in Seq(Tids)
         /\ spelling_of(revisions[r].text) = MapSeq(WordValues, iter_rev_tokens(r))
<1> DEFINE ps == revisions[r].paragraphs
           t  == split_paragraphs[revisions[r].text]
           a  == [i \in DOMAIN ps |-> ParagraphList(ps[i])]
           b  == [i \in DOMAIN t |-> ParagraphSpelling(t[i])]
<1>1. r \in RevId /\ ps \in Seq(Pids)
  <2>1. r \in RevId
    <3>1. r \in 1 .. rev_id /\ rev_id \in RevId
      BY DEF MatchInv, StoredInOrder, TypeOK, InputOK
    <3> QED BY <3>1, BoundAssumption DEF RevId
  <2>2. \A n \in RevId : revisions[n].paragraphs \in Seq(Pids)
    BY SMTT(20) DEF TypeOK, StoreOK
  <2> QED BY <2>1, <2>2
<1>2. t \in Seq(ParagraphHash)
  BY SplitAssumption DEF MatchInv, ArticleInv, StoredSpelled
<1>3. Len(ps) = Len(t) /\ \A i \in DOMAIN ps : paragraphs[ps[i]].hash_value = t[i]
  BY DEF MatchInv, ArticleInv, StoredSpelled, TextPart
<1>4. \A i \in DOMAIN ps : ps[i] \in OldP
  BY KnownParts DEF MatchInv, ArticleInv, Ids
<1> HIDE DEF ps, t
<1>5. /\ DOMAIN ps = 1 .. Len(ps) /\ Len(ps) \in Nat /\ DOMAIN t = 1 .. Len(t)
  BY <1>1, <1>2, LenProperties
<1>6. \A i \in 1 .. Len(ps) : /\ ParagraphList(ps[i]) \in Seq(Tids)
                              /\ ParagraphSpelling(t[i]) = MapSeq(WordValues, ParagraphList(ps[i]))
  BY <1>3, <1>4, <1>5, ParagraphSpells
<1>7. a \in Seq(Seq(Tids)) /\ Len(a) = Len(ps)
  <2>1. a \in [1 .. Len(ps) -> Seq(Tids)]
    BY <1>5, <1>6
  <2> QED BY <1>5, <2>1, FunctionIsSeq
<1>8. \A i \in 1 .. Len(a) : b[i] = MapSeq(WordValues, a[i])
  BY <1>3, <1>5, <1>6, <1>7
<1>9. PICK V : b \in Seq(V) /\ Len(b) = Len(a)
  <2> DEFINE V == { ParagraphSpelling(t[i]) : i \in DOMAIN t }
  <2>1. b \in [1 .. Len(ps) -> V]
    BY <1>3, <1>5
  <2> HIDE DEF V, b
  <2>2. b \in Seq(V) /\ Len(b) = Len(a)
    BY <1>5, <1>7, <2>1, FunctionIsSeq
  <2> QED BY <2>2
<1> HIDE DEF a, b
<1>10. FlattenSeq(a) \in Seq(Tids) /\ FlattenSeq(b) = MapSeq(WordValues, FlattenSeq(a))
  BY <1>7, <1>8, <1>9, FlattenMap
<1> QED BY <1>10, ZenonT(20) DEF a, b, ps, t, ParagraphList, ParagraphSpelling, iter_rev_tokens, spelling_of

(* Whichever paragraphs, sentences and words matching reused, the tokens   *)
(* of a stored revision spell the text it was given.                       *)
THEOREM TextReconstructed == Spec => []ReconstructsText
<1>1. ASSUME TypeOK, MatchInv, NEW r \in Stored
      PROVE  LET tokens == iter_rev_tokens(r)
             IN  [i \in DOMAIN tokens |-> words[tokens[i]].value] = spelling_of(revisions[r].text)
  <2>1. PICK tokens : tokens = iter_rev_tokens(r)
    OBVIOUS
  <2>2. /\ tokens \in Seq(Tids)
        /\ spelling_of(revisions[r].text) = MapSeq(WordValues, tokens)
    BY <1>1, <2>1, RevisionSpells
  <2>3. \A i \in DOMAIN tokens : tokens[i] \in Tids
    BY <2>2, LenProperties
  <2>4. MapSeq(WordValues, tokens) = [i \in DOMAIN tokens |-> words[tokens[i]].value]
    BY <2>3 DEF MapSeq, WordValues
  <2> QED BY <2>1, <2>2, <2>4
<1>2. TypeOK /\ MatchInv => ReconstructsText
  BY <1>1 DEF ReconstructsText
<1> QED BY <1>2, MatchingCorrect, TypeCorrect, PTL
-----------------------------------------------------------------------------
(* The paragraphs of the revision before, and what matching left of them.  *)
PrevP == Ids(revision_prev.paragraphs)
LeftP == Ids(unmatched_paragraphs_prev)
LeftS == Ids(unmatched_sentences_prev)
PrevT == TokensOf(PrevP)
CurrT == TokensOf(Ids(curr))

(* The call has taken a word out, or brought it back. *)
EndsWith(list, r) == list # << >> /\ list[Len(list)] = r
Gone(w) == EndsWith(words[w].outbound, rev_id)
Came(w) == EndsWith(words[w].inbound, rev_id)

StoredSorted ==
  /\ \A r \in Stored : r <= last_good_rev_id /\ revisions[r].id = r
  /\ last_good_rev_id = 0 => Stored = {}

(* A word of the stored revisions has the history they say, whatever the   *)
(* call in progress has added; a word it allocated has none.               *)
Balanced(w) ==
  \A r \in Stored : Ins(w, r) - Outs(w, r) = IF Present(w, r) THEN 1 ELSE 0
LastSeen(w) ==
  /\ IF pc = "commit" /\ w \in CurrT THEN words[w].last_rev_id = rev_id
     ELSE words[w].last_rev_id \in Stored /\ Present(w, words[w].last_rev_id)
  /\ \A r \in Stored : Present(w, r) => r <= words[w].last_rev_id
OnceEach(list) == \A n \in DOMAIN list : n < Len(list) => list[n] \in Stored
Kept(w) ==
  /\ Balanced(w) /\ LastSeen(w) /\ words[w].origin_rev_id \in Stored
  /\ OnceEach(words[w].inbound) /\ OnceEach(words[w].outbound)
Fresh(w) ==
  /\ words[w].origin_rev_id = rev_id /\ words[w].last_rev_id = rev_id
  /\ words[w].inbound = << >> /\ words[w].outbound = << >>
WordsKnown ==
  /\ \A w \in OldT : Kept(w)
  /\ \A w \in Tids \ OldT : Recording /\ w \in CurrT /\ w \notin matchedT /\ Fresh(w)

(* What is matched is in use again, and will be met by the inbound pass. *)
MatchedInUse ==
  /\ matchedT \subseteq OldT /\ CurrT \cap OldT \subseteq InboundTokens
  /\ matched_paragraphs_prev \subseteq matchedP
  /\ matched_sentences_prev \subseteq matchedS /\ matchedS \subseteq OldS
  /\ \A p \in matchedP : ParagraphTokens(p) \subseteq matchedT
  /\ \A s \in matchedS \ LeftS : SentenceTokens(s) \subseteq matchedT
  /\ \A w \in matchedT \ CurrT : Recording /\ Gone(w) /\ w \in PrevT

(* What is not is left on a list, once. *)
LeftOver ==
  /\ LeftP \subseteq PrevP /\ IsInjective(unmatched_paragraphs_prev)
  /\ LeftS \subseteq SentencesOf(LeftP) /\ IsInjective(unmatched_sentences_prev)
  /\ LeftS \subseteq matched_sentences_prev
Skipped == unmatched_paragraphs_curr = << >>
AllListed ==
  /\ pc = "paragraphs" => LeftP = {}
  /\ pc \in {"paragraphs", "paragraphs_tail", "sentences"} \/ Skipped => unmatched_sentences_prev = << >>
  /\ pc # "paragraphs" => PrevP \subseteq matchedP \cup LeftP \cup
                            (IF pc = "paragraphs_tail" THEN Ids(todo) ELSE {})
  /\ pc = "paragraphs_tail" => IsInjective(todo) /\ Ids(todo) \subseteq PrevP \ LeftP
  /\ pc \in {"sentences", "sentences_tail", "gate", "words"} => ~ Skipped
  /\ pc = "sentences_tail" =>
       /\ Ids(todo) \subseteq LeftP
       /\ \A p \in LeftP : \/ ParagraphSentences(p) \subseteq matchedS
                           \/ todo # << >> /\ p \in Ids(Tail(todo))
                           \/ /\ todo # << >> /\ p = Head(todo)
                              /\ \A j \in DOMAIN paragraphs[p].sentences :
                                   j < pos => paragraphs[p].sentences[j] \in matchedS
  /\ (pc = "gate" \/ Recording) /\ ~ Skipped =>
       SentencesOf(LeftP) \subseteq matchedS

(* The words that have gone: the deletions of the diff, then those of the  *)
(* passes over what is left.                                               *)
GoneInPass(w) ==
  IF unmatched_sentences_prev # << >> THEN \E s \in LeftS : w \in SentenceTokens(s)
  ELSE \/ \E p \in LeftP \ Ids(todo) : w \in ParagraphTokens(p)
       \/ /\ todo # << >>
          /\ \E j \in DOMAIN CurrentParagraph.sentences :
               j < pos /\ w \in SentenceTokens(CurrentParagraph.sentences[j])
GoneWords ==
  /\ Recording => \A w \in CurrT : ~ Gone(w)
  /\ pc \in {"words", "record"} => \A w \in OldT \ matchedT : ~ Gone(w)
  /\ pc = "outbound" =>
       /\ IsInjective(todo) /\ Ids(todo) \subseteq LeftS
       /\ \A w \in OldT \ matchedT : Gone(w) <=> \E s \in LeftS \ Ids(todo) : w \in SentenceTokens(s)
  /\ pc = "outbound_paragraphs" =>
       /\ IsInjective(todo) /\ Ids(todo) \subseteq LeftP
       /\ unmatched_sentences_prev # << >> => todo = << >>
       /\ \A w \in OldT \ matchedT : Gone(w) <=> GoneInPass(w)
  /\ Recording /\ pc # "commit" => \A w \in OldT : ~ Came(w)
  /\ pc = "commit" => \A w \in OldT :
       /\ Gone(w) <=> w \in PrevT /\ w \notin CurrT
       /\ Came(w) <=> w \in CurrT /\ ~ w \in PrevT

HistInv ==
  /\ StoredSorted /\ WordsKnown
  /\ pc # "idle" => MatchedInUse /\ LeftOver /\ AllListed /\ GoneWords
-----------------------------------------------------------------------------
(* What the theorems before this one give. *)
Base == TypeOK /\ MatchInv /\ NoSpamInHistory

LEMMA WordIs ==
  ASSUME TypeOK, NEW w \in Tids
  PROVE  /\ words[w] \in Word
         /\ words[w].inbound \in Seq(RevId) /\ words[w].outbound \in Seq(RevId)
         /\ words[w].origin_rev_id \in RevId /\ words[w].last_rev_id \in RevId
<1>1. words[w] \in Word
  BY ElementOfSeq DEF TypeOK, ArenasOK, Tids
<1> QED BY <1>1 DEF Word

LEMMA RevIdIs == RevId \subseteq Nat /\ RevId \subseteq Int
BY BoundAssumption DEF RevId

(* The revisions before, and the words of those. *)
LEMMA Before0 ==
  ASSUME Base
  PROVE  /\ OldT \subseteq Tids /\ PrevP \subseteq OldP /\ PrevT \subseteq OldT
         /\ rev_id \in RevId /\ Stored \subseteq RevId /\ \A r \in Stored : r <= rev_id
         /\ pc # "idle" => \A r \in Stored : r < rev_id
         /\ \A r \in Stored : \A w : Present(w, r) => w \in OldT
<1> USE DEF Base
<1>1. OldT \subseteq Tids
  BY MembersType, Allocated DEF OldT
<1>2. /\ \A p \in OldP : ParagraphTokens(p) \subseteq OldT
      /\ \A r \in Stored : Ids(revisions[r].paragraphs) \subseteq OldP
      /\ Ids(revision_prev.paragraphs) \subseteq OldP
  BY KnownParts DEF MatchInv, ArticleInv
<1>3. PrevP \subseteq OldP /\ PrevT \subseteq OldT
  BY <1>2 DEF PrevP, PrevT, TokensOf
<1>4. /\ rev_id \in RevId /\ Stored \subseteq 1 .. rev_id
      /\ pc # "idle" => rev_id \notin Stored
  BY DEF TypeOK, InputOK, MatchInv, StoredInOrder
<1>5. \A r \in 1 .. rev_id : r \in RevId /\ r <= rev_id
  BY <1>4, BoundAssumption DEF RevId
<1>6. \A r \in Stored : \A w : Present(w, r) => w \in OldT
  BY <1>2 DEF Present
<1>7. rev_id \in Int /\ \A r \in Stored : r \in Int
  BY <1>4, <1>5, RevIdIs
<1>8. pc # "idle" => \A r \in Stored : r < rev_id
  <2> SUFFICES ASSUME pc # "idle", NEW r \in Stored PROVE r < rev_id
    OBVIOUS
  <2>1. r # rev_id /\ r <= rev_id /\ r \in Int /\ rev_id \in Int
    BY <1>4, <1>5, <1>7
  <2> QED BY <2>1
<1> QED BY <1>1, <1>3, <1>4, <1>5, <1>6, <1>8

(* What the call in progress has used so far. *)
WorkIs ==
  /\ CurrT \subseteq Tids /\ CurrT \cap OldT \subseteq matchedT
  /\ Ids(curr) \subseteq Pids /\ NewP \subseteq Ids(curr) /\ OldT \subseteq Tids
LEMMA InWork == Base /\ pc # "idle" => WorkIs
<1> SUFFICES ASSUME Base, pc # "idle" PROVE WorkIs
  OBVIOUS
<1>1. Ids(curr) \subseteq Pids
  BY Allocated DEF Base
<1>2. CurrT \subseteq Tids
  BY <1>1, MembersType DEF Base, CurrT, TokensOf
<1> QED BY <1>1, <1>2, Before0 DEF Base, MatchInv, WorkInv, Apart, InUse, CurrT, WorkIs

LEMMA InWorkNext == (Base /\ pc # "idle" => WorkIs)'
BY InWork, PTL
-----------------------------------------------------------------------------
(* Counting the events of a history up to a revision. *)
LEMMA LaterLeavesCount ==
  ASSUME NEW s \in Seq(RevId), NEW x \in RevId, NEW r \in RevId, r < x
  PROVE  { n \in DOMAIN Append(s, x) : Append(s, x)[n] <= r } = { n \in DOMAIN s : s[n] <= r }
<1>1. /\ DOMAIN s = 1 .. Len(s) /\ Len(s) \in Nat
      /\ DOMAIN Append(s, x) = 1 .. Len(s) + 1
      /\ \A n \in 1 .. Len(s) : Append(s, x)[n] = s[n]
      /\ Append(s, x)[Len(s) + 1] = x
  BY AppendProperties, LenProperties
<1>2. \A n \in 1 .. Len(s) + 1 : n \in 1 .. Len(s) \/ n = Len(s) + 1
  BY <1>1
<1>3. ~ (x <= r)
  BY RevIdIs
<1>4. \A n \in 1 .. Len(s) : n \in 1 .. Len(s) + 1
  BY <1>1
<1> QED BY <1>1, <1>2, <1>3, <1>4

LEMMA CountOnce ==
  ASSUME NEW s \in Seq(RevId), NEW a \in RevId, NEW b \in RevId, a < b,
         \A n \in DOMAIN s : s[n] <= a \/ (s[n] = b /\ n = Len(s))
  PROVE  /\ Cardinality({ n \in DOMAIN s : s[n] <= a }) \in Nat
         /\ Cardinality({ n \in DOMAIN s : s[n] <= b }) =
              Cardinality({ n \in DOMAIN s : s[n] <= a }) + (IF EndsWith(s, b) THEN 1 ELSE 0)
<1>1. DOMAIN s = 1 .. Len(s) /\ Len(s) \in Nat /\ \A n \in 1 .. Len(s) : s[n] \in Int
  BY LenProperties, RevIdIs
<1>2. a \in Int /\ b \in Int
  BY RevIdIs
<1>3. { n \in DOMAIN s : s[n] <= b } = 1 .. Len(s)
  BY <1>1, <1>2
<1>4. \A m \in Nat : Cardinality(1 .. m) = m
  <2> TAKE m \in Nat
  <2>1. Cardinality(1 .. m) = IF 1 > m THEN 0 ELSE m - 1 + 1
    BY FS_Interval
  <2> QED BY <2>1
<1>5. CASE EndsWith(s, b)
  <2>1. Len(s) # 0 /\ s[Len(s)] = b
    BY <1>5, EmptySeq DEF EndsWith
  <2>2. { n \in DOMAIN s : s[n] <= a } = 1 .. Len(s) - 1
    BY <1>1, <1>2, <2>1
  <2>3. Len(s) - 1 \in Nat /\ Len(s) = (Len(s) - 1) + 1
    BY <1>1, <2>1
  <2> QED BY <1>1, <1>3, <1>4, <1>5, <2>2, <2>3
<1>6. CASE ~ EndsWith(s, b)
  <2>1. \A n \in DOMAIN s : s[n] <= a
    <3> SUFFICES ASSUME NEW n \in DOMAIN s, s[n] = b, n = Len(s) PROVE FALSE
      OBVIOUS
    <3>1. s # << >>
      BY <1>1, EmptySeq
    <3> QED BY <1>6, <3>1 DEF EndsWith
  <2>2. { n \in DOMAIN s : s[n] <= a } = 1 .. Len(s)
    BY <1>1, <2>1
  <2>3. Cardinality(1 .. Len(s)) = Len(s) /\ Len(s) + 0 = Len(s)
    BY <1>1, <1>4
  <2> QED BY <1>1, <1>3, <1>6, <2>2, <2>3
<1> QED BY <1>5, <1>6

-----------------------------------------------------------------------------
(* Steps that leave what the article knows alone leave its revisions, and  *)
(* what is in them, as they are.                                           *)
LEMMA KnownHistory ==
  ASSUME Base, StoredSorted, KnownAlone, last_good_rev_id' = last_good_rev_id
  PROVE  /\ OldP' = OldP /\ OldS' = OldS /\ OldT' = OldT /\ Stored' = Stored
         /\ PrevP' = PrevP /\ PrevT' = PrevT /\ StoredSorted'
         /\ revision_prev' = revision_prev
         /\ \A r \in Stored : \A w : Present(w, r)' <=> Present(w, r)
         /\ \A p \in OldP : /\ ParagraphSentences(p)' = ParagraphSentences(p)
                            /\ ParagraphTokens(p)' = ParagraphTokens(p)
         /\ \A s \in OldS : SentenceTokens(s)' = SentenceTokens(s)
<1>1. /\ OldP' = OldP /\ OldS' = OldS /\ OldT' = OldT /\ Stored' = Stored
      /\ \A s \in OldS : SentenceTokens(s)' = SentenceTokens(s)
      /\ \A p \in OldP : ParagraphSentences(p)' = ParagraphSentences(p)
      /\ \A p \in OldP : ParagraphTokens(p)' = ParagraphTokens(p)
  BY SameKnown DEF Base, MatchInv, ArticleInv
<1>2. revisions' = revisions
  BY DEF KnownAlone
<1>3. revision_prev' = revision_prev /\ PrevP' = PrevP
  BY <1>2 DEF revision_prev, PrevP, Ids
<1>4. PrevT' = PrevT
  BY <1>1, <1>3, Before0 DEF PrevT, TokensOf
<1>5. StoredSorted'
  BY <1>1, <1>2 DEF StoredSorted
<1>6. \A r \in Stored : Ids(revisions[r].paragraphs) \subseteq OldP
  BY KnownParts DEF Base, MatchInv, ArticleInv
<1>7. \A r \in Stored : Ids(revisions[r].paragraphs)' = Ids(revisions[r].paragraphs)
  BY <1>2 DEF Ids
<1>8. \A r \in Stored : \A w : Present(w, r)' <=> Present(w, r)
  BY <1>1, <1>6, <1>7 DEF Present
<1> QED BY <1>1, <1>3, <1>4, <1>5, <1>8

(* The revision in progress comes once, at the end. *)
LEMMA OnceAppend ==
  ASSUME Base, NEW o \in Seq(RevId), Ids(o) \subseteq Stored \cup {rev_id},
         OnceEach(o), ~ EndsWith(o, rev_id)
  PROVE  OnceEach(Append(o, rev_id))
<1>1. /\ DOMAIN o = 1 .. Len(o) /\ Len(o) \in Nat
      /\ DOMAIN Append(o, rev_id) = 1 .. Len(o) + 1 /\ Len(Append(o, rev_id)) = Len(o) + 1
      /\ \A n \in 1 .. Len(o) : Append(o, rev_id)[n] = o[n]
  BY Before0, AppendProperties, LenProperties
<1>2. \A n \in 1 .. Len(o) : o[n] \in Stored \cup {rev_id}
  BY <1>1 DEF Ids
<1>3. ASSUME NEW n \in 1 .. Len(o) PROVE o[n] \in Stored
  <2>1. CASE n < Len(o)
    BY <1>1, <2>1 DEF OnceEach
  <2>2. CASE n = Len(o)
    <3>1. o # << >>
      BY <1>1, <2>2, EmptySeq
    <3> QED BY <1>2, <2>2, <3>1 DEF EndsWith
  <2>3. n < Len(o) \/ n = Len(o)
    <3>1. Len(o) \in Nat
      BY <1>1
    <3> QED BY ONLY <3>1, n \in 1 .. Len(o)
  <2> QED BY <2>1, <2>2, <2>3
<1>4. \A n \in 1 .. Len(o) + 1 : n < Len(o) + 1 => n \in 1 .. Len(o)
  BY <1>1
<1> QED BY <1>1, <1>3, <1>4 DEF OnceEach

(* The history of a word of the stored revisions goes on telling which of  *)
(* them it is in when the revision in progress is added to it once.        *)
LEMMA KeptStands ==
  ASSUME Base, StoredSorted, KnownAlone, last_good_rev_id' = last_good_rev_id,
         NEW w \in OldT, Kept(w), pc # "commit", pc' # "commit",
         words'[w].origin_rev_id = words[w].origin_rev_id,
         words'[w].last_rev_id = words[w].last_rev_id,
         words'[w].inbound = words[w].inbound,
         \/ words'[w].outbound = words[w].outbound
         \/ /\ pc # "idle" /\ ~ Gone(w)
            /\ words'[w].outbound = Append(words[w].outbound, rev_id)
  PROVE  Kept(w)'
<1> DEFINE o == words[w].outbound
<1>1. /\ Stored' = Stored /\ \A r \in Stored : Present(w, r)' <=> Present(w, r)
      /\ Stored \subseteq RevId /\ rev_id \in RevId /\ o \in Seq(RevId) /\ w \in Tids
      /\ pc # "idle" => \A r \in Stored : r < rev_id
  BY KnownHistory, Before0, WordIs DEF Base
<1>2. \A r \in Stored : Ins(w, r)' = Ins(w, r)
  BY DEF Ins
<1>3. \A r \in Stored : Outs(w, r)' = Outs(w, r)
  <2>1. CASE words'[w].outbound = o
    BY <2>1 DEF Outs
  <2>2. CASE pc # "idle" /\ words'[w].outbound = Append(o, rev_id)
    <3> SUFFICES ASSUME NEW r \in Stored PROVE Outs(w, r)' = Outs(w, r)
      OBVIOUS
    <3>1. r \in RevId /\ r < rev_id
      BY <1>1, <2>2
    <3>2. { n \in DOMAIN Append(o, rev_id) : Append(o, rev_id)[n] <= r } = { n \in DOMAIN o : o[n] <= r }
      BY <1>1, <3>1, LaterLeavesCount
    <3> QED BY <2>2, <3>2 DEF Outs
  <2> QED BY <2>1, <2>2
<1>4. Balanced(w)'
  BY <1>1, <1>2, <1>3 DEF Balanced, Kept
<1>5. LastSeen(w)'
  BY <1>1 DEF LastSeen, Kept
<1>6. OnceEach(words[w].outbound)'
  <2>1. CASE words'[w].outbound = o
    BY <1>1, <2>1 DEF OnceEach, Kept
  <2>2. CASE ~ Gone(w) /\ words'[w].outbound = Append(o, rev_id)
    <3>1. Ids(o) \subseteq Stored \cup {rev_id}
      BY <1>1 DEF Base, NoSpamInHistory, HistoryNames
    <3>2. OnceEach(Append(o, rev_id))
      BY <1>1, <2>2, <3>1, OnceAppend DEF Kept, Gone
    <3> QED BY <1>1, <2>2, <3>2 DEF OnceEach
  <2> QED BY <2>1, <2>2
<1>7. OnceEach(words[w].inbound)' /\ words'[w].origin_rev_id \in Stored'
  BY <1>1 DEF OnceEach, Kept
<1> QED BY <1>4, <1>5, <1>6, <1>7 DEF Kept

-----------------------------------------------------------------------------
(* Steps that write no word, before the gate.                              *)
LEMMA QuietWords ==
  ASSUME Base, Base', StoredSorted, WordsKnown, KnownAlone,
         UNCHANGED <<words, last_good_rev_id>>, ~ Recording, pc' # "commit"
  PROVE  StoredSorted' /\ WordsKnown'
<1>1. OldT' = OldT /\ StoredSorted' /\ pc # "commit"
  BY KnownHistory DEF Recording
<1>2. Tids \subseteq OldT /\ Tids' = Tids
  BY DEF WordsKnown, Tids
<1>3. \A w \in OldT : Kept(w)'
  BY <1>1, KeptStands DEF WordsKnown
<1> QED BY <1>1, <1>2, <1>3 DEF WordsKnown

(* No history names the revision in progress before the gate. *)
LEMMA NoneGone ==
  ASSUME Base, ~ Recording, pc # "idle", NEW w \in Tids
  PROVE  ~ Gone(w) /\ ~ Came(w)
<1>1. /\ Ids(words[w].inbound) \subseteq Stored /\ Ids(words[w].outbound) \subseteq Stored
      /\ rev_id \notin Stored
  BY DEF Base, NoSpamInHistory, HistoryNames, MatchInv, StoredInOrder
<1>2. ASSUME NEW s \in Seq(RevId), Ids(s) \subseteq Stored PROVE ~ EndsWith(s, rev_id)
  <2> SUFFICES ASSUME s # << >> PROVE s[Len(s)] \in Ids(s)
    BY <1>1, <1>2 DEF EndsWith
  <2>1. Len(s) \in DOMAIN s
    BY NonEmptySeq, LenProperties
  <2> QED BY <2>1 DEF Ids
<1> QED BY <1>1, <1>2, WordIs DEF Base, Gone, Came

LEMMA QuietGone ==
  ASSUME Base, Base', ~ Recording, pc # "idle", pc' # "idle",
         UNCHANGED <<words, rev_id>>, Recording' => pc' \in {"words", "record"}
  PROVE  GoneWords'
<1>1. \A w \in Tids : ~ Gone(w)' /\ ~ Came(w)'
  BY NoneGone DEF Gone, Came
<1>2. CurrT' \subseteq Tids' /\ OldT' \subseteq Tids' /\ Tids' = Tids
  BY InWorkNext DEF WorkIs, Tids
<1>3. pc' \notin {"outbound", "outbound_paragraphs", "commit"}
  BY DEF Recording
<1> QED BY <1>1, <1>2, <1>3 DEF GoneWords

(* What is met by the inbound passes stays so. *)
LEMMA InboundStands ==
  ASSUME Base, StoredSorted, KnownAlone, last_good_rev_id' = last_good_rev_id,
         matched_paragraphs_prev \subseteq OldP, matched_sentences_prev \subseteq OldS,
         matched_paragraphs_prev \subseteq matched_paragraphs_prev',
         matched_sentences_prev \subseteq matched_sentences_prev'
  PROVE  InboundTokens \subseteq InboundTokens'
<1>1. /\ \A p \in OldP : ParagraphTokens(p)' = ParagraphTokens(p)
      /\ \A s \in OldS : SentenceTokens(s)' = SentenceTokens(s)
  BY KnownHistory
<1> QED BY <1>1 DEF InboundTokens

(* Lists that matching does not touch go on naming what is left over. *)
LEMMA LeftStands ==
  ASSUME Base, StoredSorted, KnownAlone, last_good_rev_id' = last_good_rev_id, LeftOver,
         UNCHANGED <<unmatched_paragraphs_prev, unmatched_sentences_prev>>,
         matched_sentences_prev \subseteq matched_sentences_prev'
  PROVE  /\ LeftOver' /\ LeftP' = LeftP /\ LeftS' = LeftS
         /\ SentencesOf(LeftP)' = SentencesOf(LeftP)
<1>1. /\ PrevP' = PrevP /\ PrevP \subseteq OldP
      /\ \A p \in OldP : ParagraphSentences(p)' = ParagraphSentences(p)
  BY KnownHistory, Before0
<1>2. LeftP' = LeftP /\ LeftS' = LeftS
  BY DEF LeftP, LeftS, Ids
<1>3. LeftP \subseteq OldP
  BY <1>1 DEF LeftOver
<1>4. SentencesOf(LeftP)' = SentencesOf(LeftP)
  BY <1>1, <1>2, <1>3 DEF SentencesOf
<1> QED BY <1>1, <1>2, <1>4 DEF LeftOver

(* What a step matches anew comes into use with it, or is matched already. *)
LEMMA UseGrows ==
  ASSUME Base, StoredSorted, MatchedInUse, pc # "idle",
         KnownAlone, last_good_rev_id' = last_good_rev_id, Recording => Recording',
         CurrT \subseteq CurrT', matchedT' = matchedT \cup (CurrT' \cap OldT),
         CurrT' \cap OldT \subseteq InboundTokens',
         \A w \in matchedT : Gone(w) => Gone(w)',
         \A p \in matchedP' \ matchedP : p \in OldP /\ ParagraphTokens(p) \subseteq matchedT',
         LeftS \subseteq LeftS',
         \A s \in matchedS' \ (matchedS \cup LeftS') : SentenceTokens(s) \subseteq matchedT',
         matched_paragraphs_prev' \subseteq matchedP',
         matched_sentences_prev' \subseteq matchedS', matchedS' \subseteq OldS
  PROVE  MatchedInUse'
<1>1. /\ OldT' = OldT /\ OldS' = OldS /\ PrevT' = PrevT
      /\ \A p \in OldP : ParagraphTokens(p)' = ParagraphTokens(p)
      /\ \A s \in OldS : SentenceTokens(s)' = SentenceTokens(s)
  BY KnownHistory
<1>2. matchedP \subseteq OldP
  BY DEF Base, MatchInv, WorkInv, Apart
<1>3. matchedT' \subseteq OldT' /\ CurrT' \cap OldT' \subseteq InboundTokens'
  BY <1>1 DEF MatchedInUse
<1>4. \A p \in matchedP' : ParagraphTokens(p)' \subseteq matchedT'
  <2> SUFFICES ASSUME NEW p \in matchedP' PROVE ParagraphTokens(p)' \subseteq matchedT'
    OBVIOUS
  <2>1. p \in OldP /\ ParagraphTokens(p) \subseteq matchedT'
    BY <1>2 DEF MatchedInUse
  <2> QED BY <1>1, <2>1
<1>5. \A s \in matchedS' \ LeftS' : SentenceTokens(s)' \subseteq matchedT'
  <2> SUFFICES ASSUME NEW s \in matchedS' \ LeftS' PROVE SentenceTokens(s)' \subseteq matchedT'
    OBVIOUS
  <2>1. s \in OldS /\ SentenceTokens(s) \subseteq matchedT'
    BY DEF MatchedInUse
  <2> QED BY <1>1, <2>1
<1>6. \A w \in matchedT' \ CurrT' : Recording' /\ Gone(w)' /\ w \in PrevT'
  BY <1>1 DEF MatchedInUse
<1> QED BY <1>1, <1>3, <1>4, <1>5, <1>6 DEF MatchedInUse
-----------------------------------------------------------------------------
(* A revision arrives. *)
LEMMA ArrivalHist ==
  ASSUME Base, Base', HistInv, NEW t \in Text, NEW move \in BOOLEAN,
         HashMatch(t) \/ LengthShrink(t, move) \/ BeginCascade(t, move)
  PROVE  HistInv'
<1>1. /\ pc = "idle" /\ pc' \in {"idle", "paragraphs"}
      /\ UNCHANGED <<words, sentences, paragraphs, paragraphs_ht, sentences_ht, revisions,
                     ordered_revisions, last_good_rev_id>>
  BY DEF HashMatch, LengthShrink, BeginCascade, Arrives
<1>2. KnownAlone
  BY <1>1 DEF KnownAlone
<1>3. StoredSorted' /\ WordsKnown'
  BY <1>1, <1>2, QuietWords DEF HistInv, Recording
<1>4. CASE BeginCascade(t, move)
  <2>1. /\ pc' = "paragraphs" /\ curr' = << >> /\ matchedP' = {} /\ matchedS' = {} /\ matchedT' = {}
        /\ matched_paragraphs_prev' = {} /\ matched_sentences_prev' = {}
        /\ unmatched_paragraphs_prev' = << >> /\ unmatched_sentences_prev' = << >>
    BY <1>4 DEF BeginCascade
  <2>2. LeftP' = {} /\ LeftS' = {} /\ CurrT' = {} /\ ~ Recording'
    BY <2>1, EmptyIds DEF LeftP, LeftS, CurrT, TokensOf, Recording
  <2>3. MatchedInUse'
    BY <2>1, <2>2 DEF MatchedInUse
  <2>4. LeftOver'
    BY <2>1, <2>2, EmptyIds DEF LeftOver
  <2>5. AllListed'
    BY <2>1, <2>2 DEF AllListed
  <2>6. GoneWords'
    BY <2>1, <2>2 DEF GoneWords
  <2> QED BY <1>3, <2>3, <2>4, <2>5, <2>6 DEF HistInv
<1>5. CASE HashMatch(t) \/ LengthShrink(t, move)
  <2>1. pc' = "idle"
    BY <1>1, <1>5 DEF HashMatch, LengthShrink
  <2> QED BY <1>3, <2>1 DEF HistInv
<1> QED BY <1>4, <1>5
-----------------------------------------------------------------------------
(* The paragraph level. *)
LEMMA ReuseParagraphHist ==
  ASSUME Base, Base', HistInv, ReuseParagraph
  PROVE  HistInv'
<1>1. /\ pc = "paragraphs" /\ pc' = "paragraphs" /\ ~ Recording
      /\ UNCHANGED <<words, sentences, paragraphs, paragraphs_ht, sentences_ht, revisions,
                     ordered_revisions, last_good_rev_id, rev_id, unmatched_paragraphs_prev,
                     unmatched_paragraphs_curr, matched_sentences_prev,
                     unmatched_sentences_prev, unmatched_sentences_curr, todo>>
  BY DEF ReuseParagraph, Recording
<1>2. PICK c \in Places(ParagraphRows) :
        LET p == At(ParagraphRows, c)
            passed == SpentParagraphs(NextParagraphHash, PlacesBefore(ParagraphRows, c))
        IN  /\ matchedP' = matchedP \cup passed \cup {p}
            /\ matched_paragraphs_prev' = matched_paragraphs_prev \cup passed \cup {p}
            /\ matchedS' = matchedS \cup ParagraphSentences(p)
            /\ matchedT' = matchedT \cup ParagraphTokens(p)
            /\ curr' = Append(curr, p)
  BY DEF ReuseParagraph
<1> DEFINE passed == SpentParagraphs(NextParagraphHash, PlacesBefore(ParagraphRows, c))
<1>p. PICK p : p = At(ParagraphRows, c)
  OBVIOUS
<1>3. p \in OldP /\ p \in Pids
  BY <1>p, KnownParagraphs, Allocated DEF Base, MatchInv, ArticleInv
<1>4. passed \subseteq OldP /\ \A q \in passed : ParagraphTokens(q) \subseteq matchedT
  <2>1. PlacesBefore(ParagraphRows, c) \subseteq Places(ParagraphRows)
    BY DEF PlacesBefore
  <2>2. \A q \in passed : \E d \in Places(ParagraphRows) : At(ParagraphRows, d) = q
    BY <2>1 DEF SpentParagraphs
  <2>3. \A q \in passed : ParagraphTokens(q) \subseteq matchedT
    BY DEF SpentParagraphs, AllMatched
  <2> QED BY <2>2, <2>3, KnownParagraphs DEF Base, MatchInv, ArticleInv
<1>5. /\ matchedP' = matchedP \cup passed \cup {p}
      /\ matched_paragraphs_prev' = matched_paragraphs_prev \cup passed \cup {p}
      /\ matchedS' = matchedS \cup ParagraphSentences(p)
      /\ matchedT' = matchedT \cup ParagraphTokens(p)
      /\ curr' = Append(curr, p)
  BY <1>2, <1>p
<1> HIDE DEF passed
<1>6. KnownAlone
  BY <1>1 DEF KnownAlone
<1>7. StoredSorted /\ MatchedInUse /\ LeftOver /\ AllListed /\ WordsKnown
  BY <1>1 DEF HistInv
<1>8. /\ ParagraphTokens(p) \subseteq OldT /\ ParagraphSentences(p) \subseteq OldS
      /\ \A s \in ParagraphSentences(p) : SentenceTokens(s) \subseteq ParagraphTokens(p)
  <2>1. ParagraphTokens(p) \subseteq OldT /\ ParagraphSentences(p) \subseteq OldS
    BY <1>3, KnownParts DEF Base, MatchInv, ArticleInv
  <2> QED BY <2>1 DEF ParagraphTokens
<1>9. CurrT' = CurrT \cup ParagraphTokens(p)
  <2>1. Ids(curr') = Ids(curr) \cup {p}
    BY <1>3, <1>5, Kinds, IdsAppend DEF Base
  <2>2. \A q : ParagraphTokens(q)' = ParagraphTokens(q)
    BY <1>1 DEF ParagraphTokens, ParagraphSentences, SentenceTokens
  <2> QED BY <2>1, <2>2 DEF CurrT, TokensOf
<1>10. CurrT \cap OldT \subseteq matchedT
  BY <1>1, InWork DEF WorkIs
<1>11. MatchedInUse'
  <2>1. LeftS' = LeftS
    BY <1>1 DEF LeftS, Ids
  <2>2. \A w \in matchedT : Gone(w) => Gone(w)'
    BY <1>1 DEF Gone
  <2>3. matchedT' = matchedT \cup (CurrT' \cap OldT)
    BY <1>5, <1>8, <1>9, <1>10
  <2>4. CurrT' \cap OldT \subseteq InboundTokens'
    <3>1. matched_paragraphs_prev \subseteq OldP /\ matched_sentences_prev \subseteq OldS
      BY <1>1, <1>7 DEF MatchedInUse, Base, MatchInv, WorkInv, Apart
    <3>2. InboundTokens \subseteq InboundTokens'
      BY <1>1, <1>5, <1>6, <1>7, <3>1, InboundStands
    <3>3. ParagraphTokens(p)' \subseteq InboundTokens' /\ ParagraphTokens(p)' = ParagraphTokens(p)
      <4>1. ParagraphTokens(p)' = ParagraphTokens(p)
        BY <1>1, <1>3, <1>6, <1>7, KnownHistory
      <4>2. p \in matched_paragraphs_prev'
        BY <1>5
      <4> QED BY <4>1, <4>2 DEF InboundTokens
    <3> QED BY <1>7, <1>9, <3>2, <3>3 DEF MatchedInUse
  <2>5. \A q \in matchedP' \ matchedP : q \in OldP /\ ParagraphTokens(q) \subseteq matchedT'
    BY <1>3, <1>4, <1>5
  <2>6. \A s \in matchedS' \ (matchedS \cup LeftS') : SentenceTokens(s) \subseteq matchedT'
    BY <1>5, <1>8
  <2>7. /\ matched_paragraphs_prev' \subseteq matchedP'
        /\ matched_sentences_prev' \subseteq matchedS' /\ matchedS' \subseteq OldS
    BY <1>1, <1>5, <1>7, <1>8 DEF MatchedInUse
  <2> QED BY <1>1, <1>6, <1>7, <1>9, <2>1, <2>2, <2>3, <2>4, <2>5, <2>6, <2>7, UseGrows
<1>12. LeftOver' /\ LeftP' = LeftP
  BY <1>1, <1>6, <1>7, LeftStands
<1>13. AllListed'
  BY <1>1, <1>7, <1>12 DEF AllListed, Skipped, Recording
<1>14. StoredSorted' /\ WordsKnown' /\ GoneWords'
  BY <1>1, <1>6, <1>7, QuietWords, QuietGone DEF Recording
<1> QED BY <1>11, <1>12, <1>13, <1>14 DEF HistInv

LEMMA AllocParagraphHist ==
  ASSUME Base, Base', HistInv, AllocParagraph
  PROVE  HistInv'
<1>0. PICK p : p = Len(paragraphs) + 1
  OBVIOUS
<1> DEFINE new == [hash_value |-> NextParagraphHash, sentences |-> << >>]
           passed == SpentParagraphs(NextParagraphHash, Places(ParagraphRows))
<1>1. /\ pc = "paragraphs" /\ pc' = "paragraphs" /\ Len(curr) < Len(split_paragraphs[text])
      /\ ~ Recording
      /\ paragraphs' = Append(paragraphs, new)
      /\ matchedP' = matchedP \cup passed
      /\ matched_paragraphs_prev' = matched_paragraphs_prev \cup passed
      /\ curr' = Append(curr, p)
      /\ UNCHANGED <<words, sentences, paragraphs_ht, sentences_ht, revisions,
                     ordered_revisions, last_good_rev_id, rev_id, matchedS, matchedT,
                     unmatched_paragraphs_prev, matched_sentences_prev,
                     unmatched_sentences_prev, todo>>
  BY <1>0 DEF AllocParagraph, Recording
<1>2. new \in Paragraph /\ new.sentences = << >>
  BY <1>1, NextParagraphHashType, EmptySeq DEF Paragraph, Base
<1>3. passed \subseteq OldP /\ \A q \in passed : ParagraphTokens(q) \subseteq matchedT
  <2>1. passed \subseteq OldP
    BY KnownParagraphs DEF SpentParagraphs, Base, MatchInv, ArticleInv
  <2> QED BY <2>1 DEF SpentParagraphs, AllMatched
<1> HIDE DEF new, passed
<1>4. /\ \A q \in Pids : paragraphs'[q] = paragraphs[q]
      /\ paragraphs'[p] = new /\ Pids \subseteq Nat /\ p \in Nat
  BY <1>0, <1>1, <1>2, AppendProperties, LenProperties DEF Base, TypeOK, ArenasOK, Pids
<1>5. KnownAlone
  BY <1>1, <1>4, Allocated DEF KnownAlone, Base
<1>6. StoredSorted /\ MatchedInUse /\ LeftOver /\ AllListed /\ WordsKnown
  BY <1>1 DEF HistInv
<1>7. CurrT' = CurrT
  <2>1. Ids(curr') = Ids(curr) \cup {p} /\ Ids(curr) \subseteq Pids
    <3>1. curr \in Seq(Nat)
      BY <1>4, Kinds, IdsOf, SeqOfIds DEF Base
    <3>2. Ids(Append(curr, p)) = Ids(curr) \cup {p}
      BY <1>4, <3>1, IdsAppend
    <3>3. Ids(curr) \subseteq Pids
      BY Allocated DEF Base
    <3> QED BY <1>1, <3>2, <3>3
  <2>2. \A s : SentenceTokens(s)' = SentenceTokens(s)
    BY <1>1 DEF SentenceTokens
  <2>3. \A q \in Pids : ParagraphTokens(q)' = ParagraphTokens(q)
    BY <1>4, <2>2 DEF ParagraphTokens, ParagraphSentences
  <2>4. ParagraphSentences(p)' = {}
    BY <1>2, <1>4, EmptyIds DEF ParagraphSentences
  <2>5. ParagraphTokens(p)' = {}
    BY <2>4 DEF ParagraphTokens
  <2> QED BY <2>1, <2>3, <2>5 DEF CurrT, TokensOf
<1>8. CurrT \cap OldT \subseteq matchedT
  BY <1>1, InWork DEF WorkIs
<1>9. MatchedInUse'
  <2>1. LeftS' = LeftS /\ \A w \in matchedT : Gone(w) => Gone(w)'
    BY <1>1 DEF LeftS, Ids, Gone
  <2>2. CurrT' \cap OldT \subseteq InboundTokens'
    <3>1. matched_paragraphs_prev \subseteq OldP /\ matched_sentences_prev \subseteq OldS
      BY <1>1, <1>6 DEF MatchedInUse, Base, MatchInv, WorkInv, Apart
    <3>2. InboundTokens \subseteq InboundTokens'
      BY <1>1, <1>5, <1>6, <3>1, InboundStands
    <3> QED BY <1>6, <1>7, <3>2 DEF MatchedInUse
  <2>3. \A q \in matchedP' \ matchedP : q \in OldP /\ ParagraphTokens(q) \subseteq matchedT'
    BY <1>1, <1>3
  <2>4. /\ matched_paragraphs_prev' \subseteq matchedP'
        /\ matched_sentences_prev' \subseteq matchedS' /\ matchedS' \subseteq OldS
    BY <1>1, <1>6 DEF MatchedInUse
  <2>5. matchedT' = matchedT \cup (CurrT' \cap OldT)
    BY <1>1, <1>7, <1>8
  <2> QED BY <1>1, <1>5, <1>6, <1>7, <2>1, <2>2, <2>3, <2>4, <2>5, UseGrows
<1>10. LeftOver' /\ LeftP' = LeftP
  BY <1>1, <1>5, <1>6, LeftStands
<1>11. AllListed'
  BY <1>1, <1>6, <1>10 DEF AllListed, Recording
<1>12. StoredSorted' /\ WordsKnown' /\ GoneWords'
  BY <1>1, <1>5, <1>6, QuietWords, QuietGone DEF Recording
<1> QED BY <1>9, <1>10, <1>11, <1>12 DEF HistInv

(* Steps that move a loop on and match nothing. *)
MovesOn ==
  /\ pc # "idle" /\ (Recording => Recording')
  /\ UNCHANGED <<words, sentences, paragraphs, paragraphs_ht, sentences_ht, revisions,
                 ordered_revisions, last_good_rev_id, rev_id, curr, matchedP, matchedS, matchedT,
                 matched_paragraphs_prev, matched_sentences_prev, unmatched_sentences_prev>>

LEMMA MovesOnIs ==
  ASSUME Base, HistInv, MovesOn
  PROVE  /\ KnownAlone /\ StoredSorted' /\ MatchedInUse'
         /\ PrevP' = PrevP /\ PrevT' = PrevT /\ LeftS' = LeftS /\ CurrT' = CurrT
         /\ OldP' = OldP /\ OldT' = OldT
         /\ \A p : ParagraphSentences(p)' = ParagraphSentences(p)
         /\ \A p : ParagraphTokens(p)' = ParagraphTokens(p)
         /\ \A s : SentenceTokens(s)' = SentenceTokens(s)
         /\ StoredSorted /\ MatchedInUse /\ LeftOver /\ AllListed /\ WordsKnown /\ GoneWords
<1> USE DEF MovesOn
<1>1. KnownAlone
  BY DEF KnownAlone
<1>2. StoredSorted /\ MatchedInUse /\ LeftOver /\ AllListed /\ WordsKnown /\ GoneWords
  BY DEF HistInv
<1>3. /\ \A s : SentenceTokens(s)' = SentenceTokens(s)
      /\ \A p : ParagraphSentences(p)' = ParagraphSentences(p)
  BY DEF SentenceTokens, ParagraphSentences
<1>4. \A p : ParagraphTokens(p)' = ParagraphTokens(p)
  BY <1>3 DEF ParagraphTokens
<1>5. Ids(curr)' = Ids(curr) /\ LeftS' = LeftS
  BY DEF Ids, LeftS
<1>6. CurrT' = CurrT
  BY <1>4, <1>5 DEF CurrT, TokensOf
<1>7. InboundTokens' = InboundTokens
  BY <1>3, <1>4 DEF InboundTokens
<1>8. CurrT \cap OldT \subseteq matchedT
  BY InWork DEF WorkIs
<1>9. MatchedInUse'
  <2>1. \A w \in matchedT : Gone(w) => Gone(w)'
    BY DEF Gone
  <2> QED BY <1>1, <1>2, <1>5, <1>6, <1>7, <1>8, <2>1, UseGrows DEF MatchedInUse
<1>10. /\ PrevP' = PrevP /\ PrevT' = PrevT /\ OldP' = OldP /\ OldT' = OldT /\ StoredSorted'
  BY <1>1, <1>2, KnownHistory
<1> QED BY <1>1, <1>2, <1>3, <1>4, <1>5, <1>6, <1>9, <1>10

(* Taking the head off a list that names each of its members once. *)
LEMMA InjectiveTail ==
  ASSUME NEW S, NEW s \in Seq(S), s # << >>, IsInjective(s)
  PROVE  /\ IsInjective(Tail(s)) /\ Head(s) \notin Ids(Tail(s))
         /\ Ids(Tail(s)) = Ids(s) \ {Head(s)} /\ Head(s) \in Ids(s)
<1>1. /\ Len(s) \in Nat \ {0} /\ DOMAIN s = 1 .. Len(s) /\ 1 \in DOMAIN s
      /\ Head(s) = s[1]
  BY NonEmptySeq
<1>2. /\ Tail(s) \in Seq(S) /\ Len(Tail(s)) = Len(s) - 1
      /\ \A i \in 1 .. Len(Tail(s)) : Tail(s)[i] = s[i + 1]
      /\ DOMAIN Tail(s) = 1 .. Len(Tail(s))
  BY HeadTailProperties, LenProperties
<1>3. \A i \in DOMAIN Tail(s) : i \in Int /\ i >= 1 /\ i + 1 \in DOMAIN s /\ Tail(s)[i] = s[i + 1]
  BY <1>1, <1>2
<1>4. IsInjective(Tail(s))
  <2> SUFFICES ASSUME NEW i \in DOMAIN Tail(s), NEW j \in DOMAIN Tail(s), Tail(s)[i] = Tail(s)[j]
               PROVE  i = j
    BY DEF IsInjective
  <2>1. i + 1 = j + 1
    BY <1>3 DEF IsInjective
  <2> QED BY <1>3, <2>1
<1>5. Head(s) \notin Ids(Tail(s))
  <2> SUFFICES ASSUME NEW i \in DOMAIN Tail(s), Tail(s)[i] = s[1] PROVE FALSE
    BY <1>1 DEF Ids
  <2>1. i + 1 = 1
    BY <1>1, <1>3 DEF IsInjective
  <2> QED BY <1>3, <2>1
<1> QED BY <1>4, <1>5, IdsTail

LEMMA ParagraphLoopsHist ==
  ASSUME Base, Base', HistInv, EndParagraphs \/ TailParagraph \/ EndParagraphsTail
  PROVE  HistInv'
<1>1. MovesOn /\ ~ Recording /\ pc \in {"paragraphs", "paragraphs_tail"}
  BY DEF MovesOn, EndParagraphs, TailParagraph, EndParagraphsTail, Recording
<1>2. /\ KnownAlone /\ StoredSorted' /\ MatchedInUse' /\ StoredSorted
      /\ PrevP' = PrevP /\ LeftS' = LeftS
      /\ LeftOver /\ AllListed /\ WordsKnown
      /\ unmatched_sentences_prev = << >> /\ LeftS = {}
  BY <1>1, MovesOnIs, EmptyIds DEF AllListed, LeftS
<1>3. pc' \in {"paragraphs_tail", "sentences", "record"}
  BY DEF EndParagraphs, TailParagraph, EndParagraphsTail
<1>4. WordsKnown' /\ GoneWords'
  BY <1>1, <1>2, <1>3, QuietWords, QuietGone DEF MovesOn, Recording
<1>5. CASE EndParagraphs
  <2>1. /\ pc = "paragraphs" /\ pc' = "paragraphs_tail" /\ todo' = revision_prev.paragraphs
        /\ UNCHANGED <<unmatched_paragraphs_prev, unmatched_paragraphs_curr,
                       unmatched_sentences_prev, matched_sentences_prev, matchedP>>
    BY <1>5 DEF EndParagraphs
  <2>2. LeftOver' /\ LeftP' = LeftP /\ LeftP = {}
    BY <1>1, <1>2, <2>1, LeftStands DEF MovesOn, AllListed
  <2>3. Ids(todo') = PrevP
    BY <2>1 DEF PrevP
  <2>4. IsInjective(todo')
    <3>1. last_good_rev_id \in Stored => IsInjective(revisions[last_good_rev_id].paragraphs)
      BY DEF Base, MatchInv, ArticleInv, StoredDistinct
    <3>2. last_good_rev_id \notin Stored => revisions[last_good_rev_id].paragraphs = << >>
      BY DEF Base, MatchInv, StoredInOrder
    <3> QED BY <2>1, <3>1, <3>2, EmptyIds DEF revision_prev
  <2>5. AllListed'
    BY <1>2, <2>1, <2>2, <2>3, <2>4 DEF AllListed, Recording
  <2> QED BY <1>2, <1>4, <2>2, <2>5 DEF HistInv
<1>6. CASE TailParagraph
  <2>1. /\ pc = "paragraphs_tail" /\ pc' = pc /\ todo # << >> /\ todo' = Tail(todo)
        /\ unmatched_paragraphs_prev' =
             IF Head(todo) \in matchedP THEN unmatched_paragraphs_prev
             ELSE Append(unmatched_paragraphs_prev, Head(todo))
        /\ UNCHANGED <<unmatched_paragraphs_curr, unmatched_sentences_prev, matchedP>>
    BY <1>6 DEF TailParagraph
  <2>2. PICK h : h = Head(todo)
    OBVIOUS
  <2>3. /\ IsInjective(todo) /\ Ids(todo) \subseteq PrevP \ LeftP /\ todo \in Seq(Pids)
    BY <1>2, <2>1 DEF AllListed, Base, TypeOK, LoopOK
  <2>4. /\ IsInjective(todo') /\ h \notin Ids(todo')
        /\ Ids(todo') = Ids(todo) \ {h} /\ h \in Ids(todo) /\ h \in Pids
    BY <2>1, <2>2, <2>3, InjectiveTail, TailType
  <2>5. CASE h \in matchedP
    <3>1. LeftP' = LeftP /\ unmatched_paragraphs_prev' = unmatched_paragraphs_prev
      BY <2>1, <2>2, <2>5 DEF LeftP
    <3>2. LeftOver'
      BY <1>2, <2>1, <3>1 DEF LeftOver
    <3>3. AllListed'
      BY <1>2, <2>1, <2>3, <2>4, <2>5, <3>1 DEF AllListed, Recording
    <3> QED BY <1>2, <1>4, <3>2, <3>3 DEF HistInv
  <2>6. CASE h \notin matchedP
    <3>1. unmatched_paragraphs_prev' = Append(unmatched_paragraphs_prev, h)
          /\ unmatched_paragraphs_prev \in Seq(Pids)
      BY <2>1, <2>2, <2>6, Kinds DEF Base
    <3>2. LeftP' = LeftP \cup {h} /\ h \notin LeftP
      BY <2>3, <2>4, <3>1, IdsAppend DEF LeftP
    <3>3. IsInjective(unmatched_paragraphs_prev')
      BY <1>2, <2>4, <3>1, <3>2, InjectiveAppend DEF LeftOver, LeftP
    <3>4. LeftOver'
      <4>1. IsInjective(unmatched_sentences_prev')
        BY <1>2, <2>1, EmptyIds
      <4> QED BY <1>2, <2>3, <2>4, <3>2, <3>3, <4>1 DEF LeftOver
    <3>5. AllListed'
      BY <1>2, <2>1, <2>3, <2>4, <3>2 DEF AllListed, Recording
    <3> QED BY <1>2, <1>4, <3>4, <3>5 DEF HistInv
  <2> QED BY <2>5, <2>6
<1>7. CASE EndParagraphsTail
  <2>1. /\ pc = "paragraphs_tail" /\ todo = << >>
        /\ pc' = IF unmatched_paragraphs_curr = << >> THEN "record" ELSE "sentences"
        /\ UNCHANGED <<unmatched_paragraphs_prev, unmatched_paragraphs_curr,
                       unmatched_sentences_prev, matched_sentences_prev, matchedP>>
    BY <1>7 DEF EndParagraphsTail
  <2>2. LeftOver' /\ LeftP' = LeftP
    BY <1>1, <1>2, <2>1, LeftStands DEF MovesOn
  <2>3. PrevP' \subseteq matchedP' \cup LeftP'
    BY <1>2, <2>1, <2>2, EmptyIds DEF AllListed
  <2>4. pc' = "record" => Skipped'
    BY <2>1 DEF Skipped
  <2>5. pc' = "sentences" => ~ Skipped'
    BY <2>1 DEF Skipped
  <2>6. AllListed'
    BY <1>2, <1>3, <2>1, <2>3, <2>4, <2>5 DEF AllListed, Recording
  <2> QED BY <1>2, <1>4, <2>2, <2>6 DEF HistInv
<1> QED BY <1>5, <1>6, <1>7

-----------------------------------------------------------------------------
(* The sentence level: a sentence x is attached to the paragraph. *)
LEMMA AttachIs ==
  ASSUME Base, pc = "sentences", todo # << >>, NEW x \in Nat, Attach(x),
         UNCHANGED <<words, paragraphs_ht, sentences_ht, revisions, ordered_revisions, curr>>,
         \A s \in Sids : sentences'[s] = sentences[s]
  PROVE  KnownAlone /\ CurrT' = CurrT \cup SentenceTokens(x)'
<1>0. PICK q : q = Head(todo)
  OBVIOUS
<1>1. /\ q \in NewP /\ q \in Pids /\ q \notin OldP /\ q \in Ids(curr) /\ Ids(curr) \subseteq Pids
      /\ NewP \subseteq Ids(curr)
  <2>1. Ids(todo) \subseteq NewP
    BY DEF Base, MatchInv, LoopInv, TodoIds
  <2>2. q \in NewP
    BY <1>0, <2>1, Kinds, IdsTail DEF Base
  <2>3. NewP \cap OldP = {}
    BY DEF Base, MatchInv, WorkInv, NewIds
  <2> QED BY <2>2, <2>3, InWork DEF WorkIs
<1>2. \A p \in Pids : paragraphs'[p].sentences =
        IF p = q THEN Append(paragraphs[p].sentences, x) ELSE paragraphs[p].sentences
  BY <1>0, AttachType DEF Base
<1>3. \A p \in Pids \ {q} : paragraphs'[p] = paragraphs[p]
  BY <1>0 DEF Attach, Base, TypeOK, ArenasOK
<1>4. KnownAlone
  BY <1>1, <1>3, Allocated DEF KnownAlone, Base
<1>5. /\ \A s \in Sids : SentenceTokens(s)' = SentenceTokens(s)
      /\ \A p \in Pids : ParagraphSentences(p) \subseteq Sids
  BY MembersType DEF SentenceTokens, Base
<1>6. \A p \in Pids \ {q} : ParagraphTokens(p)' = ParagraphTokens(p)
  BY <1>3, <1>5 DEF ParagraphTokens, ParagraphSentences
<1>7. ParagraphSentences(q)' = ParagraphSentences(q) \cup {x}
  <2>1. paragraphs[q].sentences \in Seq(Nat)
    BY <1>1, Kinds, IdsAreNat DEF Base, Sids
  <2>2. Ids(Append(paragraphs[q].sentences, x)) = Ids(paragraphs[q].sentences) \cup {x}
    BY <2>1, IdsAppend
  <2>3. paragraphs'[q].sentences = Append(paragraphs[q].sentences, x)
    BY <1>1, <1>2
  <2> QED BY <2>2, <2>3 DEF ParagraphSentences, Ids
<1>8. ParagraphTokens(q)' = ParagraphTokens(q) \cup SentenceTokens(x)'
  BY <1>1, <1>5, <1>7 DEF ParagraphTokens
<1>9. Ids(curr)' = Ids(curr)
  BY DEF Ids
<1>10. CurrT' = CurrT \cup SentenceTokens(x)'
  BY <1>1, <1>6, <1>8, <1>9 DEF CurrT, TokensOf
<1> QED BY <1>4, <1>10

(* What both branches leave of the invariant, once the use of what was     *)
(* matched is settled.                                                     *)
LEMMA AttachHist ==
  ASSUME Base, Base', HistInv, pc = "sentences", pc' = "sentences", KnownAlone, MatchedInUse',
         UNCHANGED <<words, last_good_rev_id, rev_id, matchedP, unmatched_paragraphs_prev,
                     unmatched_paragraphs_curr, unmatched_sentences_prev>>,
         matched_sentences_prev \subseteq matched_sentences_prev'
  PROVE  HistInv'
<1>1. StoredSorted /\ MatchedInUse /\ LeftOver /\ AllListed /\ WordsKnown /\ ~ Recording
      /\ ~ Recording'
  BY DEF HistInv, Recording
<1>2. LeftOver' /\ LeftP' = LeftP
  BY <1>1, LeftStands
<1>3. PrevP' = PrevP
  BY <1>1, KnownHistory
<1>4. AllListed'
  BY <1>1, <1>2, <1>3 DEF AllListed, Skipped
<1>5. StoredSorted' /\ WordsKnown' /\ GoneWords'
  BY <1>1, QuietWords, QuietGone
<1> QED BY <1>2, <1>4, <1>5 DEF HistInv

LEMMA ReuseSentenceHist ==
  ASSUME Base, Base', HistInv, ReuseSentence
  PROVE  HistInv'
<1>1. /\ pc = "sentences" /\ pc' = "sentences" /\ todo # << >> /\ ~ Recording
      /\ UNCHANGED <<words, sentences, paragraphs_ht, sentences_ht, revisions,
                     ordered_revisions, last_good_rev_id, rev_id, curr, matchedP,
                     unmatched_paragraphs_prev, unmatched_paragraphs_curr,
                     matched_paragraphs_prev, unmatched_sentences_prev>>
  BY DEF ReuseSentence, Recording
<1>2. PICK c \in Places(SentenceRows) :
        LET s == At(SentenceRows, c)
            passed == SpentSentences(NextSentenceHash, PlacesBefore(SentenceRows, c))
        IN  /\ matchedS' = matchedS \cup passed \cup {s}
            /\ matched_sentences_prev' = matched_sentences_prev \cup passed \cup {s}
            /\ matchedT' = matchedT \cup SentenceTokens(s)
            /\ Attach(s)
  BY DEF ReuseSentence
<1> DEFINE passed == SpentSentences(NextSentenceHash, PlacesBefore(SentenceRows, c))
<1>3. PICK s : s = At(SentenceRows, c)
  OBVIOUS
<1>4. /\ matchedS' = matchedS \cup passed \cup {s}
      /\ matched_sentences_prev' = matched_sentences_prev \cup passed \cup {s}
      /\ matchedT' = matchedT \cup SentenceTokens(s)
      /\ Attach(s)
  BY <1>2, <1>3
<1>5. /\ s \in OldS /\ s \in Nat
      /\ passed \subseteq OldS /\ \A q \in passed : SentenceTokens(q) \subseteq matchedT
  <2>1. \A d \in Places(SentenceRows) : At(SentenceRows, d) \in OldS
    BY <1>1, KnownSentences DEF Base, MatchInv, ArticleInv, LoopInv
  <2>2. PlacesBefore(SentenceRows, c) \subseteq Places(SentenceRows)
    BY DEF PlacesBefore
  <2>3. passed \subseteq OldS
    BY <2>1, <2>2 DEF SpentSentences
  <2>4. \A q \in passed : SentenceTokens(q) \subseteq matchedT
    BY DEF SpentSentences, AllMatched
  <2> QED BY <1>3, <2>1, <2>3, <2>4, Allocated DEF Base, Sids
<1> HIDE DEF passed
<1>6. KnownAlone /\ CurrT' = CurrT \cup SentenceTokens(s)
  BY <1>1, <1>4, <1>5, AttachIs, SameSentence
<1>7. StoredSorted /\ MatchedInUse /\ CurrT \cap OldT \subseteq matchedT
      /\ SentenceTokens(s) \subseteq OldT
  BY <1>1, <1>5, InWork DEF HistInv, WorkIs, OldT
<1>8. MatchedInUse'
  <2>1. LeftS' = LeftS /\ \A w \in matchedT : Gone(w) => Gone(w)'
    BY <1>1 DEF LeftS, Ids, Gone
  <2>2. CurrT' \cap OldT \subseteq InboundTokens'
    <3>1. matched_paragraphs_prev \subseteq OldP /\ matched_sentences_prev \subseteq OldS
      BY <1>1, <1>7 DEF MatchedInUse, Base, MatchInv, WorkInv, Apart
    <3>2. InboundTokens \subseteq InboundTokens'
      BY <1>1, <1>4, <1>6, <1>7, <3>1, InboundStands
    <3>3. SentenceTokens(s)' = SentenceTokens(s)
      BY <1>1, SameSentence
    <3>4. s \in matched_sentences_prev'
      BY <1>4
    <3>5. SentenceTokens(s) \subseteq InboundTokens'
      <4>1. SentenceTokens(s)' \subseteq UNION { SentenceTokens(q)' : q \in matched_sentences_prev' }
        BY <3>4
      <4>2. SentenceTokens(s)' \subseteq InboundTokens'
        BY <4>1 DEF InboundTokens
      <4> QED BY <3>3, <4>2
    <3> QED BY <1>6, <1>7, <3>2, <3>5 DEF MatchedInUse
  <2>3. \A p \in matchedP' \ matchedP : p \in OldP /\ ParagraphTokens(p) \subseteq matchedT'
    BY <1>1
  <2>4. \A q \in matchedS' \ (matchedS \cup LeftS') : SentenceTokens(q) \subseteq matchedT'
    BY <1>4, <1>5
  <2>5. /\ matched_paragraphs_prev' \subseteq matchedP'
        /\ matched_sentences_prev' \subseteq matchedS' /\ matchedS' \subseteq OldS
    BY <1>1, <1>4, <1>5, <1>7 DEF MatchedInUse
  <2>6. matchedT' = matchedT \cup (CurrT' \cap OldT) /\ CurrT \subseteq CurrT'
    BY <1>4, <1>6, <1>7
  <2> QED BY <1>1, <1>6, <1>7, <2>1, <2>2, <2>3, <2>4, <2>5, <2>6, UseGrows
<1> QED BY <1>1, <1>4, <1>6, <1>8, AttachHist

LEMMA AllocSentenceHist ==
  ASSUME Base, Base', HistInv, AllocSentence
  PROVE  HistInv'
<1>0. PICK s : s = Len(sentences) + 1
  OBVIOUS
<1> DEFINE new == [hash_value |-> NextSentenceHash, words |-> << >>]
           passed == SpentSentences(NextSentenceHash, Places(SentenceRows))
<1>1. /\ pc = "sentences" /\ pc' = "sentences" /\ todo # << >> /\ MoreSentences /\ ~ Recording
      /\ sentences' = Append(sentences, new)
      /\ matchedS' = matchedS \cup passed
      /\ matched_sentences_prev' = matched_sentences_prev \cup passed
      /\ Attach(s)
      /\ UNCHANGED <<words, paragraphs_ht, sentences_ht, revisions,
                     ordered_revisions, last_good_rev_id, rev_id, curr, matchedP, matchedT,
                     unmatched_paragraphs_prev, unmatched_paragraphs_curr,
                     matched_paragraphs_prev, unmatched_sentences_prev>>
  BY <1>0 DEF AllocSentence, Recording
<1>2. new \in Sentence /\ new.words = << >>
  BY <1>1, NextSentenceHashType, EmptySeq DEF Sentence, Base
<1>3. passed \subseteq OldS /\ \A q \in passed : SentenceTokens(q) \subseteq matchedT
  <2>1. \A d \in Places(SentenceRows) : At(SentenceRows, d) \in OldS
    BY <1>1, KnownSentences DEF Base, MatchInv, ArticleInv, LoopInv
  <2>2. passed \subseteq OldS
    BY <2>1 DEF SpentSentences
  <2> QED BY <2>2 DEF SpentSentences, AllMatched
<1> HIDE DEF new, passed
<1>4. /\ \A q \in Sids : sentences'[q] = sentences[q]
      /\ sentences'[s] = new /\ s \in Nat
  BY <1>0, <1>1, <1>2, AppendProperties, LenProperties DEF Base, TypeOK, ArenasOK, Sids
<1>5. KnownAlone /\ CurrT' = CurrT
  <2>1. SentenceTokens(s)' = {}
    BY <1>2, <1>4, EmptyIds DEF SentenceTokens
  <2> QED BY <1>1, <1>4, <2>1, AttachIs
<1>6. StoredSorted /\ MatchedInUse /\ CurrT \cap OldT \subseteq matchedT
  BY <1>1, InWork DEF HistInv, WorkIs
<1>7. MatchedInUse'
  <2>1. LeftS' = LeftS /\ \A w \in matchedT : Gone(w) => Gone(w)'
    BY <1>1 DEF LeftS, Ids, Gone
  <2>2. CurrT' \cap OldT \subseteq InboundTokens'
    <3>1. matched_paragraphs_prev \subseteq OldP /\ matched_sentences_prev \subseteq OldS
      BY <1>1, <1>6 DEF MatchedInUse, Base, MatchInv, WorkInv, Apart
    <3>2. InboundTokens \subseteq InboundTokens'
      BY <1>1, <1>5, <1>6, <3>1, InboundStands
    <3> QED BY <1>5, <1>6, <3>2 DEF MatchedInUse
  <2>3. \A q \in matchedS' \ (matchedS \cup LeftS') : SentenceTokens(q) \subseteq matchedT'
    BY <1>1, <1>3
  <2>4. /\ matched_paragraphs_prev' \subseteq matchedP'
        /\ matched_sentences_prev' \subseteq matchedS' /\ matchedS' \subseteq OldS
    BY <1>1, <1>3, <1>6 DEF MatchedInUse
  <2>5. matchedT' = matchedT \cup (CurrT' \cap OldT)
    BY <1>1, <1>5, <1>6
  <2> QED BY <1>1, <1>5, <1>6, <2>1, <2>2, <2>3, <2>4, <2>5, UseGrows
<1> QED BY <1>1, <1>5, <1>7, AttachHist

(* Where a list read from its head stands once it has just been taken up:  *)
(* each member is the head or behind it.                                   *)
LEMMA TodoStarts ==
  ASSUME NEW S, NEW s \in Seq(S), NEW x \in Ids(s)
  PROVE  s # << >> /\ (x \in Ids(Tail(s)) \/ x = Head(s))
<1>1. s # << >>
  BY EmptyIds
<1> QED BY <1>1, IdsTail

LEMMA SentenceLoopsHist ==
  ASSUME Base, Base', HistInv,
         NextParagraph \/ EndSentences \/ NextTailParagraph \/ EndSentencesTail
  PROVE  HistInv'
<1>1. /\ MovesOn /\ ~ Recording /\ pc \in {"sentences", "sentences_tail"}
      /\ pc' \in {"sentences", "sentences_tail", "gate", "record"}
      /\ UNCHANGED <<unmatched_paragraphs_prev, unmatched_paragraphs_curr>>
  BY DEF MovesOn, NextParagraph, EndSentences, NextTailParagraph, EndSentencesTail, Recording
<1>2. /\ KnownAlone /\ StoredSorted' /\ MatchedInUse' /\ StoredSorted
      /\ PrevP' = PrevP /\ LeftS' = LeftS
      /\ \A p : ParagraphSentences(p)' = ParagraphSentences(p)
      /\ LeftOver /\ AllListed /\ WordsKnown
  BY <1>1, MovesOnIs
<1>3. WordsKnown' /\ GoneWords'
  BY <1>1, <1>2, QuietWords, QuietGone DEF MovesOn, Recording
<1>4. LeftOver' /\ LeftP' = LeftP /\ SentencesOf(LeftP)' = SentencesOf(LeftP)
  BY <1>1, <1>2, LeftStands DEF MovesOn
<1>5. /\ PrevP' \subseteq matchedP' \cup LeftP' /\ ~ Skipped /\ ~ Skipped'
      /\ pc = "sentences" => unmatched_sentences_prev' = << >>
  BY <1>1, <1>2, <1>4 DEF AllListed, MovesOn, Skipped
<1>6. /\ \A p \in LeftP : DOMAIN paragraphs[p].sentences = 1 .. Len(paragraphs[p].sentences)
      /\ \A p \in LeftP : Len(paragraphs[p].sentences) \in Nat
      /\ unmatched_paragraphs_prev \in Seq(Pids) /\ todo \in Seq(Nat) /\ pos \in Nat
  <2>1. LeftP \subseteq Pids
    BY <1>2, Before0, Allocated DEF LeftOver, Base
  <2> QED BY <2>1, Kinds, LenProperties DEF Base, TypeOK, LoopOK
<1>7. CASE NextParagraph
  <2>1. pc' = "sentences" /\ pc = "sentences"
    BY <1>7 DEF NextParagraph
  <2>2. AllListed'
    BY <1>5, <2>1 DEF AllListed, Recording
  <2> QED BY <1>2, <1>3, <1>4, <2>2 DEF HistInv
<1>8. CASE EndSentences
  <2>1. pc = "sentences" /\ pc' = "sentences_tail" /\ todo' = unmatched_paragraphs_prev /\ pos' = 1
    BY <1>8 DEF EndSentences
  <2>2. \A p \in LeftP : todo' # << >> /\ (p \in Ids(Tail(todo')) \/ p = Head(todo'))
    BY <1>6, <2>1, TodoStarts DEF LeftP
  <2>3. \A p \in LeftP : \A j \in DOMAIN paragraphs[p].sentences : ~ (j < 1)
    BY <1>6
  <2>4. Ids(todo') = LeftP /\ paragraphs' = paragraphs
    BY <1>1, <2>1 DEF LeftP, MovesOn
  <2>5. AllListed'
    BY <1>4, <1>5, <2>1, <2>2, <2>3, <2>4 DEF AllListed, Recording
  <2> QED BY <1>2, <1>3, <1>4, <2>5 DEF HistInv
<1>9. CASE NextTailParagraph
  <2>1. /\ pc = "sentences_tail" /\ pc' = "sentences_tail" /\ todo # << >>
        /\ todo' = Tail(todo) /\ pos' = 1 /\ pos > Len(paragraphs[Head(todo)].sentences)
        /\ paragraphs' = paragraphs /\ matchedS' = matchedS
    BY <1>9 DEF NextTailParagraph, CurrentParagraph
  <2>2. Ids(todo) \subseteq LeftP /\ Ids(Tail(todo)) \subseteq Ids(todo) /\ Tail(todo) \in Seq(Nat)
        /\ Head(todo) \in LeftP
    BY <1>2, <1>6, <2>1, IdsTail, TailType DEF AllListed
  <2>3. ASSUME NEW p \in LeftP
        PROVE  \/ ParagraphSentences(p) \subseteq matchedS
               \/ todo' # << >> /\ (p \in Ids(Tail(todo')) \/ p = Head(todo'))
    <3>1. CASE p \in Ids(Tail(todo))
      BY <2>1, <2>2, <3>1, TodoStarts
    <3>2. CASE p = Head(todo) /\ \A j \in DOMAIN paragraphs[p].sentences :
                 j < pos => paragraphs[p].sentences[j] \in matchedS
      <4>1. \A j \in DOMAIN paragraphs[p].sentences : j < pos
        BY <1>6, <2>1, <3>2
      <4> QED BY <3>2, <4>1 DEF ParagraphSentences
    <3> QED BY <1>2, <2>1, <3>1, <3>2 DEF AllListed
  <2>4. \A p \in LeftP : \A j \in DOMAIN paragraphs[p].sentences : ~ (j < 1)
    BY <1>6
  <2>5. \A p \in LeftP' :
          \/ ParagraphSentences(p)' \subseteq matchedS'
          \/ todo' # << >> /\ p \in Ids(Tail(todo'))
          \/ /\ todo' # << >> /\ p = Head(todo')
             /\ \A j \in DOMAIN paragraphs'[p].sentences :
                  j < pos' => paragraphs'[p].sentences[j] \in matchedS'
    BY <1>2, <1>4, <2>1, <2>3, <2>4
  <2>6. Ids(todo') \subseteq LeftP'
    BY <1>4, <2>1, <2>2
  <2>7. AllListed'
    BY <1>5, <2>1, <2>5, <2>6 DEF AllListed, Recording
  <2> QED BY <1>2, <1>3, <1>4, <2>7 DEF HistInv
<1>10. CASE EndSentencesTail
  <2>1. /\ pc = "sentences_tail" /\ pc' \in {"record", "gate"} /\ todo = << >>
        /\ matchedS' = matchedS
    BY <1>10 DEF EndSentencesTail
  <2>2. \A p \in LeftP : ParagraphSentences(p) \subseteq matchedS
    BY <1>2, <2>1 DEF AllListed
  <2>3. SentencesOf(LeftP)' \subseteq matchedS'
    BY <1>4, <2>1, <2>2 DEF SentencesOf
  <2>4. AllListed'
    BY <1>5, <2>1, <2>3 DEF AllListed, Recording
  <2> QED BY <1>2, <1>3, <1>4, <2>4 DEF HistInv
<1> QED BY <1>7, <1>8, <1>9, <1>10

LEMMA TailSentenceHist ==
  ASSUME Base, Base', HistInv, TailSentence
  PROVE  HistInv'
<1>0. PICK h : h = Head(todo)
  OBVIOUS
<1>s. PICK s : s = paragraphs[h].sentences[pos]
  OBVIOUS
<1>1. /\ pc = "sentences_tail" /\ pc' = "sentences_tail" /\ ~ Recording /\ todo # << >>
      /\ pos <= Len(paragraphs[h].sentences) /\ pos' = pos + 1
      /\ UNCHANGED <<words, sentences, paragraphs, paragraphs_ht, sentences_ht, revisions,
                     ordered_revisions, last_good_rev_id, rev_id, curr, matchedP, matchedT,
                     matched_paragraphs_prev, unmatched_paragraphs_prev,
                     unmatched_paragraphs_curr, todo>>
      /\ IF s \in matchedS
         THEN UNCHANGED <<matchedS, matched_sentences_prev, unmatched_sentences_prev>>
         ELSE /\ unmatched_sentences_prev' = Append(unmatched_sentences_prev, s)
              /\ matchedS' = matchedS \cup {s}
              /\ matched_sentences_prev' = matched_sentences_prev \cup {s}
  BY <1>0, <1>s DEF TailSentence, Recording, CurrentParagraph
<1>2. /\ StoredSorted /\ MatchedInUse /\ LeftOver /\ AllListed /\ WordsKnown /\ ~ Skipped
  BY <1>1 DEF HistInv, AllListed
<1>3. /\ h \in LeftP /\ LeftP \subseteq OldP /\ LeftP \subseteq Pids
  <2>1. LeftP \subseteq OldP /\ LeftP \subseteq Pids
    BY <1>2, Before0, Allocated DEF LeftOver, Base
  <2> QED BY <1>0, <1>1, <1>2, <2>1, Kinds, IdsTail DEF AllListed, Base
<1>4. /\ \A p \in LeftP : DOMAIN paragraphs[p].sentences = 1 .. Len(paragraphs[p].sentences)
      /\ Len(paragraphs[h].sentences) \in Nat
      /\ pos \in DOMAIN paragraphs[h].sentences /\ pos \in Nat
  <2>1. pos \in Nat \ {0}
    BY DEF Base, TypeOK, LoopOK
  <2>2. \A p \in LeftP : /\ DOMAIN paragraphs[p].sentences = 1 .. Len(paragraphs[p].sentences)
                         /\ Len(paragraphs[p].sentences) \in Nat
    BY <1>3, Kinds, LenProperties DEF Base
  <2> QED BY <1>1, <1>3, <2>1, <2>2
<1>5. s \in ParagraphSentences(h) /\ s \in OldS /\ s \in Sids
  <2>1. s \in ParagraphSentences(h)
    BY <1>s, <1>4 DEF ParagraphSentences
  <2> QED BY <1>3, <2>1, KnownParts, Allocated DEF Base, MatchInv, ArticleInv
<1>6. KnownAlone
  BY <1>1 DEF KnownAlone
<1>7. StoredSorted' /\ WordsKnown' /\ GoneWords'
  BY <1>1, <1>2, <1>6, QuietWords, QuietGone DEF Recording
<1>8. /\ PrevP' = PrevP /\ LeftP' = LeftP /\ matchedS \subseteq matchedS' /\ s \in matchedS'
      /\ matched_sentences_prev \subseteq matched_sentences_prev'
      /\ \A p : ParagraphSentences(p)' = ParagraphSentences(p)
  <2>1. PrevP' = PrevP
    BY <1>1, <1>2, <1>6, KnownHistory
  <2> QED BY <1>1, <2>1 DEF LeftP, ParagraphSentences
<1>9. AllListed'
  <2>1. ASSUME NEW p \in LeftP
        PROVE  \/ ParagraphSentences(p) \subseteq matchedS'
               \/ todo # << >> /\ p \in Ids(Tail(todo))
               \/ /\ todo # << >> /\ p = Head(todo)
                  /\ \A j \in DOMAIN paragraphs[p].sentences :
                       j < pos + 1 => paragraphs[p].sentences[j] \in matchedS'
    <3>1. CASE p = Head(todo) /\ \A j \in DOMAIN paragraphs[p].sentences :
                 j < pos => paragraphs[p].sentences[j] \in matchedS
      <4>1. ASSUME NEW j \in DOMAIN paragraphs[p].sentences, j < pos + 1
            PROVE  paragraphs[p].sentences[j] \in matchedS'
        <5>1. j < pos \/ j = pos
          BY <1>4, <4>1
        <5> QED BY <1>0, <1>s, <1>8, <3>1, <5>1
      <4> QED BY <1>1, <3>1, <4>1
    <3> QED BY <1>1, <1>2, <1>8, <3>1 DEF AllListed
  <2>2. Ids(todo') \subseteq LeftP' /\ PrevP' \subseteq matchedP' \cup LeftP' /\ ~ Skipped'
    BY <1>1, <1>2, <1>8 DEF AllListed, Skipped
  <2>3. \A p \in LeftP' :
          \/ ParagraphSentences(p)' \subseteq matchedS'
          \/ todo' # << >> /\ p \in Ids(Tail(todo'))
          \/ /\ todo' # << >> /\ p = Head(todo')
             /\ \A j \in DOMAIN paragraphs'[p].sentences :
                  j < pos' => paragraphs'[p].sentences[j] \in matchedS'
    BY <1>1, <1>8, <2>1
  <2> QED BY <1>1, <2>2, <2>3 DEF AllListed, Recording
<1>10. CASE s \in matchedS
  <2>1. MovesOn /\ unmatched_sentences_prev' = unmatched_sentences_prev
    BY <1>1, <1>10 DEF MovesOn
  <2>2. MatchedInUse'
    BY <2>1, MovesOnIs
  <2>3. LeftOver'
    BY <1>1, <1>2, <1>6, <1>8, <2>1, LeftStands
  <2> QED BY <1>7, <1>9, <2>2, <2>3 DEF HistInv
<1>11. CASE s \notin matchedS
  <2>1. /\ unmatched_sentences_prev' = Append(unmatched_sentences_prev, s)
        /\ matchedS' = matchedS \cup {s}
        /\ matched_sentences_prev' = matched_sentences_prev \cup {s}
        /\ unmatched_sentences_prev \in Seq(Sids)
    BY <1>1, <1>11, Kinds DEF Base
  <2>2. LeftS' = LeftS \cup {s} /\ s \notin LeftS
    BY <1>2, <1>5, <1>11, <2>1, IdsAppend DEF LeftS, LeftOver, MatchedInUse
  <2>3. IsInjective(unmatched_sentences_prev')
    BY <1>2, <1>5, <2>1, <2>2, InjectiveAppend DEF LeftOver, LeftS
  <2>4. LeftOver'
    <3>1. LeftS' \subseteq SentencesOf(LeftP)'
      BY <1>2, <1>3, <1>5, <1>8, <2>2 DEF LeftOver, SentencesOf
    <3>2. LeftS' \subseteq matched_sentences_prev'
      BY <1>2, <2>1, <2>2 DEF LeftOver
    <3>3. LeftP' \subseteq PrevP' /\ IsInjective(unmatched_paragraphs_prev')
      BY <1>1, <1>2, <1>8 DEF LeftOver
    <3> QED BY <2>3, <3>1, <3>2, <3>3 DEF LeftOver
  <2>5. /\ CurrT' = CurrT /\ InboundTokens \subseteq InboundTokens'
        /\ CurrT \cap OldT \subseteq matchedT /\ \A w \in matchedT : Gone(w) => Gone(w)'
    <3>1. matched_paragraphs_prev \subseteq OldP /\ matched_sentences_prev \subseteq OldS
      BY <1>1, <1>2 DEF MatchedInUse, Base, MatchInv, WorkInv, Apart
    <3>2. InboundTokens \subseteq InboundTokens'
      BY <1>1, <1>2, <1>6, <1>8, <3>1, InboundStands
    <3>3. \A p : ParagraphTokens(p)' = ParagraphTokens(p)
      BY <1>1 DEF ParagraphTokens, ParagraphSentences, SentenceTokens
    <3>4. CurrT' = CurrT
      BY <1>1, <3>3 DEF CurrT, TokensOf
    <3> QED BY <1>1, <3>2, <3>4, InWork DEF WorkIs, Gone
  <2>6. MatchedInUse'
    <3>1. /\ CurrT' \cap OldT \subseteq InboundTokens'
          /\ matchedT' = matchedT \cup (CurrT' \cap OldT) /\ matchedS' \subseteq OldS
          /\ matched_sentences_prev' \subseteq matchedS'
          /\ matched_paragraphs_prev' \subseteq matchedP'
      BY <1>1, <1>2, <1>5, <2>1, <2>5 DEF MatchedInUse
    <3> QED BY <1>1, <1>2, <1>6, <2>1, <2>2, <2>5, <3>1, UseGrows
  <2> QED BY <1>7, <1>9, <2>4, <2>6 DEF HistInv
<1> QED BY <1>10, <1>11

(* The gate, and the two ways into the word loop. *)
LEMMA GateHist ==
  ASSUME Base, Base', HistInv, DenseVandalism \/ InsertionOnly \/ StartDiff
  PROVE  HistInv'
<1>1. /\ pc = "gate" /\ pc' \in {"idle", "words"} /\ ~ Recording
      /\ UNCHANGED <<words, sentences, paragraphs, paragraphs_ht, sentences_ht, revisions,
                     ordered_revisions, last_good_rev_id, rev_id, curr, matchedP, matchedS, matchedT,
                     matched_paragraphs_prev, matched_sentences_prev, unmatched_sentences_prev,
                     unmatched_paragraphs_prev, unmatched_paragraphs_curr>>
  BY DEF DenseVandalism, InsertionOnly, StartDiff, Recording
<1>2. MovesOn
  BY <1>1 DEF MovesOn
<1>3. /\ KnownAlone /\ StoredSorted' /\ MatchedInUse' /\ StoredSorted
      /\ PrevP' = PrevP /\ LeftS' = LeftS
      /\ LeftOver /\ AllListed /\ WordsKnown
  BY <1>2, MovesOnIs
<1>4. WordsKnown'
  BY <1>1, <1>3, QuietWords
<1>5. CASE pc' = "words"
  <2>1. LeftOver' /\ LeftP' = LeftP /\ SentencesOf(LeftP)' = SentencesOf(LeftP)
    BY <1>1, <1>3, LeftStands
  <2>2. AllListed'
    BY <1>1, <1>3, <1>5, <2>1 DEF AllListed, Skipped, Recording
  <2>3. GoneWords'
    BY <1>1, <1>5, QuietGone
  <2> QED BY <1>3, <1>4, <2>1, <2>2, <2>3 DEF HistInv
<1>6. CASE pc' = "idle"
  BY <1>3, <1>4, <1>6 DEF HistInv
<1> QED BY <1>1, <1>5, <1>6
-----------------------------------------------------------------------------
(* Past the gate the lists stay as they are. *)
LEMMA ListsStand ==
  ASSUME Base, StoredSorted, LeftOver, AllListed, Recording, Recording', KnownAlone,
         UNCHANGED <<last_good_rev_id, unmatched_paragraphs_prev, unmatched_paragraphs_curr,
                     unmatched_sentences_prev, matched_sentences_prev, matchedP, matchedS>>,
         pc' = "words" => pc = "words"
  PROVE  StoredSorted' /\ LeftOver' /\ AllListed' /\ LeftP' = LeftP /\ LeftS' = LeftS
<1>1. PrevP' = PrevP /\ StoredSorted'
  BY KnownHistory
<1>2. LeftOver' /\ LeftP' = LeftP /\ LeftS' = LeftS /\ SentencesOf(LeftP)' = SentencesOf(LeftP)
  BY LeftStands
<1>3. AllListed'
  BY <1>1, <1>2 DEF AllListed, Skipped, Recording
<1> QED BY <1>1, <1>2, <1>3

(* Steps past the gate that write no word. *)
LEMMA WordsStand ==
  ASSUME Base, StoredSorted, WordsKnown, KnownAlone,
         UNCHANGED <<words, last_good_rev_id, rev_id>>, Recording, Recording',
         pc # "commit", pc' # "commit",
         CurrT \subseteq CurrT', matchedT' \subseteq matchedT \cup OldT
  PROVE  WordsKnown'
<1>1. OldT' = OldT /\ Tids' = Tids
  BY KnownHistory DEF Tids
<1>2. \A w \in OldT : Kept(w)'
  BY KeptStands DEF WordsKnown
<1>3. \A w \in Tids \ OldT : Fresh(w)'
  BY DEF WordsKnown, Fresh
<1> QED BY <1>1, <1>2, <1>3 DEF WordsKnown

(* The word w is pushed on the sentence the word loop is at. *)
LEMMA PushIs ==
  ASSUME Base, InWordLoop, NEW w \in Nat, PushWord(w),
         UNCHANGED <<paragraphs, paragraphs_ht, sentences_ht, revisions, ordered_revisions, curr>>,
         \A v \in Tids : words'[v].value = words[v].value
  PROVE  KnownAlone /\ CurrT' = CurrT \cup {w}
<1>0. PICK q : q = Head(todo)
  OBVIOUS
<1>1. /\ pc = "words" /\ todo # << >> /\ WorkInv /\ LoopInv /\ Ids(curr) \subseteq Pids
  BY InWork DEF InWordLoop, Base, MatchInv, WorkIs
<1>2. /\ q \in NewS /\ q \in Sids /\ q \notin OldS
  <2>1. q \in Ids(todo) /\ Ids(todo) \subseteq NewS
    BY <1>0, <1>1, Kinds, IdsTail DEF LoopInv, TodoIds, Base
  <2> QED BY <1>1, <2>1, Allocated DEF WorkInv, NewIds, Base
<1>3. PICK p : p \in Ids(curr) /\ q \in ParagraphSentences(p)
  BY <1>1, <1>2 DEF WorkInv, InUse, SentencesOf
<1>4. /\ \A s \in Sids \ {q} : sentences'[s] = sentences[s]
      /\ sentences'[q].words = Append(sentences[q].words, w)
  <2>1. /\ sentences' = [sentences EXCEPT ![q] = [sentences[q] EXCEPT !.words = Append(@, w)]]
        /\ DOMAIN sentences = Sids /\ sentences[q] \in Sentence
    BY <1>0, <1>2, LenProperties, ElementOfSeq DEF PushWord, Base, TypeOK, ArenasOK, Sids
  <2> QED BY <1>2, <2>1 DEF Sentence
<1>5. KnownAlone
  BY <1>2, <1>4, Allocated DEF KnownAlone, Base
<1>6. /\ \A s \in Sids \ {q} : SentenceTokens(s)' = SentenceTokens(s)
      /\ SentenceTokens(q)' = SentenceTokens(q) \cup {w}
  <2>1. sentences[q].words \in Seq(Nat)
    BY <1>2, Kinds, IdsAreNat DEF Base, Tids
  <2>2. Ids(sentences'[q].words) = Ids(sentences[q].words) \cup {w}
    BY <1>4, <2>1, IdsAppend
  <2> QED BY <1>4, <2>2 DEF SentenceTokens, Ids
<1>7. /\ \A r : ParagraphSentences(r)' = ParagraphSentences(r)
      /\ \A r \in Pids : ParagraphSentences(r) \subseteq Sids
  BY MembersType DEF ParagraphSentences, Base
<1>8. \A r \in Pids : ParagraphTokens(r)' =
         IF q \in ParagraphSentences(r) THEN ParagraphTokens(r) \cup {w} ELSE ParagraphTokens(r)
  BY <1>6, <1>7 DEF ParagraphTokens
<1>9. CurrT' = CurrT \cup {w}
  BY <1>1, <1>3, <1>8 DEF CurrT, TokensOf
<1> QED BY <1>5, <1>9

(* What the scan for a previous word finds. *)
LEMMA FoundIs ==
  ASSUME Base, pc # "idle", NEW v, NEW c \in Places(PrevRows), find_unmatched_prev(v, c),
         NEW w, w = At(PrevRows, c)
  PROVE  /\ w \in OldT /\ w \in Tids /\ w \in Nat /\ w \notin matchedT
         /\ \E s \in LeftS : w \in SentenceTokens(s)
<1>1. w \in OldT /\ w \in Tids
  BY KnownWords, PrevRowsType DEF Base, MatchInv, LoopInv
<1>2. w \notin matchedT
  BY DEF find_unmatched_prev, IsFirst, FreeWords
<1>3. PICK i \in DOMAIN PrevRows : c \in {i} \X DOMAIN PrevRows[i]
  BY DEF Places
<1>4. w = PrevRows[i][c[2]] /\ c[2] \in DOMAIN PrevRows[i] /\ i \in DOMAIN unmatched_sentences_prev
  BY <1>3 DEF At, PrevRows
<1>5. PICK s : s = unmatched_sentences_prev[i]
  OBVIOUS
<1>6. s \in LeftS /\ w \in SentenceTokens(s)
  BY <1>4, <1>5 DEF PrevRows, SentenceTokens, LeftS, Ids
<1>7. w \in Nat
  BY <1>1 DEF Tids
<1> QED BY <1>1, <1>2, <1>6, <1>7

LEMMA KeepEntryHist ==
  ASSUME Base, Base', HistInv, NEW i \in DOMAIN diff, KeepEntry(i)
  PROVE  HistInv'
<1>1. /\ InWordLoop /\ pc = "words" /\ pc' = "words" /\ Recording /\ Recording'
      /\ UNCHANGED <<words, paragraphs, paragraphs_ht, sentences_ht, revisions,
                     ordered_revisions, last_good_rev_id, rev_id, curr, matchedP, matchedS,
                     matched_paragraphs_prev, matched_sentences_prev, unmatched_sentences_prev,
                     unmatched_paragraphs_prev, unmatched_paragraphs_curr>>
  BY DEF KeepEntry, InWordLoop, Recording
<1>2. PICK c \in Places(PrevRows) :
        /\ find_unmatched_prev(NextWord, c)
        /\ matchedT' = matchedT \cup {At(PrevRows, c)}
        /\ PushWord(At(PrevRows, c))
  BY DEF KeepEntry
<1>3. PICK w : w = At(PrevRows, c)
  OBVIOUS
<1>4. /\ w \in OldT /\ w \in Tids /\ w \in Nat /\ w \notin matchedT
      /\ \E s \in LeftS : w \in SentenceTokens(s)
  BY <1>1, <1>2, <1>3, FoundIs
<1>5. matchedT' = matchedT \cup {w} /\ PushWord(w)
  BY <1>2, <1>3
<1>6. KnownAlone /\ CurrT' = CurrT \cup {w}
  BY <1>1, <1>4, <1>5, PushIs
<1>7. StoredSorted /\ MatchedInUse /\ LeftOver /\ AllListed /\ WordsKnown /\ GoneWords
      /\ CurrT \cap OldT \subseteq matchedT
  BY <1>1, InWork DEF HistInv, WorkIs
<1>8. StoredSorted' /\ LeftOver' /\ AllListed' /\ LeftS' = LeftS
  BY <1>1, <1>6, <1>7, ListsStand
<1>9. WordsKnown'
  BY <1>1, <1>4, <1>5, <1>6, <1>7, WordsStand
<1>10. MatchedInUse'
  <2>1. CurrT' \cap OldT \subseteq InboundTokens'
    <3>1. matched_paragraphs_prev \subseteq OldP /\ matched_sentences_prev \subseteq OldS
      BY <1>1, <1>7 DEF MatchedInUse, Base, MatchInv, WorkInv, Apart
    <3>2. InboundTokens \subseteq InboundTokens'
      BY <1>1, <1>6, <1>7, <3>1, InboundStands
    <3>3. w \in InboundTokens
      BY <1>4, <1>7 DEF InboundTokens, LeftOver
    <3> QED BY <1>6, <1>7, <3>2, <3>3 DEF MatchedInUse
  <2>2. matchedT' = matchedT \cup (CurrT' \cap OldT)
    BY <1>4, <1>5, <1>6, <1>7
  <2>3. \A v \in matchedT : Gone(v) => Gone(v)'
    BY <1>1 DEF Gone
  <2>4. /\ matched_paragraphs_prev' \subseteq matchedP'
        /\ matched_sentences_prev' \subseteq matchedS' /\ matchedS' \subseteq OldS
    BY <1>1, <1>7 DEF MatchedInUse
  <2> QED BY <1>1, <1>6, <1>7, <1>8, <2>1, <2>2, <2>3, <2>4, UseGrows
<1>11. GoneWords'
  <2>1. OldT' = OldT
    BY <1>6, <1>1, <1>7, KnownHistory
  <2>2. /\ \A v \in CurrT' : ~ Gone(v)
        /\ \A v \in OldT \ matchedT' : ~ Gone(v)
        /\ \A v \in OldT : ~ Came(v)
    BY <1>1, <1>4, <1>5, <1>6, <1>7 DEF GoneWords
  <2>3. \A v : (Gone(v)' <=> Gone(v)) /\ (Came(v)' <=> Came(v))
    BY <1>1 DEF Gone, Came
  <2> QED BY <1>1, <2>1, <2>2, <2>3 DEF GoneWords
<1> QED BY <1>8, <1>9, <1>10, <1>11 DEF HistInv

LEMMA AppendEnds ==
  ASSUME NEW s \in Seq(RevId), NEW x \in RevId
  PROVE  EndsWith(Append(s, x), x)
<1>1. /\ Append(s, x) \in Seq(RevId) /\ Len(s) \in Nat /\ Len(Append(s, x)) = Len(s) + 1
      /\ Append(s, x)[Len(s) + 1] = x
  BY AppendProperties, LenProperties
<1>2. Append(s, x) # << >>
  BY <1>1, EmptySeq
<1> QED BY <1>1, <1>2 DEF EndsWith

(* What pushing the revision on one outbound list does to the words. *)
LEMMA DeletedIs ==
  ASSUME TypeOK, NEW w \in Tids,
         words' = [words EXCEPT ![w].outbound = Append(@, rev_id)]
  PROVE  /\ Tids' = Tids
         /\ \A v \in Tids : v # w => words'[v] = words[v]
         /\ words'[w].outbound = Append(words[w].outbound, rev_id)
         /\ words'[w].inbound = words[w].inbound /\ words'[w].value = words[w].value
         /\ words'[w].origin_rev_id = words[w].origin_rev_id
         /\ words'[w].last_rev_id = words[w].last_rev_id
<1>1. Len(words') = Len(words)
  BY WordOutboundType
<1>2. DOMAIN words = Tids /\ words[w] \in Word
  BY WordIs, LenProperties DEF TypeOK, ArenasOK, Tids
<1> DEFINE new == [words[w] EXCEPT !.outbound = Append(@, rev_id)]
<1>3. words' = [words EXCEPT ![w] = new]
  OBVIOUS
<1>4. /\ new.outbound = Append(words[w].outbound, rev_id)
      /\ new.inbound = words[w].inbound /\ new.value = words[w].value
      /\ new.origin_rev_id = words[w].origin_rev_id
      /\ new.last_rev_id = words[w].last_rev_id
  BY <1>2 DEF Word
<1> HIDE DEF new
<1>5. Tids' = Tids
  BY <1>1 DEF Tids
<1> QED BY <1>2, <1>3, <1>4, <1>5

LEMMA DeleteEntryHist ==
  ASSUME Base, Base', HistInv, NEW i \in DOMAIN diff, DeleteEntry(i)
  PROVE  HistInv'
<1>1. /\ pc = "words" /\ pc' = "words" /\ Recording /\ Recording' /\ pc # "idle"
      /\ UNCHANGED <<sentences, paragraphs, paragraphs_ht, sentences_ht, revisions,
                     ordered_revisions, last_good_rev_id, rev_id, curr, matchedP, matchedS,
                     matched_paragraphs_prev, matched_sentences_prev, unmatched_sentences_prev,
                     unmatched_paragraphs_prev, unmatched_paragraphs_curr>>
  BY DEF DeleteEntry, InWordLoop, Recording
<1>2. PICK c \in Places(PrevRows) :
        /\ find_unmatched_prev(NextWord, c)
        /\ matchedT' = matchedT \cup {At(PrevRows, c)}
        /\ words' = [words EXCEPT ![At(PrevRows, c)].outbound = Append(@, rev_id)]
  BY DEF DeleteEntry
<1>3. PICK w : w = At(PrevRows, c)
  OBVIOUS
<1>4. /\ w \in OldT /\ w \in Tids /\ w \in Nat /\ w \notin matchedT
      /\ \E s \in LeftS : w \in SentenceTokens(s)
  BY <1>1, <1>2, <1>3, FoundIs
<1>5. /\ matchedT' = matchedT \cup {w} /\ Tids' = Tids
      /\ \A v \in Tids : v # w => words'[v] = words[v]
      /\ words'[w].outbound = Append(words[w].outbound, rev_id)
      /\ words'[w].inbound = words[w].inbound /\ words'[w].value = words[w].value
      /\ words'[w].origin_rev_id = words[w].origin_rev_id
      /\ words'[w].last_rev_id = words[w].last_rev_id
  BY <1>2, <1>3, <1>4, DeletedIs DEF Base
<1>6. KnownAlone
  BY <1>1, <1>5 DEF KnownAlone
<1>7. /\ \A p : ParagraphTokens(p)' = ParagraphTokens(p)
      /\ \A s : SentenceTokens(s)' = SentenceTokens(s)
  BY <1>1 DEF ParagraphTokens, ParagraphSentences, SentenceTokens
<1>8. CurrT' = CurrT /\ InboundTokens' = InboundTokens
  BY <1>1, <1>7 DEF CurrT, TokensOf, InboundTokens, Ids
<1>9. /\ StoredSorted /\ MatchedInUse /\ LeftOver /\ AllListed /\ WordsKnown /\ GoneWords
      /\ CurrT \cap OldT \subseteq matchedT /\ CurrT \subseteq Tids /\ OldT \subseteq Tids
  BY <1>1, InWork DEF HistInv, WorkIs
<1>10. /\ StoredSorted' /\ LeftOver' /\ AllListed' /\ LeftS' = LeftS
       /\ OldT' = OldT /\ OldS' = OldS /\ PrevT' = PrevT
  BY <1>1, <1>6, <1>9, ListsStand, KnownHistory
<1>11. /\ w \notin CurrT /\ ~ Gone(w) /\ Gone(w)' /\ w \in PrevT
  <2>1. words[w].outbound \in Seq(RevId) /\ rev_id \in RevId
    BY <1>4, WordIs DEF Base, TypeOK, InputOK
  <2>2. Gone(w)'
    BY <1>1, <1>5, <2>1, AppendEnds DEF Gone
  <2>3. w \in PrevT
    BY <1>4, <1>9 DEF LeftOver, SentencesOf, PrevT, TokensOf, ParagraphTokens
  <2> QED BY <1>1, <1>4, <1>9, <2>2, <2>3 DEF GoneWords
<1>12. /\ \A v \in Tids : v # w => (Gone(v)' <=> Gone(v))
       /\ \A v \in Tids : Came(v)' <=> Came(v)
  BY <1>1, <1>5 DEF Gone, Came
<1>13. WordsKnown'
  <2>1. \A v \in OldT : Kept(v)'
    BY <1>1, <1>5, <1>6, <1>9, <1>11, KeptStands DEF WordsKnown
  <2>2. \A v \in Tids \ OldT : Fresh(v)' /\ v \in CurrT /\ v \notin matchedT'
    BY <1>1, <1>4, <1>5, <1>9 DEF WordsKnown, Fresh
  <2> QED BY <1>1, <1>5, <1>8, <1>10, <2>1, <2>2 DEF WordsKnown
<1>14. MatchedInUse'
  <2>1. \A v \in matchedT \ CurrT : v \in Tids /\ v # w
    BY <1>4, <1>9 DEF MatchedInUse
  <2>2. \A v \in matchedT' \ CurrT' : Recording' /\ Gone(v)' /\ v \in PrevT'
    BY <1>1, <1>5, <1>8, <1>9, <1>10, <1>11, <1>12, <2>1 DEF MatchedInUse
  <2>3. matchedT' \subseteq OldT' /\ CurrT' \cap OldT' \subseteq InboundTokens'
    BY <1>4, <1>5, <1>8, <1>9, <1>10 DEF MatchedInUse
  <2>4. /\ \A p \in matchedP' : ParagraphTokens(p)' \subseteq matchedT'
        /\ \A s \in matchedS' \ LeftS' : SentenceTokens(s)' \subseteq matchedT'
    BY <1>1, <1>5, <1>7, <1>9, <1>10 DEF MatchedInUse
  <2>5. /\ matched_paragraphs_prev' \subseteq matchedP'
        /\ matched_sentences_prev' \subseteq matchedS' /\ matchedS' \subseteq OldS'
    BY <1>1, <1>9, <1>10 DEF MatchedInUse
  <2> QED BY <2>2, <2>3, <2>4, <2>5 DEF MatchedInUse
<1>15. GoneWords'
  <2>1. /\ \A v \in CurrT : v \in Tids /\ v # w /\ ~ Gone(v)
        /\ \A v \in OldT \ matchedT' : v \in Tids /\ v # w /\ ~ Gone(v)
        /\ \A v \in OldT : v \in Tids /\ ~ Came(v)
    BY <1>1, <1>5, <1>9, <1>11 DEF GoneWords
  <2> QED BY <1>1, <1>8, <1>10, <1>12, <2>1 DEF GoneWords
<1> QED BY <1>10, <1>13, <1>14, <1>15 DEF HistInv

LEMMA AllocWordHist ==
  ASSUME Base, Base', HistInv, FallbackWord \/ \E i \in DOMAIN diff : InsertEntry(i)
  PROVE  HistInv'
<1>0. PICK w : w = Len(words) + 1
  OBVIOUS
<1> DEFINE new == [value |-> NextWord, origin_rev_id |-> rev_id,
                   last_rev_id |-> rev_id, inbound |-> << >>, outbound |-> << >>]
<1>1. /\ InWordLoop /\ pc = "words" /\ pc' = "words" /\ Recording /\ Recording' /\ pc # "idle"
      /\ words' = Append(words, new) /\ PushWord(w)
      /\ UNCHANGED <<paragraphs, paragraphs_ht, sentences_ht, revisions,
                     ordered_revisions, last_good_rev_id, rev_id, curr, matchedP, matchedS, matchedT,
                     matched_paragraphs_prev, matched_sentences_prev, unmatched_sentences_prev,
                     unmatched_paragraphs_prev, unmatched_paragraphs_curr>>
  BY <1>0 DEF FallbackWord, InsertEntry, AllocWord, InWordLoop, Recording
<1>2. /\ new \in Word /\ new.inbound = << >> /\ new.outbound = << >>
      /\ new.origin_rev_id = rev_id /\ new.last_rev_id = rev_id
  BY <1>1, NextWordType, EmptySeq DEF Word, Base, TypeOK, InputOK
<1> HIDE DEF new
<1>3. /\ \A v \in Tids : words'[v] = words[v]
      /\ words'[w] = new /\ w \notin Tids /\ w \in Nat /\ Tids' = Tids \cup {w}
  BY <1>0, <1>1, <1>2, AppendProperties, LenProperties DEF Base, TypeOK, ArenasOK, Tids
<1>4. KnownAlone /\ CurrT' = CurrT \cup {w}
  BY <1>1, <1>3, PushIs
<1>5. /\ StoredSorted /\ MatchedInUse /\ LeftOver /\ AllListed /\ WordsKnown /\ GoneWords
      /\ CurrT \cap OldT \subseteq matchedT /\ CurrT \subseteq Tids /\ OldT \subseteq Tids
      /\ matchedT \subseteq Tids
  BY <1>1, InWork DEF HistInv, WorkIs, Base, TypeOK, ListsOK
<1>6. StoredSorted' /\ LeftOver' /\ AllListed' /\ LeftS' = LeftS /\ OldT' = OldT
  BY <1>1, <1>4, <1>5, ListsStand, KnownHistory
<1>7. /\ \A v \in Tids : (Gone(v)' <=> Gone(v)) /\ (Came(v)' <=> Came(v))
      /\ ~ Gone(w)'
  BY <1>1, <1>2, <1>3 DEF Gone, Came, EndsWith
<1>8. WordsKnown'
  <2>1. \A v \in OldT : Kept(v)'
    BY <1>1, <1>3, <1>4, <1>5, KeptStands DEF WordsKnown
  <2>2. \A v \in Tids \ OldT : Fresh(v)' /\ v \in CurrT' /\ v \notin matchedT'
    BY <1>1, <1>3, <1>4, <1>5 DEF WordsKnown, Fresh
  <2>3. Fresh(w)' /\ w \in CurrT' /\ w \notin matchedT'
    BY <1>1, <1>2, <1>3, <1>4, <1>5 DEF Fresh
  <2> QED BY <1>1, <1>3, <1>6, <2>1, <2>2, <2>3 DEF WordsKnown
<1>9. MatchedInUse'
  <2>1. CurrT' \cap OldT \subseteq InboundTokens'
    <3>1. matched_paragraphs_prev \subseteq OldP /\ matched_sentences_prev \subseteq OldS
      BY <1>1, <1>5 DEF MatchedInUse, Base, MatchInv, WorkInv, Apart
    <3>2. InboundTokens \subseteq InboundTokens'
      BY <1>1, <1>4, <1>5, <3>1, InboundStands
    <3> QED BY <1>3, <1>4, <1>5, <3>2 DEF MatchedInUse
  <2>2. matchedT' = matchedT \cup (CurrT' \cap OldT)
    BY <1>1, <1>3, <1>4, <1>5
  <2>3. \A v \in matchedT : Gone(v) => Gone(v)'
    BY <1>5, <1>7
  <2>4. /\ matched_paragraphs_prev' \subseteq matchedP'
        /\ matched_sentences_prev' \subseteq matchedS' /\ matchedS' \subseteq OldS
    BY <1>1, <1>5 DEF MatchedInUse
  <2> QED BY <1>1, <1>4, <1>5, <1>6, <2>1, <2>2, <2>3, <2>4, UseGrows
<1>10. GoneWords'
  <2>1. /\ \A v \in CurrT' : ~ Gone(v)'
        /\ \A v \in OldT \ matchedT' : ~ Gone(v)'
        /\ \A v \in OldT : ~ Came(v)'
    BY <1>1, <1>4, <1>5, <1>7 DEF GoneWords
  <2> QED BY <1>1, <1>6, <2>1 DEF GoneWords
<1> QED BY <1>6, <1>8, <1>9, <1>10 DEF HistInv

(* Steps past the gate that write no word and match none. *)
LEMMA RecordingMovesOn ==
  ASSUME Base, HistInv, MovesOn, Recording, Recording', pc # "commit", pc' # "commit",
         UNCHANGED <<unmatched_paragraphs_prev, unmatched_paragraphs_curr>>,
         pc' = "words" => pc = "words"
  PROVE  /\ StoredSorted' /\ WordsKnown' /\ MatchedInUse' /\ LeftOver' /\ AllListed'
         /\ OldT' = OldT /\ CurrT' = CurrT /\ matchedT' = matchedT
         /\ LeftP' = LeftP /\ LeftS' = LeftS
         /\ \A v : (Gone(v)' <=> Gone(v)) /\ (Came(v)' <=> Came(v))
         /\ StoredSorted /\ LeftOver /\ AllListed /\ WordsKnown /\ GoneWords
<1> USE DEF MovesOn
<1>1. /\ KnownAlone /\ MatchedInUse' /\ OldT' = OldT /\ CurrT' = CurrT
      /\ StoredSorted /\ LeftOver /\ AllListed /\ WordsKnown /\ GoneWords
  BY MovesOnIs
<1>2. StoredSorted' /\ LeftOver' /\ AllListed' /\ LeftP' = LeftP /\ LeftS' = LeftS
  BY <1>1, ListsStand
<1>3. WordsKnown'
  BY <1>1, WordsStand
<1>4. \A v : (Gone(v)' <=> Gone(v)) /\ (Came(v)' <=> Came(v))
  BY DEF Gone, Came
<1> QED BY <1>1, <1>2, <1>3, <1>4

LEMMA WordLoopsHist ==
  ASSUME Base, Base', HistInv, NextSentence \/ EndWords
  PROVE  HistInv'
<1>1. /\ MovesOn /\ Recording /\ Recording' /\ pc = "words" /\ pc' \in {"words", "record"}
      /\ UNCHANGED <<unmatched_paragraphs_prev, unmatched_paragraphs_curr>>
  BY DEF MovesOn, NextSentence, EndWords, Recording
<1>2. /\ StoredSorted' /\ WordsKnown' /\ MatchedInUse' /\ LeftOver' /\ AllListed'
      /\ OldT' = OldT /\ CurrT' = CurrT /\ matchedT' = matchedT
      /\ \A v : (Gone(v)' <=> Gone(v)) /\ (Came(v)' <=> Came(v))
      /\ GoneWords
  BY <1>1, RecordingMovesOn
<1>3. GoneWords'
  BY <1>1, <1>2 DEF GoneWords
<1> QED BY <1>2, <1>3 DEF HistInv
-----------------------------------------------------------------------------
(* The paragraphs of the revision before share no sentence and no token. *)
LEMMA PrevSeparate == ASSUME Base PROVE Separate(PrevP)
<1>1. CASE last_good_rev_id \in Stored
  BY <1>1 DEF Base, MatchInv, ArticleInv, StoredDistinct, PrevP, revision_prev
<1>2. CASE last_good_rev_id = 0
  <2>1. PrevP = {}
    BY <1>2, EmptyIds DEF Base, MatchInv, StoredInOrder, PrevP, revision_prev
  <2> QED BY <2>1 DEF Separate
<1> QED BY <1>1, <1>2 DEF Base, MatchInv, StoredInOrder

LEMMA OneSentence ==
  ASSUME Base, NEW s \in SentencesOf(PrevP), NEW t \in SentencesOf(PrevP),
         NEW w \in SentenceTokens(s), w \in SentenceTokens(t)
  PROVE  s = t
<1>1. PICK p \in PrevP : s \in ParagraphSentences(p)
  BY DEF SentencesOf
<1>2. PICK q \in PrevP : t \in ParagraphSentences(q)
  BY DEF SentencesOf
<1>3. w \in ParagraphTokens(p) /\ w \in ParagraphTokens(q)
  BY <1>1, <1>2 DEF ParagraphTokens
<1>4. p = q
  BY <1>3, PrevSeparate DEF Separate
<1> QED BY <1>1, <1>2, <1>4, PrevSeparate DEF Separate

(* An outbound pass over a sentence of the article pushes the revision on  *)
(* each of its unmatched words, once.                                      *)
LEMMA PushedIs ==
  ASSUME Base, NEW s \in OldS, PushOutbound(s)
  PROVE  /\ Tids' = Tids
         /\ \A w \in Tids :
              /\ words'[w].value = words[w].value
              /\ words'[w].origin_rev_id = words[w].origin_rev_id
              /\ words'[w].last_rev_id = words[w].last_rev_id
              /\ words'[w].inbound = words[w].inbound
              /\ words'[w].outbound =
                   IF w \in SentenceTokens(s) \ matchedT THEN Append(words[w].outbound, rev_id)
                   ELSE words[w].outbound
<1>1. /\ s \in Sids /\ IsInjective(sentences[s].words) /\ rev_id \in RevId
      /\ DOMAIN words = Tids
  BY Allocated, KnownApart, LenProperties
     DEF Base, MatchInv, TypeOK, ArenasOK, InputOK, Tids
<1>2. Tids' = Tids
  BY <1>1, PushOutboundType DEF Base, Tids
<1> DEFINE times(w) == Cardinality(OccurrencesIn(s, w))
           more(w) == [n \in 1 .. times(w) |-> rev_id]
<1>3. ASSUME NEW w \in Tids PROVE times(w) = IF w \in SentenceTokens(s) THEN 1 ELSE 0
  <2>1. CASE w \in SentenceTokens(s)
    <3>1. PICK k \in DOMAIN sentences[s].words : sentences[s].words[k] = w
      BY <2>1 DEF SentenceTokens
    <3>2. OccurrencesIn(s, w) = {k}
      BY <1>1, <3>1 DEF OccurrencesIn, IsInjective
    <3> QED BY <2>1, <3>2, FS_Singleton
  <2>2. CASE w \notin SentenceTokens(s)
    <3>1. OccurrencesIn(s, w) = {}
      BY <2>2 DEF OccurrencesIn, SentenceTokens
    <3> QED BY <2>2, <3>1, FS_EmptySet
  <2> QED BY <2>1, <2>2
<1>4. words' = [w \in DOMAIN words |->
                  IF w \in matchedT THEN words[w]
                  ELSE [words[w] EXCEPT !.outbound = @ \o more(w)]]
  BY DEF PushOutbound
<1> HIDE DEF times
<1>5. ASSUME NEW w \in Tids, NEW o \in Seq(RevId)
      PROVE  o \o more(w) = IF w \in SentenceTokens(s) THEN Append(o, rev_id) ELSE o
  <2>1. CASE w \in SentenceTokens(s)
    <3>1. more(w) = [n \in 1 .. 1 |-> rev_id]
      BY <1>3, <2>1
    <3>2. more(w) = <<rev_id>>
      BY <3>1
    <3> HIDE DEF more
    <3>3. o \o <<rev_id>> = Append(o, rev_id)
      BY <1>1, AppendIsConcat
    <3> QED BY <2>1, <3>2, <3>3
  <2>2. CASE w \notin SentenceTokens(s)
    <3>1. more(w) = [n \in 1 .. 0 |-> rev_id]
      BY <1>3, <2>2
    <3>2. more(w) = << >>
      BY <3>1
    <3> HIDE DEF more
    <3>3. o \o << >> = o
      BY ConcatEmptySeq
    <3> QED BY <2>2, <3>2, <3>3
  <2> QED BY <2>1, <2>2
<1> HIDE DEF more
<1>6. ASSUME NEW w \in Tids
      PROVE  /\ words'[w].value = words[w].value
             /\ words'[w].origin_rev_id = words[w].origin_rev_id
             /\ words'[w].last_rev_id = words[w].last_rev_id
             /\ words'[w].inbound = words[w].inbound
             /\ words'[w].outbound =
                  IF w \in SentenceTokens(s) \ matchedT THEN Append(words[w].outbound, rev_id)
                  ELSE words[w].outbound
  <2>1. words[w] \in Word /\ words[w].outbound \in Seq(RevId)
    BY WordIs DEF Base
  <2>2. CASE w \in matchedT
    BY <1>1, <1>4, <2>2
  <2>3. CASE w \notin matchedT
    <3>1. words'[w] = [words[w] EXCEPT !.outbound = words[w].outbound \o more(w)]
      BY <1>1, <1>4, <2>3
    <3>2. words'[w] = [words[w] EXCEPT !.outbound =
                        IF w \in SentenceTokens(s) THEN Append(words[w].outbound, rev_id)
                        ELSE words[w].outbound]
      BY <1>5, <2>1, <3>1
    <3> QED BY <2>1, <2>3, <3>2 DEF Word
  <2> QED BY <2>2, <2>3
<1> QED BY <1>2, <1>6

(* An outbound pass over one more sentence that was left over. *)
LEMMA PushedHist ==
  ASSUME Base, Base', HistInv, NEW s \in SentencesOf(LeftP), PushOutbound(s),
         pc \in {"outbound", "outbound_paragraphs"}, pc' = pc,
         UNCHANGED <<sentences, paragraphs, paragraphs_ht, sentences_ht, revisions,
                     ordered_revisions, last_good_rev_id, rev_id, curr, matchedP, matchedS, matchedT,
                     matched_paragraphs_prev, matched_sentences_prev, unmatched_sentences_prev,
                     unmatched_paragraphs_prev, unmatched_paragraphs_curr>>,
         \A w \in SentenceTokens(s) \ matchedT : ~ Gone(w)
  PROVE  /\ StoredSorted' /\ WordsKnown' /\ MatchedInUse' /\ LeftOver' /\ AllListed'
         /\ OldT' = OldT /\ CurrT' = CurrT /\ LeftP' = LeftP /\ LeftS' = LeftS
         /\ \A w \in CurrT : ~ Gone(w)'
         /\ \A w \in OldT : ~ Came(w)'
         /\ \A w \in OldT \ matchedT : Gone(w)' <=> Gone(w) \/ w \in SentenceTokens(s)
<1>1. /\ Recording /\ Recording' /\ pc # "idle" /\ pc \notin {"idle", "words", "commit"}
      /\ StoredSorted /\ MatchedInUse /\ LeftOver /\ AllListed /\ WordsKnown /\ GoneWords
  BY DEF Recording, HistInv
<1>2. /\ CurrT \cap OldT \subseteq matchedT /\ CurrT \subseteq Tids /\ OldT \subseteq Tids
      /\ rev_id \in RevId
  BY <1>1, InWork, Before0 DEF WorkIs
<1>3. s \in OldS /\ SentenceTokens(s) \subseteq OldT
  <2>1. PICK p \in LeftP : s \in ParagraphSentences(p)
    BY DEF SentencesOf
  <2>2. p \in OldP
    BY <1>1, <2>1, Before0 DEF LeftOver
  <2>3. s \in OldS
    BY <2>1, <2>2, KnownParts DEF Base, MatchInv, ArticleInv
  <2> QED BY <2>3 DEF OldT
<1>4. /\ Tids' = Tids
      /\ \A w \in Tids :
           /\ words'[w].value = words[w].value
           /\ words'[w].origin_rev_id = words[w].origin_rev_id
           /\ words'[w].last_rev_id = words[w].last_rev_id
           /\ words'[w].inbound = words[w].inbound
           /\ words'[w].outbound =
                IF w \in SentenceTokens(s) \ matchedT THEN Append(words[w].outbound, rev_id)
                ELSE words[w].outbound
  BY <1>3, PushedIs
<1>5. KnownAlone
  BY <1>4 DEF KnownAlone
<1>6. /\ \A p : ParagraphTokens(p)' = ParagraphTokens(p)
      /\ \A t : SentenceTokens(t)' = SentenceTokens(t)
  BY DEF ParagraphTokens, ParagraphSentences, SentenceTokens
<1>7. CurrT' = CurrT /\ InboundTokens' = InboundTokens
  BY <1>6 DEF CurrT, TokensOf, InboundTokens, Ids
<1>8. /\ StoredSorted' /\ LeftOver' /\ AllListed' /\ LeftP' = LeftP /\ LeftS' = LeftS
      /\ OldT' = OldT /\ OldS' = OldS /\ PrevT' = PrevT
  BY <1>1, <1>5, ListsStand, KnownHistory
<1>9. /\ \A w \in Tids : Came(w)' <=> Came(w)
      /\ \A w \in Tids : w \notin SentenceTokens(s) \ matchedT => (Gone(w)' <=> Gone(w))
  BY <1>4 DEF Gone, Came
<1>10. ASSUME NEW w \in SentenceTokens(s) \ matchedT PROVE Gone(w)'
  <2>1. w \in Tids /\ words'[w].outbound = Append(words[w].outbound, rev_id)
    BY <1>2, <1>3, <1>4
  <2>2. words[w].outbound \in Seq(RevId)
    BY <2>1, WordIs DEF Base
  <2> QED BY <1>2, <2>1, <2>2, AppendEnds DEF Gone
<1>11. WordsKnown'
  <2>1. \A v \in OldT : Kept(v)'
    <3> SUFFICES ASSUME NEW v \in OldT PROVE Kept(v)'
      OBVIOUS
    <3>1. v \in Tids /\ Kept(v)
      BY <1>1, <1>2 DEF WordsKnown
    <3> QED BY <1>1, <1>4, <1>5, <3>1, KeptStands
  <2>2. \A v \in Tids \ OldT : Fresh(v)' /\ v \in CurrT /\ v \notin matchedT'
    BY <1>1, <1>3, <1>4 DEF WordsKnown, Fresh
  <2> QED BY <1>1, <1>4, <1>7, <1>8, <2>1, <2>2 DEF WordsKnown
<1>12. MatchedInUse'
  <2>1. \A v \in matchedT' \ CurrT' : Recording' /\ Gone(v)' /\ v \in PrevT'
    BY <1>1, <1>2, <1>7, <1>8, <1>9 DEF MatchedInUse
  <2>2. matchedT' \subseteq OldT' /\ CurrT' \cap OldT' \subseteq InboundTokens'
    BY <1>1, <1>7, <1>8 DEF MatchedInUse
  <2>3. /\ \A p \in matchedP' : ParagraphTokens(p)' \subseteq matchedT'
        /\ \A t \in matchedS' \ LeftS' : SentenceTokens(t)' \subseteq matchedT'
    BY <1>1, <1>6, <1>8 DEF MatchedInUse
  <2>4. /\ matched_paragraphs_prev' \subseteq matchedP'
        /\ matched_sentences_prev' \subseteq matchedS' /\ matchedS' \subseteq OldS'
    BY <1>1, <1>8 DEF MatchedInUse
  <2> QED BY <2>1, <2>2, <2>3, <2>4 DEF MatchedInUse
<1>13. \A w \in CurrT : ~ Gone(w)'
  <2> SUFFICES ASSUME NEW w \in CurrT PROVE ~ Gone(w)'
    OBVIOUS
  <2>1. w \notin SentenceTokens(s) \ matchedT
    BY <1>2, <1>3
  <2> QED BY <1>1, <1>2, <1>9, <2>1 DEF GoneWords
<1>14. \A w \in OldT : ~ Came(w)'
  BY <1>1, <1>2, <1>9 DEF GoneWords
<1>15. \A w \in OldT \ matchedT : Gone(w)' <=> Gone(w) \/ w \in SentenceTokens(s)
  BY <1>2, <1>9, <1>10
<1> QED BY <1>7, <1>8, <1>11, <1>12, <1>13, <1>14, <1>15

LEMMA OutboundLoopsHist ==
  ASSUME Base, Base', HistInv, BeginRecord \/ EndOutboundSentences
  PROVE  HistInv'
<1>1. /\ MovesOn /\ Recording /\ Recording' /\ pc \in {"record", "outbound"}
      /\ pc' \in {"outbound", "outbound_paragraphs"}
      /\ UNCHANGED <<unmatched_paragraphs_prev, unmatched_paragraphs_curr>>
  BY DEF MovesOn, BeginRecord, EndOutboundSentences, Recording
<1>2. /\ StoredSorted' /\ WordsKnown' /\ MatchedInUse' /\ LeftOver' /\ AllListed'
      /\ OldT' = OldT /\ CurrT' = CurrT /\ matchedT' = matchedT
      /\ LeftP' = LeftP /\ LeftS' = LeftS
      /\ \A v : (Gone(v)' <=> Gone(v)) /\ (Came(v)' <=> Came(v))
      /\ GoneWords /\ LeftOver
  BY <1>1, RecordingMovesOn
<1>3. CASE BeginRecord
  <2>1. pc = "record" /\ pc' = "outbound" /\ todo' = unmatched_sentences_prev
    BY <1>3 DEF BeginRecord
  <2>2. IsInjective(todo') /\ Ids(todo') = LeftS
    BY <1>2, <2>1 DEF LeftOver, LeftS
  <2>3. \A w \in OldT' \ matchedT' :
          Gone(w)' <=> \E s \in LeftS' \ Ids(todo') : w \in SentenceTokens(s)'
    BY <1>2, <2>1, <2>2 DEF GoneWords
  <2>4. Ids(todo)' \subseteq LeftS'
    BY <1>2, <2>2 DEF Ids
  <2>5. GoneWords'
    BY <1>1, <1>2, <2>1, <2>2, <2>3, <2>4 DEF GoneWords
  <2> QED BY <1>2, <2>5 DEF HistInv
<1>4. CASE EndOutboundSentences
  <2>1. /\ pc = "outbound" /\ pc' = "outbound_paragraphs" /\ todo = << >>
        /\ todo' = SecondPass /\ pos' = 1
        /\ unmatched_sentences_prev' = unmatched_sentences_prev /\ paragraphs' = paragraphs
        /\ sentences' = sentences
    BY <1>4 DEF EndOutboundSentences
  <2>2. \A s : SentenceTokens(s)' = SentenceTokens(s)
    BY <2>1 DEF SentenceTokens
  <2>3. \A w \in OldT \ matchedT : Gone(w) <=> \E s \in LeftS : w \in SentenceTokens(s)
    BY <1>2, <2>1, EmptyIds DEF GoneWords
  <2>4. CASE unmatched_sentences_prev # << >>
    <3>1. todo' = << >>
      BY <2>1, <2>4 DEF SecondPass
    <3>2. IsInjective(todo') /\ Ids(todo') = {}
      BY <3>1, EmptyIds
    <3>3. \A w : GoneInPass(w)' <=> \E s \in LeftS : w \in SentenceTokens(s)
      BY <1>2, <2>1, <2>2, <2>4 DEF GoneInPass
    <3>4. GoneWords'
      BY <1>1, <1>2, <2>1, <2>3, <3>1, <3>2, <3>3 DEF GoneWords
    <3> QED BY <1>2, <3>4 DEF HistInv
  <2>5. CASE unmatched_sentences_prev = << >>
    <3>1. todo' = unmatched_paragraphs_prev /\ LeftS = {}
      BY <2>1, <2>5, EmptyIds DEF SecondPass, LeftS
    <3>2. IsInjective(todo') /\ Ids(todo') = LeftP
      BY <1>2, <3>1 DEF LeftOver, LeftP
    <3>3. ASSUME NEW w PROVE ~ GoneInPass(w)'
      <4>1. LeftP' \ Ids(todo') = {}
        BY <1>2, <3>2
      <4>2. todo' # << >> => \A j \in DOMAIN paragraphs[Head(todo')].sentences : ~ (j < 1)
        <5> SUFFICES ASSUME todo' # << >>
                     PROVE  \A j \in DOMAIN paragraphs[Head(todo')].sentences : ~ (j < 1)
          OBVIOUS
        <5>1. Head(todo') \in Pids
          BY <3>1, Kinds, TailType DEF Base
        <5>2. /\ DOMAIN paragraphs[Head(todo')].sentences
                   = 1 .. Len(paragraphs[Head(todo')].sentences)
              /\ Len(paragraphs[Head(todo')].sentences) \in Nat
          BY <5>1, Kinds, LenProperties DEF Base
        <5> QED BY <5>2
      <4> QED BY <2>1, <2>5, <4>1, <4>2 DEF GoneInPass, CurrentParagraph
    <3>4. GoneWords'
      BY <1>1, <1>2, <2>1, <2>3, <2>5, <3>1, <3>2, <3>3 DEF GoneWords
    <3> QED BY <1>2, <3>4 DEF HistInv
  <2> QED BY <2>4, <2>5
<1> QED BY <1>3, <1>4

LEMMA OutboundSentenceHist ==
  ASSUME Base, Base', HistInv, OutboundSentence
  PROVE  HistInv'
<1>0. PICK s : s = Head(todo)
  OBVIOUS
<1>1. /\ pc = "outbound" /\ pc' = "outbound" /\ todo # << >> /\ todo' = Tail(todo)
      /\ PushOutbound(s)
      /\ UNCHANGED <<sentences, paragraphs, paragraphs_ht, sentences_ht, revisions,
                     ordered_revisions, last_good_rev_id, rev_id, curr, matchedP, matchedS, matchedT,
                     matched_paragraphs_prev, matched_sentences_prev, unmatched_sentences_prev,
                     unmatched_paragraphs_prev, unmatched_paragraphs_curr>>
  BY <1>0 DEF OutboundSentence
<1>2. LeftOver /\ GoneWords
  BY <1>1 DEF HistInv
<1>3. /\ IsInjective(todo) /\ Ids(todo) \subseteq LeftS /\ todo \in Seq(Nat)
      /\ \A w \in OldT \ matchedT :
           Gone(w) <=> \E t \in LeftS \ Ids(todo) : w \in SentenceTokens(t)
  BY <1>1, <1>2, Kinds DEF GoneWords, Base
<1>4. /\ IsInjective(Tail(todo)) /\ Ids(Tail(todo)) = Ids(todo) \ {s} /\ s \in Ids(todo)
  BY <1>0, <1>1, <1>3, InjectiveTail
<1>5. s \in LeftS /\ s \in SentencesOf(LeftP) /\ LeftS \subseteq SentencesOf(PrevP)
  BY <1>2, <1>3, <1>4 DEF LeftOver, SentencesOf
<1>6. SentenceTokens(s) \subseteq OldT
  BY <1>5, Before0 DEF PrevT, TokensOf, ParagraphTokens, SentencesOf
<1>7. \A w \in SentenceTokens(s) \ matchedT : ~ Gone(w)
  <2> SUFFICES ASSUME NEW w \in SentenceTokens(s) \ matchedT,
                      NEW t \in LeftS \ Ids(todo), w \in SentenceTokens(t)
               PROVE  FALSE
    BY <1>3, <1>6
  <2>1. s = t
    BY <1>5, OneSentence
  <2> QED BY <1>4, <2>1
<1>8. /\ StoredSorted' /\ WordsKnown' /\ MatchedInUse' /\ LeftOver' /\ AllListed'
      /\ OldT' = OldT /\ CurrT' = CurrT /\ LeftS' = LeftS
      /\ \A w \in CurrT : ~ Gone(w)'
      /\ \A w \in OldT : ~ Came(w)'
      /\ \A w \in OldT \ matchedT : Gone(w)' <=> Gone(w) \/ w \in SentenceTokens(s)
  BY <1>1, <1>5, <1>7, PushedHist
<1>9. \A t : SentenceTokens(t)' = SentenceTokens(t)
  BY <1>1 DEF SentenceTokens
<1>10. \A w \in OldT \ matchedT :
         Gone(w)' <=> \E t \in LeftS \ Ids(Tail(todo)) : w \in SentenceTokens(t)
  BY <1>3, <1>4, <1>5, <1>8
<1>11. Ids(todo)' = Ids(Tail(todo))
  BY <1>1 DEF Ids
<1>12. GoneWords'
  BY <1>1, <1>3, <1>4, <1>8, <1>9, <1>10, <1>11 DEF GoneWords
<1> QED BY <1>8, <1>12 DEF HistInv

LEMMA OutboundParagraphHist ==
  ASSUME Base, Base', HistInv, OutboundParagraph
  PROVE  HistInv'
<1>0. PICK p : p = Head(todo)
  OBVIOUS
<1>1. /\ pc = "outbound_paragraphs" /\ pc' = "outbound_paragraphs" /\ todo # << >>
      /\ IF pos <= Len(paragraphs[p].sentences)
         THEN PushOutbound(paragraphs[p].sentences[pos]) /\ pos' = pos + 1 /\ todo' = todo
         ELSE todo' = Tail(todo) /\ pos' = 1 /\ words' = words
      /\ UNCHANGED <<sentences, paragraphs, paragraphs_ht, sentences_ht, revisions,
                     ordered_revisions, last_good_rev_id, rev_id, curr, matchedP, matchedS, matchedT,
                     matched_paragraphs_prev, matched_sentences_prev, unmatched_sentences_prev,
                     unmatched_paragraphs_prev, unmatched_paragraphs_curr>>
  BY <1>0 DEF OutboundParagraph, CurrentParagraph
<1>2. LeftOver /\ GoneWords /\ Recording /\ Recording'
  BY <1>1 DEF HistInv, Recording
<1>3. /\ IsInjective(todo) /\ Ids(todo) \subseteq LeftP /\ todo \in Seq(Nat)
      /\ unmatched_sentences_prev = << >>
      /\ \A w \in OldT \ matchedT : Gone(w) <=> GoneInPass(w)
  BY <1>1, <1>2, Kinds DEF GoneWords, Base
<1>4. /\ IsInjective(Tail(todo)) /\ Ids(Tail(todo)) = Ids(todo) \ {p} /\ p \in Ids(todo)
  BY <1>0, <1>1, <1>3, InjectiveTail
<1>5. /\ p \in LeftP /\ p \in PrevP /\ LeftP \subseteq PrevP /\ p \in OldP /\ p \in Pids
  BY <1>2, <1>3, <1>4, Before0, Allocated DEF LeftOver, Base
<1>6. /\ DOMAIN paragraphs[p].sentences = 1 .. Len(paragraphs[p].sentences)
      /\ Len(paragraphs[p].sentences) \in Nat /\ pos \in Nat \ {0}
      /\ IsInjective(paragraphs[p].sentences)
  <2>1. IsInjective(paragraphs[p].sentences)
    BY <1>5, PrevSeparate DEF Separate
  <2> QED BY <1>5, <2>1, Kinds, LenProperties DEF Base, TypeOK, LoopOK
<1>7. \A w : GoneInPass(w) <=>
         \/ \E q \in LeftP \ Ids(todo) : w \in ParagraphTokens(q)
         \/ \E j \in DOMAIN paragraphs[p].sentences :
              j < pos /\ w \in SentenceTokens(paragraphs[p].sentences[j])
  BY <1>0, <1>1, <1>3 DEF GoneInPass, CurrentParagraph
<1>8. /\ \A t : SentenceTokens(t)' = SentenceTokens(t)
      /\ \A q : ParagraphTokens(q)' = ParagraphTokens(q)
  BY <1>1 DEF SentenceTokens, ParagraphTokens, ParagraphSentences
<1>9. \A w : w \in ParagraphTokens(p) <=>
              \E j \in DOMAIN paragraphs[p].sentences : w \in SentenceTokens(paragraphs[p].sentences[j])
  BY DEF ParagraphTokens, ParagraphSentences
<1>10. CASE pos <= Len(paragraphs[p].sentences)
  <2>0. PICK s : s = paragraphs[p].sentences[pos]
    OBVIOUS
  <2>1. PushOutbound(s) /\ pos' = pos + 1 /\ todo' = todo
    BY <1>1, <1>10, <2>0
  <2>2. pos \in DOMAIN paragraphs[p].sentences
    BY <1>6, <1>10
  <2>3. s \in ParagraphSentences(p) /\ s \in SentencesOf(LeftP) /\ s \in SentencesOf(PrevP)
    BY <1>5, <2>0, <2>2 DEF ParagraphSentences, SentencesOf
  <2>4. SentenceTokens(s) \subseteq ParagraphTokens(p) /\ ParagraphTokens(p) \subseteq OldT
    BY <1>5, <2>3, Before0 DEF PrevT, TokensOf, ParagraphTokens
  <2>5. \A w \in SentenceTokens(s) \ matchedT : ~ Gone(w)
    <3> SUFFICES ASSUME NEW w \in SentenceTokens(s) \ matchedT, GoneInPass(w) PROVE FALSE
      BY <1>3, <2>4
    <3>1. ASSUME NEW q \in LeftP \ Ids(todo), w \in ParagraphTokens(q) PROVE FALSE
      <4>1. q = p
        BY <1>5, <2>4, <3>1, PrevSeparate DEF Separate
      <4> QED BY <1>4, <4>1
    <3>2. ASSUME NEW j \in DOMAIN paragraphs[p].sentences, j < pos,
                 w \in SentenceTokens(paragraphs[p].sentences[j])
          PROVE  FALSE
      <4>1. paragraphs[p].sentences[j] \in SentencesOf(PrevP)
        BY <1>5 DEF ParagraphSentences, SentencesOf
      <4>2. paragraphs[p].sentences[j] = s
        BY <2>3, <3>2, <4>1, OneSentence
      <4>3. j = pos
        BY <1>6, <2>0, <2>2, <4>2 DEF IsInjective
      <4> QED BY <1>6, <3>2, <4>3
    <3> QED BY <1>7, <3>1, <3>2
  <2>6. /\ StoredSorted' /\ WordsKnown' /\ MatchedInUse' /\ LeftOver' /\ AllListed'
        /\ OldT' = OldT /\ CurrT' = CurrT /\ LeftP' = LeftP
        /\ \A w \in CurrT : ~ Gone(w)'
        /\ \A w \in OldT : ~ Came(w)'
        /\ \A w \in OldT \ matchedT : Gone(w)' <=> Gone(w) \/ w \in SentenceTokens(s)
    BY <1>1, <2>1, <2>3, <2>5, PushedHist
  <2>7. \A j \in DOMAIN paragraphs[p].sentences : j < pos + 1 <=> j < pos \/ j = pos
    BY <1>6
  <2>8. Ids(todo)' = Ids(todo)
    BY <2>1 DEF Ids
  <2>9. \A w : GoneInPass(w)' <=>
           \/ \E q \in LeftP \ Ids(todo) : w \in ParagraphTokens(q)
           \/ \E j \in DOMAIN paragraphs[p].sentences :
                j < pos + 1 /\ w \in SentenceTokens(paragraphs[p].sentences[j])
    BY <1>0, <1>1, <1>3, <1>8, <2>1, <2>6, <2>8 DEF GoneInPass, CurrentParagraph
  <2>10. \A w : GoneInPass(w)' <=> GoneInPass(w) \/ w \in SentenceTokens(s)
    BY <1>7, <2>0, <2>2, <2>7, <2>9
  <2>11. \A w \in OldT' \ matchedT' : Gone(w)' <=> GoneInPass(w)'
    BY <1>1, <1>3, <2>6, <2>10
  <2>12. GoneWords'
    BY <1>1, <1>3, <2>1, <2>6, <2>8, <2>11 DEF GoneWords
  <2> QED BY <2>6, <2>12 DEF HistInv
<1>11. CASE ~ (pos <= Len(paragraphs[p].sentences))
  <2>1. todo' = Tail(todo) /\ pos' = 1 /\ words' = words
    BY <1>1, <1>11
  <2>2. MovesOn
    BY <1>1, <1>2, <2>1 DEF MovesOn
  <2>3. /\ StoredSorted' /\ WordsKnown' /\ MatchedInUse' /\ LeftOver' /\ AllListed'
        /\ OldT' = OldT /\ CurrT' = CurrT /\ matchedT' = matchedT /\ LeftP' = LeftP
        /\ \A v : (Gone(v)' <=> Gone(v)) /\ (Came(v)' <=> Came(v))
    BY <1>1, <1>2, <2>2, RecordingMovesOn
  <2>4. Ids(todo)' = Ids(todo) \ {p}
    BY <1>4, <2>1 DEF Ids
  <2>5. \A j \in DOMAIN paragraphs[p].sentences : j < pos
    BY <1>6, <1>11
  <2>6. ASSUME NEW w PROVE GoneInPass(w)' <=> \E q \in LeftP \ Ids(todo)' : w \in ParagraphTokens(q)
    <3>1. todo' # << >> => \A j \in DOMAIN paragraphs[Head(todo')].sentences : ~ (j < 1)
      <4> SUFFICES ASSUME todo' # << >>
                   PROVE  \A j \in DOMAIN paragraphs[Head(todo')].sentences : ~ (j < 1)
        OBVIOUS
      <4>1. Head(todo') \in Ids(todo') /\ todo' \in Seq(Nat)
        <5>1. todo' \in Seq(Nat)
          BY <1>1, <1>3, <2>1, TailType
        <5> QED BY <5>1, IdsTail
      <4>2. Head(todo') \in Pids
        BY <1>2, <1>3, <2>1, <2>4, <4>1, Before0, Allocated DEF LeftOver, Base, Ids
      <4>3. /\ DOMAIN paragraphs[Head(todo')].sentences
                 = 1 .. Len(paragraphs[Head(todo')].sentences)
            /\ Len(paragraphs[Head(todo')].sentences) \in Nat
        BY <4>2, Kinds, LenProperties DEF Base
      <4> QED BY <4>3
    <3> QED BY <1>1, <1>3, <1>8, <2>1, <2>3, <3>1 DEF GoneInPass, CurrentParagraph
  <2>7. \A w : GoneInPass(w)' <=> GoneInPass(w)
    <3>1. LeftP \ Ids(todo)' = (LeftP \ Ids(todo)) \cup {p}
      BY <1>4, <1>5, <2>4
    <3> QED BY <1>7, <1>9, <2>5, <2>6, <3>1
  <2>8. \A w \in OldT' \ matchedT' : Gone(w)' <=> GoneInPass(w)'
    BY <1>3, <2>3, <2>7
  <2>9. IsInjective(todo') /\ Ids(todo)' \subseteq LeftP'
    BY <1>3, <1>4, <2>1, <2>3, <2>4
  <2>10. GoneWords'
    BY <1>1, <1>2, <1>3, <2>3, <2>8, <2>9 DEF GoneWords
  <2> QED BY <2>3, <2>10 DEF HistInv
<1> QED BY <1>10, <1>11
-----------------------------------------------------------------------------
(* When the outbound passes are over, the words that have gone are those   *)
(* the revision before has and this one has not.                           *)
LEMMA PassesOver ==
  ASSUME Base, HistInv, pc = "outbound_paragraphs", todo = << >>, NEW w \in OldT
  PROVE  /\ Gone(w) <=> w \in PrevT /\ w \notin CurrT
         /\ w \in InboundTokens /\ Survives(w) <=> w \in CurrT
<1>1. /\ MatchedInUse /\ LeftOver /\ AllListed /\ GoneWords /\ Recording
      /\ CurrT \cap OldT \subseteq matchedT
  BY InWork DEF HistInv, Recording, WorkIs
<1>2. w \in CurrT => ~ Gone(w)
  BY <1>1 DEF GoneWords
<1>3. w \in matchedT \ CurrT => Gone(w) /\ w \in PrevT
  BY <1>1 DEF MatchedInUse
<1>4. ASSUME w \notin matchedT PROVE Gone(w) <=> w \in PrevT
  <2>1. Gone(w) <=> IF unmatched_sentences_prev # << >>
                    THEN \E s \in LeftS : w \in SentenceTokens(s)
                    ELSE \E p \in LeftP : w \in ParagraphTokens(p)
    BY <1>1, <1>4, EmptyIds DEF GoneWords, GoneInPass
  <2>2. Gone(w) => w \in PrevT
    BY <1>1, <2>1 DEF LeftOver, SentencesOf, PrevT, TokensOf, ParagraphTokens
  <2>3. ASSUME w \in PrevT PROVE Gone(w)
    <3>1. PICK p \in PrevP : w \in ParagraphTokens(p)
      BY <2>3 DEF PrevT, TokensOf
    <3>2. p \in LeftP
      BY <1>1, <1>4, <3>1 DEF AllListed, MatchedInUse
    <3>3. CASE unmatched_sentences_prev = << >>
      BY <2>1, <3>1, <3>2, <3>3
    <3>4. CASE unmatched_sentences_prev # << >>
      <4>1. SentencesOf(LeftP) \subseteq matchedS
        BY <1>1, <3>4 DEF AllListed
      <4>2. PICK s \in ParagraphSentences(p) : w \in SentenceTokens(s)
        BY <3>1 DEF ParagraphTokens
      <4>3. s \in matchedS
        BY <3>2, <4>1, <4>2 DEF SentencesOf
      <4>4. s \in LeftS
        BY <1>1, <1>4, <4>2, <4>3 DEF MatchedInUse
      <4> QED BY <2>1, <3>4, <4>2, <4>4
    <3> QED BY <3>3, <3>4
  <2> QED BY <2>2, <2>3
<1>5. Survives(w) <=> w \in matchedT /\ ~ Gone(w)
  BY DEF Survives, Gone, EndsWith
<1>6. w \in CurrT => w \in InboundTokens
  BY <1>1 DEF MatchedInUse
<1> QED BY <1>1, <1>2, <1>3, <1>4, <1>5, <1>6

(* The last revision a word of the article was seen in is the one before   *)
(* exactly when it is in the text of that one.                             *)
LEMMA SeenBefore ==
  ASSUME Base, StoredSorted, pc # "commit", NEW w \in OldT, Kept(w)
  PROVE  /\ last_good_rev_id \in Stored
         /\ words[w].last_rev_id = revision_prev.id <=> w \in PrevT
         /\ Present(w, last_good_rev_id) <=> w \in PrevT
<1>1. words[w].last_rev_id \in Stored /\ Present(w, words[w].last_rev_id)
  BY DEF Kept, LastSeen
<1>2. last_good_rev_id \in Stored
  BY <1>1 DEF StoredSorted, Base, MatchInv, StoredInOrder
<1>3. revision_prev.id = last_good_rev_id
  BY <1>2 DEF StoredSorted, revision_prev
<1>4. Present(w, last_good_rev_id) <=> w \in PrevT
  BY DEF Present, PrevT, PrevP, TokensOf, revision_prev
<1>5. /\ words[w].last_rev_id <= last_good_rev_id
      /\ words[w].last_rev_id \in Int /\ last_good_rev_id \in Int
  BY <1>1, <1>2, Before0, RevIdIs DEF StoredSorted
<1>6. w \in PrevT => last_good_rev_id <= words[w].last_rev_id
  BY <1>2, <1>4 DEF Kept, LastSeen
<1> QED BY <1>1, <1>2, <1>3, <1>4, <1>5, <1>6

(* What the inbound passes do to the words. *)
LEMMA InboundIs ==
  ASSUME TypeOK, RecordInbound
  PROVE  /\ Tids' = Tids
         /\ \A w \in Tids :
              /\ ~ (w \in InboundTokens /\ Survives(w)) => words'[w] = words[w]
              /\ w \in InboundTokens /\ Survives(w) => words'[w].last_rev_id = rev_id
              /\ words'[w].value = words[w].value
              /\ words'[w].origin_rev_id = words[w].origin_rev_id
              /\ words'[w].outbound = words[w].outbound
              /\ words'[w].inbound =
                   IF w \in InboundTokens /\ Survives(w) /\ words[w].last_rev_id # revision_prev.id
                   THEN Append(words[w].inbound, rev_id) ELSE words[w].inbound
<1>1. words \in Seq(Word) /\ DOMAIN words = Tids /\ rev_id \in RevId
  BY LenProperties DEF TypeOK, ArenasOK, InputOK, Tids
<1>2. words' = [w \in DOMAIN words |->
                  IF w \in InboundTokens /\ Survives(w) THEN UpdateInbound(w)
                  ELSE words[w]]
  BY DEF RecordInbound
<1>3. Tids' = Tids
  <2>1. TypeOK' /\ DOMAIN words' = DOMAIN words
    BY <1>2, RecordInboundType
  <2> QED BY <2>1, LenProperties DEF TypeOK, ArenasOK, Tids
<1>4. ASSUME NEW w \in Tids
      PROVE  /\ ~ (w \in InboundTokens /\ Survives(w)) => words'[w] = words[w]
             /\ w \in InboundTokens /\ Survives(w) => words'[w].last_rev_id = rev_id
             /\ words'[w].value = words[w].value
             /\ words'[w].origin_rev_id = words[w].origin_rev_id
             /\ words'[w].outbound = words[w].outbound
             /\ words'[w].inbound =
                  IF w \in InboundTokens /\ Survives(w) /\ words[w].last_rev_id # revision_prev.id
                  THEN Append(words[w].inbound, rev_id) ELSE words[w].inbound
  <2>1. words[w] \in Word
    BY WordIs
  <2>2. CASE ~ (w \in InboundTokens /\ Survives(w))
    BY <1>1, <1>2, <2>2
  <2>3. CASE w \in InboundTokens /\ Survives(w)
    <3>1. words'[w] = UpdateInbound(w)
      BY <1>1, <1>2, <2>3
    <3> QED BY <2>1, <2>3, <3>1 DEF UpdateInbound, Word
  <2> QED BY <2>2, <2>3
<1> QED BY <1>3, <1>4

LEMMA RecordInboundHist ==
  ASSUME Base, Base', HistInv, RecordInbound
  PROVE  HistInv'
<1>1. /\ pc = "outbound_paragraphs" /\ todo = << >> /\ pc' = "commit" /\ pc # "idle"
      /\ Recording /\ Recording' /\ todo' = todo
      /\ UNCHANGED <<sentences, paragraphs, paragraphs_ht, sentences_ht, revisions,
                     ordered_revisions, last_good_rev_id, rev_id, curr, matchedP, matchedS, matchedT,
                     matched_paragraphs_prev, matched_sentences_prev, unmatched_sentences_prev,
                     unmatched_paragraphs_prev, unmatched_paragraphs_curr>>
  BY DEF RecordInbound, Recording
<1>2. /\ StoredSorted /\ MatchedInUse /\ LeftOver /\ AllListed /\ WordsKnown /\ GoneWords
      /\ CurrT \subseteq Tids /\ OldT \subseteq Tids /\ rev_id \in RevId /\ Stored \subseteq RevId
      /\ \A r \in Stored : r < rev_id
  BY <1>1, InWork, Before0 DEF HistInv, WorkIs
<1>3. /\ Tids' = Tids
      /\ \A w \in Tids :
           /\ words'[w].value = words[w].value
           /\ words'[w].origin_rev_id = words[w].origin_rev_id
           /\ words'[w].outbound = words[w].outbound
  BY InboundIs DEF Base
<1>4. \A w \in OldT :
        /\ w \notin CurrT => words'[w] = words[w]
        /\ w \in CurrT => words'[w].last_rev_id = rev_id
        /\ words'[w].inbound = IF w \in CurrT /\ w \notin PrevT
                               THEN Append(words[w].inbound, rev_id) ELSE words[w].inbound
  <2> SUFFICES ASSUME NEW w \in OldT
               PROVE  /\ w \notin CurrT => words'[w] = words[w]
                      /\ w \in CurrT => words'[w].last_rev_id = rev_id
                      /\ words'[w].inbound = IF w \in CurrT /\ w \notin PrevT
                               THEN Append(words[w].inbound, rev_id) ELSE words[w].inbound
    OBVIOUS
  <2>1. w \in InboundTokens /\ Survives(w) <=> w \in CurrT
    BY <1>1, PassesOver
  <2>2. words[w].last_rev_id = revision_prev.id <=> w \in PrevT
    BY <1>1, <1>2, SeenBefore DEF WordsKnown
  <2> QED BY <1>2, <2>1, <2>2, InboundIs DEF Base
<1>5. \A w \in Tids \ OldT : words'[w] = words[w]
  <2>1. \A w \in Tids \ OldT : ~ Survives(w)
    BY <1>2 DEF MatchedInUse, Survives
  <2> QED BY <2>1, InboundIs DEF Base
<1>6. KnownAlone
  BY <1>1, <1>3 DEF KnownAlone
<1>7. /\ \A p : ParagraphTokens(p)' = ParagraphTokens(p)
      /\ \A t : SentenceTokens(t)' = SentenceTokens(t)
  BY <1>1 DEF ParagraphTokens, ParagraphSentences, SentenceTokens
<1>8. CurrT' = CurrT /\ InboundTokens' = InboundTokens
  BY <1>1, <1>7 DEF CurrT, TokensOf, InboundTokens, Ids
<1>9. /\ StoredSorted' /\ LeftOver' /\ AllListed' /\ LeftS' = LeftS /\ Stored' = Stored
      /\ OldT' = OldT /\ OldS' = OldS /\ PrevT' = PrevT
      /\ \A r \in Stored : \A w : Present(w, r)' <=> Present(w, r)
  BY <1>1, <1>2, <1>6, ListsStand, KnownHistory
<1>10. \A w \in Tids : Gone(w)' <=> Gone(w)
  BY <1>1, <1>3 DEF Gone
<1>11. \A w \in OldT : Kept(w)'
  <2> SUFFICES ASSUME NEW w \in OldT PROVE Kept(w)'
    OBVIOUS
  <2>1. /\ w \in Tids /\ Kept(w) /\ ~ Came(w)
        /\ words[w].inbound \in Seq(RevId)
        /\ Ids(words[w].inbound) \subseteq Stored \cup {rev_id}
    BY <1>1, <1>2, WordIs DEF WordsKnown, GoneWords, Base, NoSpamInHistory, HistoryNames
  <2>2. OnceEach(words[w].inbound)'
    <3>1. OnceEach(Append(words[w].inbound, rev_id))
      BY <2>1, OnceAppend DEF Kept, Came
    <3> QED BY <1>4, <1>9, <2>1, <3>1 DEF OnceEach, Kept
  <2>3. OnceEach(words[w].outbound)' /\ words'[w].origin_rev_id \in Stored'
    BY <1>3, <1>9, <2>1 DEF OnceEach, Kept
  <2>4. \A r \in Stored : Outs(w, r)' = Outs(w, r)
    BY <1>3, <2>1 DEF Outs
  <2>5. \A r \in Stored : Ins(w, r)' = Ins(w, r)
    <3> SUFFICES ASSUME NEW r \in Stored PROVE Ins(w, r)' = Ins(w, r)
      OBVIOUS
    <3>1. { n \in DOMAIN Append(words[w].inbound, rev_id) : Append(words[w].inbound, rev_id)[n] <= r }
            = { n \in DOMAIN words[w].inbound : words[w].inbound[n] <= r }
      BY <1>2, <2>1, LaterLeavesCount
    <3> QED BY <1>3, <1>4, <2>1, <3>1 DEF Ins
  <2>6. Balanced(w)'
    BY <1>9, <2>1, <2>4, <2>5 DEF Balanced, Kept
  <2>7. LastSeen(w)'
    <3>1. CASE w \in CurrT
      <4>1. \A r \in Stored : r <= rev_id
        BY Before0
      <4> QED BY <1>1, <1>4, <1>8, <1>9, <3>1, <4>1 DEF LastSeen
    <3>2. CASE w \notin CurrT
      BY <1>1, <1>4, <1>8, <1>9, <2>1, <3>2 DEF LastSeen, Kept
    <3> QED BY <3>1, <3>2
  <2> QED BY <2>2, <2>3, <2>6, <2>7 DEF Kept
<1>12. WordsKnown'
  <2>1. \A v \in Tids \ OldT : Fresh(v)' /\ v \in CurrT /\ v \notin matchedT'
    BY <1>1, <1>2, <1>5 DEF WordsKnown, Fresh
  <2> QED BY <1>1, <1>3, <1>8, <1>9, <1>11, <2>1 DEF WordsKnown
<1>13. MatchedInUse'
  <2>1. \A v \in matchedT' \ CurrT' : Recording' /\ Gone(v)' /\ v \in PrevT'
    BY <1>1, <1>2, <1>8, <1>9, <1>10 DEF MatchedInUse
  <2>2. matchedT' \subseteq OldT' /\ CurrT' \cap OldT' \subseteq InboundTokens'
    BY <1>1, <1>2, <1>8, <1>9 DEF MatchedInUse
  <2>3. /\ \A p \in matchedP' : ParagraphTokens(p)' \subseteq matchedT'
        /\ \A t \in matchedS' \ LeftS' : SentenceTokens(t)' \subseteq matchedT'
    BY <1>1, <1>2, <1>7, <1>9 DEF MatchedInUse
  <2>4. /\ matched_paragraphs_prev' \subseteq matchedP'
        /\ matched_sentences_prev' \subseteq matchedS' /\ matchedS' \subseteq OldS'
    BY <1>1, <1>2, <1>9 DEF MatchedInUse
  <2> QED BY <2>1, <2>2, <2>3, <2>4 DEF MatchedInUse
<1>14. GoneWords'
  <2>1. \A w \in CurrT : ~ Gone(w)'
    BY <1>1, <1>2, <1>10 DEF GoneWords
  <2>2. \A w \in OldT : Gone(w)' <=> w \in PrevT /\ w \notin CurrT
    BY <1>1, <1>2, <1>10, PassesOver
  <2>3. ASSUME NEW w \in OldT PROVE Came(w)' <=> w \in CurrT /\ w \notin PrevT
    <3>1. /\ w \in Tids /\ ~ Came(w) /\ words[w].inbound \in Seq(RevId)
      BY <1>1, <1>2, WordIs DEF GoneWords, Base
    <3>2. EndsWith(Append(words[w].inbound, rev_id), rev_id)
      BY <1>2, <3>1, AppendEnds
    <3> QED BY <1>1, <1>4, <3>1, <3>2 DEF Came
  <2> QED BY <1>1, <1>8, <1>9, <2>1, <2>2, <2>3 DEF GoneWords
<1> QED BY <1>9, <1>12, <1>13, <1>14 DEF HistInv

-----------------------------------------------------------------------------
(* Counting a whole history: the events up to the revision before, and     *)
(* that of the revision in progress.                                       *)
LEMMA CountAll ==
  ASSUME Base, StoredSorted, pc # "idle", NEW o \in Seq(RevId), OnceEach(o),
         Ids(o) \subseteq Stored \cup {rev_id}, last_good_rev_id \in Stored
  PROVE  /\ Cardinality({ n \in DOMAIN o : o[n] <= last_good_rev_id }) \in Nat
         /\ Cardinality({ n \in DOMAIN o : o[n] <= rev_id }) =
              Cardinality({ n \in DOMAIN o : o[n] <= last_good_rev_id })
                + (IF EndsWith(o, rev_id) THEN 1 ELSE 0)
<1>1. /\ last_good_rev_id \in RevId /\ rev_id \in RevId /\ last_good_rev_id < rev_id
      /\ \A r \in Stored : r <= last_good_rev_id
  BY Before0 DEF StoredSorted
<1>2. DOMAIN o = 1 .. Len(o) /\ Len(o) \in Nat
  BY LenProperties
<1>3. ASSUME NEW n \in DOMAIN o
      PROVE  o[n] <= last_good_rev_id \/ (o[n] = rev_id /\ n = Len(o))
  <2>1. o[n] \in Stored \cup {rev_id}
    BY DEF Ids
  <2>2. CASE n < Len(o)
    BY <1>1, <2>2 DEF OnceEach
  <2>3. CASE n = Len(o)
    BY <1>1, <2>1, <2>3
  <2>4. n < Len(o) \/ n = Len(o)
    BY <1>2
  <2> QED BY <2>2, <2>3, <2>4
<1> QED BY <1>1, <1>3, CountOnce

LEMMA CommitHist ==
  ASSUME Base, Base', HistInv, Commit
  PROVE  HistInv'
<1>1. /\ pc = "commit" /\ pc' = "idle" /\ pc # "idle"
      /\ sentences_ht' = sentences_ht \o unmatched_sentences_curr
      /\ revisions' = [revisions EXCEPT ![rev_id] =
                         [id |-> rev_id, text |-> text, paragraphs |-> curr]]
      /\ ordered_revisions' = Append(ordered_revisions, rev_id)
      /\ last_good_rev_id' = rev_id
      /\ UNCHANGED <<words, sentences, paragraphs, rev_id>>
  BY DEF Commit
<1>2. /\ StoredSorted /\ WordsKnown /\ GoneWords
      /\ CurrT \subseteq Tids /\ OldT \subseteq Tids /\ NewP \subseteq Ids(curr)
      /\ \A r \in Stored : r < rev_id /\ r <= rev_id
      /\ Stored \subseteq RevId /\ rev_id \in RevId
      /\ \A r \in Stored : \A w : Present(w, r) => w \in OldT
  BY <1>1, InWork, Before0 DEF HistInv, WorkIs
<1>3. /\ rev_id # 0 /\ rev_id \notin Stored /\ DOMAIN revisions = RevId
      /\ rev_id \in Int /\ Stored' = Stored \cup {rev_id}
  <2>1. rev_id # 0 /\ rev_id \notin Stored /\ DOMAIN revisions = RevId
    BY <1>1 DEF Base, MatchInv, StoredInOrder, TypeOK, StoreOK
  <2>2. Stored' = Stored \cup {rev_id}
    BY <1>1, <1>2, IdsAppend DEF Stored, Base, TypeOK, StoreOK
  <2> QED BY <1>2, <2>1, <2>2, RevIdIs
<1>4. /\ \A r \in Stored : revisions'[r] = revisions[r]
      /\ revisions'[rev_id].id = rev_id /\ revisions'[rev_id].paragraphs = curr
  BY <1>1, <1>2, <1>3
<1>5. StoredSorted'
  <2>1. \A r \in Stored' : r <= rev_id
    BY <1>2, <1>3
  <2>2. \A r \in Stored' : revisions'[r].id = r
    BY <1>2, <1>3, <1>4 DEF StoredSorted
  <2> QED BY <1>1, <1>3, <2>1, <2>2 DEF StoredSorted
<1>6. /\ \A r \in Stored : \A w : Present(w, r)' <=> Present(w, r)
      /\ \A w : Present(w, rev_id)' <=> w \in CurrT
  <2>1. \A p : ParagraphTokens(p)' = ParagraphTokens(p)
    BY <1>1 DEF ParagraphTokens, ParagraphSentences, SentenceTokens
  <2>2. \A r \in Stored : Ids(revisions[r].paragraphs)' = Ids(revisions[r].paragraphs)
    BY <1>4 DEF Ids
  <2>3. Ids(revisions[rev_id].paragraphs)' = Ids(curr)
    BY <1>1, <1>4 DEF Ids
  <2> QED BY <1>1, <2>1, <2>2, <2>3 DEF Present, CurrT, TokensOf
<1>7. Tids' = Tids /\ OldT' \subseteq Tids
  <2>1. OldS' = OldS \cup NewS
    BY <1>1, Kinds, IdsConcat DEF OldS, NewS, Base
  <2>2. \A s \in Sids : SentenceTokens(s)' = SentenceTokens(s)
    BY <1>1 DEF SentenceTokens
  <2>3. \A s \in OldS \cup NewS : s \in Sids /\ SentenceTokens(s) \subseteq Tids
    BY MembersType, Allocated DEF Base
  <2> QED BY <1>1, <2>1, <2>2, <2>3 DEF Tids, OldT
<1>8. Tids \subseteq OldT'
  <2>1. OldS' = OldS \cup NewS
    BY <1>1, Kinds, IdsConcat DEF OldS, NewS, Base
  <2>2. \A s : SentenceTokens(s)' = SentenceTokens(s)
    BY <1>1 DEF SentenceTokens
  <2>3. SentencesOf(Ids(curr)) \subseteq OldS \cup NewS
    BY <1>1, KnownParts DEF Base, MatchInv, ArticleInv, WorkInv, InUse, SentencesOf
  <2>4. CurrT \subseteq OldT'
    BY <2>1, <2>2, <2>3 DEF CurrT, TokensOf, ParagraphTokens, SentencesOf, OldT
  <2>5. OldT \subseteq OldT'
    BY <2>1, <2>2 DEF OldT
  <2> QED BY <1>1, <1>2, <2>4, <2>5 DEF WordsKnown
<1>9. ASSUME NEW w \in OldT PROVE Kept(w)'
  <2>1. /\ w \in Tids /\ Kept(w)
        /\ words[w].inbound \in Seq(RevId) /\ words[w].outbound \in Seq(RevId)
        /\ Ids(words[w].inbound) \subseteq Stored \cup {rev_id}
        /\ Ids(words[w].outbound) \subseteq Stored \cup {rev_id}
        /\ words[w].origin_rev_id \in Stored
    BY <1>1, <1>2, WordIs
       DEF WordsKnown, Kept, Base, NoSpamInHistory, HistoryNames, Recording
  <2>2. /\ Gone(w) <=> w \in PrevT /\ w \notin CurrT
        /\ Came(w) <=> w \in CurrT /\ w \notin PrevT
    BY <1>1, <1>2 DEF GoneWords
  <2>3. last_good_rev_id \in Stored /\ (Present(w, last_good_rev_id) <=> w \in PrevT)
    <3>1. last_good_rev_id \in Stored
      <4>1. Stored # {}
        BY <2>1
      <4>2. last_good_rev_id # 0
        BY <1>2, <4>1 DEF StoredSorted
      <4>3. last_good_rev_id \in Stored \cup {0}
        BY DEF Base, MatchInv, StoredInOrder
      <4> QED BY <4>2, <4>3
    <3> QED BY <3>1 DEF Present, PrevT, PrevP, TokensOf, revision_prev
  <2>4. Balanced(w)'
    <3>1. ASSUME NEW r \in Stored
          PROVE  Ins(w, r)' - Outs(w, r)' = IF Present(w, r)' THEN 1 ELSE 0
      <4>1. Ins(w, r)' = Ins(w, r) /\ Outs(w, r)' = Outs(w, r)
        BY <1>1 DEF Ins, Outs
      <4> QED BY <1>6, <2>1, <4>1 DEF Kept, Balanced
    <3>2. Ins(w, rev_id)' - Outs(w, rev_id)' = IF Present(w, rev_id)' THEN 1 ELSE 0
      <4>1. PICK in : in = Cardinality({ n \in DOMAIN words[w].inbound :
                                            words[w].inbound[n] <= last_good_rev_id })
        OBVIOUS
      <4>2. PICK out : out = Cardinality({ n \in DOMAIN words[w].outbound :
                                             words[w].outbound[n] <= last_good_rev_id })
        OBVIOUS
      <4>3. /\ in \in Nat
            /\ Cardinality({ n \in DOMAIN words[w].inbound : words[w].inbound[n] <= rev_id })
                 = in + (IF Came(w) THEN 1 ELSE 0)
        BY <1>1, <1>2, <2>1, <2>3, <4>1, CountAll DEF Kept, Came
      <4>4. /\ out \in Nat
            /\ Cardinality({ n \in DOMAIN words[w].outbound : words[w].outbound[n] <= rev_id })
                 = out + (IF Gone(w) THEN 1 ELSE 0)
        BY <1>1, <1>2, <2>1, <2>3, <4>2, CountAll DEF Kept, Gone
      <4>5. words[w].origin_rev_id <= last_good_rev_id /\ words[w].origin_rev_id <= rev_id
        BY <1>2, <2>1 DEF StoredSorted
      <4>6. Ins(w, last_good_rev_id) = in + 1 /\ Outs(w, last_good_rev_id) = out
        BY <4>1, <4>2, <4>5 DEF Ins, Outs
      <4>7. (in + 1) - out = IF w \in PrevT THEN 1 ELSE 0
        BY <2>1, <2>3, <4>6 DEF Kept, Balanced
      <4>8. /\ Ins(w, rev_id)' = (in + (IF Came(w) THEN 1 ELSE 0)) + 1
            /\ Outs(w, rev_id)' = out + (IF Gone(w) THEN 1 ELSE 0)
        BY <1>1, <4>3, <4>4, <4>5 DEF Ins, Outs
      <4>9. PICK came \in {0, 1} : came = IF Came(w) THEN 1 ELSE 0
        OBVIOUS
      <4>10. PICK gone \in {0, 1} : gone = IF Gone(w) THEN 1 ELSE 0
        OBVIOUS
      <4>11. Ins(w, rev_id)' - Outs(w, rev_id)' = ((in + 1) - out) + (came - gone)
        <5>1. Ins(w, rev_id)' = (in + came) + 1 /\ Outs(w, rev_id)' = out + gone
          BY <4>8, <4>9, <4>10
        <5>2. ((in + came) + 1) - (out + gone) = ((in + 1) - out) + (came - gone)
          <6>1. in \in Int /\ out \in Int /\ came \in Int /\ gone \in Int
            BY <4>3, <4>4
          <6> QED BY ONLY <6>1
        <5> QED BY <5>1, <5>2
      <4>12. Present(w, rev_id)' <=> w \in CurrT
        BY <1>6
      <4>13. came - gone = IF w \in PrevT THEN (IF w \in CurrT THEN 0 ELSE 0 - 1)
                           ELSE (IF w \in CurrT THEN 1 ELSE 0)
        BY <2>2, <4>9, <4>10
      <4> QED BY <4>7, <4>11, <4>12, <4>13
    <3> QED BY <1>1, <1>3, <3>1, <3>2 DEF Balanced
  <2>5. LastSeen(w)'
    <3>1. CASE w \in CurrT
      <4>1. words[w].last_rev_id = rev_id
        BY <1>1, <2>1, <3>1 DEF Kept, LastSeen
      <4>2. \A r \in Stored' : r <= rev_id
        BY <1>2, <1>3
      <4> QED BY <1>1, <1>3, <1>6, <3>1, <4>1, <4>2 DEF LastSeen
    <3>2. CASE w \notin CurrT
      <4>1. /\ words[w].last_rev_id \in Stored /\ Present(w, words[w].last_rev_id)
            /\ \A r \in Stored : Present(w, r) => r <= words[w].last_rev_id
        BY <2>1, <3>2 DEF Kept, LastSeen
      <4> QED BY <1>1, <1>3, <1>6, <3>2, <4>1 DEF LastSeen
    <3> QED BY <3>1, <3>2
  <2>6. /\ OnceEach(words[w].inbound)' /\ OnceEach(words[w].outbound)'
        /\ words'[w].origin_rev_id \in Stored'
    BY <1>1, <1>3, <2>1 DEF OnceEach, Kept
  <2> QED BY <2>4, <2>5, <2>6 DEF Kept
<1>10. ASSUME NEW w \in Tids \ OldT PROVE Kept(w)'
  <2>1. /\ w \in CurrT /\ words[w].origin_rev_id = rev_id /\ words[w].last_rev_id = rev_id
        /\ words[w].inbound = << >> /\ words[w].outbound = << >>
    BY <1>2 DEF WordsKnown, Fresh
  <2>2. \A r : { n \in DOMAIN << >> : << >>[n] <= r } = {}
    BY EmptyIds
  <2>3. \A r : /\ Ins(w, r)' = 0 + (IF rev_id <= r THEN 1 ELSE 0)
               /\ Outs(w, r)' = 0
    BY <1>1, <2>1, <2>2, FS_EmptySet DEF Ins, Outs
  <2>4. Balanced(w)'
    <3>1. \A r \in Stored : ~ (rev_id <= r) /\ ~ Present(w, r)'
      <4>1. \A r \in Stored : ~ Present(w, r)'
        BY <1>2, <1>6
      <4>2. \A r \in Stored : r \in Int /\ r < rev_id
        BY <1>2, RevIdIs
      <4> QED BY <1>3, <4>1, <4>2
    <3>2. rev_id <= rev_id /\ Present(w, rev_id)'
      BY <1>3, <1>6, <2>1
    <3> QED BY <1>1, <1>3, <2>3, <3>1, <3>2 DEF Balanced
  <2>5. LastSeen(w)'
    <3>1. \A r \in Stored' : r <= rev_id
      BY <1>2, <1>3
    <3> QED BY <1>1, <1>3, <1>6, <2>1, <3>1 DEF LastSeen
  <2>6. OnceEach(words[w].inbound)' /\ OnceEach(words[w].outbound)'
    BY <1>1, <2>1, EmptyIds DEF OnceEach
  <2> QED BY <1>1, <1>3, <2>1, <2>4, <2>5, <2>6 DEF Kept
<1>11. WordsKnown'
  BY <1>7, <1>8, <1>9, <1>10 DEF WordsKnown
<1> QED BY <1>1, <1>5, <1>11 DEF HistInv
-----------------------------------------------------------------------------
LEMMA HistInit == Init => HistInv
<1> SUFFICES ASSUME Init PROVE HistInv
  OBVIOUS
<1>1. Stored = {} /\ OldT = {} /\ Tids = {} /\ pc = "idle" /\ last_good_rev_id = 0
  BY EmptyIds DEF Init, Stored, OldT, OldS, Tids
<1>2. StoredSorted /\ WordsKnown
  BY <1>1 DEF StoredSorted, WordsKnown
<1> QED BY <1>1, <1>2 DEF HistInv

LEMMA HistStutter ==
  ASSUME HistInv, UNCHANGED vars
  PROVE  HistInv'
<1>1. UNCHANGED <<words, sentences, paragraphs, paragraphs_ht, sentences_ht, revisions,
                  ordered_revisions, last_good_rev_id, pc, rev_id, curr, matchedP, matchedS, matchedT, paraLists,
                  sentLists, todo, pos>>
  BY DEF vars
<1>2. /\ \A s : SentenceTokens(s)' = SentenceTokens(s)
      /\ \A p : ParagraphSentences(p)' = ParagraphSentences(p)
      /\ \A p : ParagraphTokens(p)' = ParagraphTokens(p)
      /\ Stored' = Stored /\ Tids' = Tids
  <2>1. \A s : SentenceTokens(s)' = SentenceTokens(s)
    BY <1>1 DEF SentenceTokens
  <2>2. \A p : ParagraphSentences(p)' = ParagraphSentences(p)
    BY <1>1 DEF ParagraphSentences
  <2>3. \A p : ParagraphTokens(p)' = ParagraphTokens(p)
    BY <2>1, <2>2 DEF ParagraphTokens
  <2>4. Stored' = Stored /\ Tids' = Tids
    BY <1>1 DEF Stored, Tids, Ids
  <2> QED BY <2>1, <2>2, <2>3, <2>4
<1>3. /\ OldS' = OldS /\ PrevP' = PrevP /\ LeftP' = LeftP /\ LeftS' = LeftS
      /\ Ids(curr)' = Ids(curr) /\ Ids(todo)' = Ids(todo)
  BY <1>1 DEF OldS, PrevP, LeftP, LeftS, Ids, revision_prev
<1>4. /\ OldT' = OldT /\ PrevT' = PrevT /\ CurrT' = CurrT /\ InboundTokens' = InboundTokens
      /\ SentencesOf(LeftP)' = SentencesOf(LeftP)
  BY <1>1, <1>2, <1>3 DEF OldT, PrevT, CurrT, TokensOf, SentencesOf, InboundTokens
<1>5. \A w : /\ Gone(w)' = Gone(w) /\ Came(w)' = Came(w) /\ Fresh(w)' = Fresh(w)
             /\ GoneInPass(w)' = GoneInPass(w)
  BY <1>1, <1>2, <1>3
     DEF Gone, Came, EndsWith, Fresh, GoneInPass, CurrentParagraph
<1>6. \A w : Kept(w)' = Kept(w)
  <2>1. \A w : \A r : Present(w, r)' = Present(w, r)
    BY <1>1, <1>2 DEF Present, Ids
  <2>2. \A w : \A r : Ins(w, r)' = Ins(w, r) /\ Outs(w, r)' = Outs(w, r)
    BY <1>1 DEF Ins, Outs
  <2>3. \A w : Balanced(w)' = Balanced(w) /\ LastSeen(w)' = LastSeen(w)
    BY <1>1, <1>2, <1>4, <2>1, <2>2 DEF Balanced, LastSeen
  <2>4. \A w : /\ OnceEach(words[w].inbound)' = OnceEach(words[w].inbound)
               /\ OnceEach(words[w].outbound)' = OnceEach(words[w].outbound)
    BY <1>1, <1>2 DEF OnceEach
  <2> QED BY <1>1, <1>2, <2>3, <2>4 DEF Kept
<1>7. StoredSorted' /\ WordsKnown'
  BY <1>1, <1>2, <1>4, <1>5, <1>6 DEF HistInv, StoredSorted, WordsKnown, Recording
<1>8. ASSUME pc # "idle"
      PROVE  MatchedInUse' /\ LeftOver' /\ AllListed' /\ GoneWords'
  <2>1. MatchedInUse'
    BY <1>1, <1>2, <1>3, <1>4, <1>5, <1>8 DEF HistInv, MatchedInUse, Recording
  <2>2. LeftOver'
    BY <1>1, <1>3, <1>4, <1>8 DEF HistInv, LeftOver, IsInjective
  <2>3. AllListed'
    BY <1>1, <1>2, <1>3, <1>4, <1>8 DEF HistInv, AllListed, Skipped, Recording, IsInjective, Ids
  <2>4. GoneWords'
    BY <1>1, <1>2, <1>3, <1>4, <1>5, <1>8 DEF HistInv, GoneWords, Recording, IsInjective
  <2> QED BY <2>1, <2>2, <2>3, <2>4
<1> QED BY <1>1, <1>7, <1>8 DEF HistInv

LEMMA HistStep == ASSUME Base, Base', HistInv, [Next]_vars PROVE HistInv'
<1>1. CASE UNCHANGED vars
  BY <1>1, HistStutter
<1>2. ASSUME NEW t \in Text, HashMatch(t) PROVE HistInv'
  BY <1>2, ArrivalHist
<1>3. ASSUME NEW t \in Text, NEW move \in BOOLEAN, LengthShrink(t, move) \/ BeginCascade(t, move)
      PROVE  HistInv'
  BY <1>3, ArrivalHist
<1>4. CASE Step
  BY <1>4, ReuseParagraphHist, AllocParagraphHist, ParagraphLoopsHist, ReuseSentenceHist,
     AllocSentenceHist, SentenceLoopsHist, TailSentenceHist, GateHist, KeepEntryHist,
     DeleteEntryHist, AllocWordHist, WordLoopsHist, OutboundLoopsHist, OutboundSentenceHist,
     OutboundParagraphHist, RecordInboundHist, CommitHist
  DEF Step
<1> QED BY <1>1, <1>2, <1>3, <1>4 DEF Next

(* Between calls, the origin, the inbound and the outbound list of a token *)
(* tell for each stored revision whether the token is in it, and its       *)
(* last_rev_id is the last one it is in (record_inbound_outbound and the   *)
(* word loop of analyse_words_in_sentences).                               *)
THEOREM HistoryTellsPresence == Spec => []HistoryMatchesPresence
<1>1. Init => HistInv
  BY HistInit
<1>2. Base /\ Base' /\ HistInv /\ [Next]_vars => HistInv'
  BY HistStep
<1>3. Base /\ HistInv => HistoryMatchesPresence
  <2> SUFFICES ASSUME Base, HistInv, pc = "idle", NEW w \in Tids
               PROVE  /\ words[w].last_rev_id \in Stored
                      /\ \A r \in Stored :
                           /\ Ins(w, r) - Outs(w, r) = IF Present(w, r) THEN 1 ELSE 0
                           /\ Present(w, r) => r <= words[w].last_rev_id
                           /\ r = words[w].last_rev_id => Present(w, r)
    BY DEF HistoryMatchesPresence
  <2>1. Kept(w)
    BY DEF HistInv, WordsKnown, Recording
  <2> QED BY <2>1 DEF Kept, Balanced, LastSeen
<1>4. Spec => []Base
  BY TypeCorrect, MatchingCorrect, SpamLeavesNoTrace, PTL DEF Base
<1> QED BY <1>1, <1>2, <1>3, <1>4, PTL DEF Spec
-----------------------------------------------------------------------------
(***************************************************************************)
(* Attribution implements TokenHistory: every step of a call but the one   *)
(* that ends it shows nothing, a call that ends accepts its revision with  *)
(* the tokens and the events it promises, or refuses it and has touched    *)
(* nothing.                                                                *)
(***************************************************************************)
(* The revisions fed before have smaller ids, and the last one stored is   *)
(* the one the call starts from.                                           *)
SpamFed ==
  /\ Ids(spam_ids) \subseteq 1 .. rev_id
  /\ pc # "idle" => rev_id \notin Ids(spam_ids)
LastStored ==
  IF ordered_revisions = << >> THEN last_good_rev_id = 0
  ELSE last_good_rev_id = ordered_revisions[Len(ordered_revisions)]

(* The words of the stored revisions come before those of the call.        *)
WordsDense == \A w \in OldT : 1 .. w \subseteq OldT

(* A text equal to the one before it finds the paragraphs of that one, one *)
(* by one and in their places: nothing else is matched meanwhile.          *)
SameText == last_good_rev_id # 0 /\ text = revision_prev.text
NullEdit ==
  pc # "idle" /\ SameText =>
    /\ \A i \in DOMAIN curr : curr[i] = revision_prev.paragraphs[i]
    /\ pc = "paragraphs" => matchedP = Ids(curr) /\ matchedT = CurrT

RefInv == SpamFed /\ LastStored /\ WordsDense /\ NullEdit
-----------------------------------------------------------------------------

(* Steps that end nothing leave the stored revisions alone, and add to the *)
(* history of their words the revision in progress or nothing.             *)
Adds(w) ==
  /\ words'[w].value = words[w].value
  /\ words'[w].origin_rev_id = words[w].origin_rev_id
  /\ words'[w].inbound \in {words[w].inbound, Append(words[w].inbound, rev_id)}
  /\ words'[w].outbound \in {words[w].outbound, Append(words[w].outbound, rev_id)}
Hidden ==
  /\ KnownAlone /\ last_good_rev_id' = last_good_rev_id
  /\ \A w \in OldT : words'[w] = words[w] \/ (pc # "idle" /\ Adds(w))

LEMMA LoopHidden ==
  ASSUME UNCHANGED <<words, sentences, paragraphs, paragraphs_ht, sentences_ht, revisions,
                     ordered_revisions, last_good_rev_id>>
  PROVE  Hidden
BY DEF Hidden, KnownAlone

LEMMA AllocHidden ==
  ASSUME Base, AllocParagraph
  PROVE  Hidden
<1> DEFINE new == [hash_value |-> NextParagraphHash, sentences |-> << >>]
<1>1. /\ pc = "paragraphs" /\ Len(curr) < Len(split_paragraphs[text])
      /\ paragraphs' = Append(paragraphs, new)
      /\ UNCHANGED <<words, sentences, paragraphs_ht, sentences_ht, revisions,
                     ordered_revisions, last_good_rev_id>>
  BY DEF AllocParagraph
<1>2. new \in Paragraph
  BY <1>1, NextParagraphHashType, EmptySeq DEF Paragraph, Base
<1> HIDE DEF new
<1>3. \A q \in Pids : paragraphs'[q] = paragraphs[q]
  BY <1>1, <1>2, AppendProperties, LenProperties DEF Base, TypeOK, ArenasOK, Pids
<1> QED BY <1>1, <1>3, Allocated DEF Hidden, KnownAlone, Base

LEMMA SentenceHidden ==
  ASSUME Base, ReuseSentence \/ AllocSentence
  PROVE  Hidden
<1>1. /\ pc = "sentences" /\ todo # << >> /\ MoreSentences
      /\ UNCHANGED <<words, paragraphs_ht, sentences_ht, revisions, ordered_revisions,
                     last_good_rev_id, curr>>
  BY DEF ReuseSentence, AllocSentence
<1>2. CASE ReuseSentence
  <2>1. PICK c \in Places(SentenceRows) : Attach(At(SentenceRows, c))
    BY <1>2 DEF ReuseSentence
  <2>2. At(SentenceRows, c) \in OldS
    BY <1>1, KnownSentences DEF Base, MatchInv, ArticleInv, LoopInv
  <2>3. At(SentenceRows, c) \in Nat /\ sentences' = sentences
    BY <1>2, <2>2, Allocated DEF Base, Sids, ReuseSentence
  <2>4. KnownAlone
    BY <1>1, <2>1, <2>3, AttachIs
  <2> QED BY <1>1, <2>4 DEF Hidden
<1>3. CASE AllocSentence
  <2> DEFINE new == [hash_value |-> NextSentenceHash, words |-> << >>]
  <2>1. sentences' = Append(sentences, new) /\ Attach(Len(sentences) + 1)
    BY <1>3 DEF AllocSentence
  <2>2. new \in Sentence
    BY <1>1, NextSentenceHashType, EmptySeq DEF Sentence, Base
  <2> HIDE DEF new
  <2>3. /\ \A q \in Sids : sentences'[q] = sentences[q]
        /\ Len(sentences) + 1 \in Nat
    BY <2>1, <2>2, AppendProperties, LenProperties DEF Base, TypeOK, ArenasOK, Sids
  <2>4. KnownAlone
    BY <1>1, <2>1, <2>3, AttachIs
  <2> QED BY <1>1, <2>4 DEF Hidden
<1> QED BY <1>2, <1>3

LEMMA WordHidden ==
  ASSUME Base, FallbackWord \/ \E i \in DOMAIN diff : KeepEntry(i) \/ InsertEntry(i)
  PROVE  Hidden
<1>1. /\ InWordLoop /\ pc = "words"
      /\ UNCHANGED <<paragraphs, paragraphs_ht, sentences_ht, revisions, ordered_revisions,
                     last_good_rev_id, curr>>
  BY DEF FallbackWord, KeepEntry, InsertEntry, InWordLoop
<1>2. CASE \E i \in DOMAIN diff : KeepEntry(i)
  <2>1. PICK c \in Places(PrevRows) :
          find_unmatched_prev(NextWord, c) /\ PushWord(At(PrevRows, c))
    BY <1>2 DEF KeepEntry
  <2>2. At(PrevRows, c) \in Nat /\ words' = words
    <3>1. PICK w : w = At(PrevRows, c)
      OBVIOUS
    <3>2. w \in Nat
      BY <1>1, <2>1, <3>1, FoundIs
    <3> QED BY <1>2, <3>1, <3>2 DEF KeepEntry
  <2>3. KnownAlone
    BY <1>1, <2>1, <2>2, PushIs
  <2> QED BY <1>1, <2>2, <2>3 DEF Hidden
<1>3. CASE FallbackWord \/ \E i \in DOMAIN diff : InsertEntry(i)
  <2> DEFINE new == [value |-> NextWord, origin_rev_id |-> rev_id,
                     last_rev_id |-> rev_id, inbound |-> << >>, outbound |-> << >>]
  <2>1. words' = Append(words, new) /\ PushWord(Len(words) + 1)
    BY <1>3 DEF FallbackWord, InsertEntry, AllocWord
  <2>2. new \in Word
    BY <1>1, NextWordType, EmptySeq DEF Word, Base, TypeOK, InputOK
  <2> HIDE DEF new
  <2>3. /\ \A v \in Tids : words'[v] = words[v]
        /\ Len(words) + 1 \in Nat
    BY <2>1, <2>2, AppendProperties, LenProperties DEF Base, TypeOK, ArenasOK, Tids
  <2>4. KnownAlone
    BY <1>1, <2>1, <2>3, PushIs
  <2> QED BY <1>1, <2>3, <2>4, Before0 DEF Hidden
<1> QED BY <1>2, <1>3

LEMMA DeletedHidden ==
  ASSUME Base, NEW i \in DOMAIN diff, DeleteEntry(i)
  PROVE  Hidden
<1>1. /\ pc = "words" /\ pc # "idle"
      /\ UNCHANGED <<sentences, paragraphs, paragraphs_ht, sentences_ht, revisions,
                     ordered_revisions, last_good_rev_id>>
  BY DEF DeleteEntry, InWordLoop
<1>2. PICK c \in Places(PrevRows) :
        /\ find_unmatched_prev(NextWord, c)
        /\ words' = [words EXCEPT ![At(PrevRows, c)].outbound = Append(@, rev_id)]
  BY DEF DeleteEntry
<1>3. PICK w : w = At(PrevRows, c)
  OBVIOUS
<1>4. w \in Tids
  BY <1>1, <1>2, <1>3, FoundIs
<1>5. /\ \A v \in Tids : v # w => words'[v] = words[v]
      /\ words'[w].value = words[w].value /\ Adds(w)
  BY <1>2, <1>3, <1>4, DeletedIs DEF Base, Adds
<1> QED BY <1>1, <1>5, Before0 DEF Hidden, KnownAlone

LEMMA PushedHidden ==
  ASSUME Base, HistInv, OutboundSentence \/ OutboundParagraph
  PROVE  Hidden
<1>1. /\ pc \in {"outbound", "outbound_paragraphs"} /\ pc # "idle" /\ todo # << >>
      /\ UNCHANGED <<sentences, paragraphs, paragraphs_ht, sentences_ht, revisions,
                     ordered_revisions, last_good_rev_id>>
  BY DEF OutboundSentence, OutboundParagraph
<1>2. /\ LeftP \subseteq PrevP /\ LeftS \subseteq SentencesOf(LeftP) /\ LeftP \subseteq OldP
      /\ SentencesOf(LeftP) \subseteq OldS /\ GoneWords
  <2>1. LeftP \subseteq PrevP /\ LeftS \subseteq SentencesOf(LeftP) /\ GoneWords
    BY <1>1 DEF HistInv, LeftOver
  <2>2. LeftP \subseteq OldP
    BY <2>1, Before0
  <2> QED BY <2>1, <2>2, KnownParts DEF Base, MatchInv, ArticleInv, SentencesOf
<1>3. words' = words \/ \E s \in OldS : PushOutbound(s)
  <2>1. Head(todo) \in Ids(todo)
    BY <1>1, Kinds, IdsTail DEF Base
  <2>2. CASE OutboundSentence
    BY <1>2, <2>1, <2>2 DEF OutboundSentence, GoneWords
  <2>3. CASE OutboundParagraph
    <3>1. Head(todo) \in LeftP
      BY <1>2, <2>1, <2>3 DEF OutboundParagraph, GoneWords
    <3>2. CurrentParagraph.sentences \in Seq(Sids) /\ pos \in Nat \ {0}
      BY <1>2, <3>1, Kinds, Allocated DEF CurrentParagraph, Base, TypeOK, LoopOK
    <3>3. pos <= Len(CurrentParagraph.sentences) =>
            CurrentParagraph.sentences[pos] \in ParagraphSentences(Head(todo))
      <4>1. pos <= Len(CurrentParagraph.sentences) => pos \in DOMAIN CurrentParagraph.sentences
        BY <3>2, LenProperties
      <4> QED BY <4>1 DEF ParagraphSentences, CurrentParagraph
    <3>4. pos <= Len(CurrentParagraph.sentences) => CurrentParagraph.sentences[pos] \in OldS
      BY <1>2, <3>1, <3>3 DEF SentencesOf
    <3> QED BY <2>3, <3>4 DEF OutboundParagraph
  <2> QED BY <2>2, <2>3
<1>4. ASSUME NEW s \in OldS, PushOutbound(s) PROVE Hidden
  <2>1. \A w \in Tids : words'[w].value = words[w].value /\ Adds(w)
    BY <1>4, PushedIs DEF Adds
  <2> QED BY <1>1, <2>1, Before0 DEF Hidden, KnownAlone
<1> QED BY <1>1, <1>3, <1>4, LoopHidden

LEMMA InboundHidden ==
  ASSUME Base, HistInv, RecordInbound
  PROVE  Hidden
<1>1. /\ pc = "outbound_paragraphs" /\ pc # "idle"
      /\ UNCHANGED <<sentences, paragraphs, paragraphs_ht, sentences_ht, revisions,
                     ordered_revisions, last_good_rev_id>>
  BY DEF RecordInbound
<1>2. \A w \in Tids : words'[w].value = words[w].value /\ Adds(w)
  BY InboundIs DEF Base, Adds
<1> QED BY <1>1, <1>2, Before0 DEF Hidden, KnownAlone

LEMMA StepHidden ==
  ASSUME Base, HistInv, [Next]_vars, ~ Commit
  PROVE  Hidden
<1>1. CASE UNCHANGED vars
  BY <1>1, LoopHidden DEF vars
<1>2. ASSUME NEW t \in Text, HashMatch(t) PROVE Hidden
  BY <1>2, LoopHidden DEF HashMatch
<1>3. ASSUME NEW t \in Text, NEW move \in BOOLEAN, LengthShrink(t, move) \/ BeginCascade(t, move)
      PROVE  Hidden
  BY <1>3, LoopHidden DEF LengthShrink, BeginCascade
<1>4. CASE \/ ReuseParagraph \/ EndParagraphs \/ TailParagraph \/ EndParagraphsTail
  BY <1>4, LoopHidden DEF ReuseParagraph, EndParagraphs, TailParagraph, EndParagraphsTail
<1>5. CASE \/ NextParagraph \/ EndSentences \/ TailSentence \/ NextTailParagraph
           \/ EndSentencesTail
  BY <1>5, LoopHidden DEF NextParagraph, EndSentences, TailSentence, NextTailParagraph,
     EndSentencesTail
<1>6. CASE \/ DenseVandalism \/ InsertionOnly \/ StartDiff \/ NextSentence \/ EndWords
           \/ BeginRecord \/ EndOutboundSentences
  BY <1>6, LoopHidden DEF DenseVandalism, InsertionOnly, StartDiff, NextSentence, EndWords,
     BeginRecord, EndOutboundSentences
<1>7. CASE \/ AllocParagraph \/ ReuseSentence \/ AllocSentence \/ FallbackWord
           \/ \E i \in DOMAIN diff : KeepEntry(i) \/ DeleteEntry(i) \/ InsertEntry(i)
           \/ OutboundSentence \/ OutboundParagraph \/ RecordInbound
  BY <1>7, AllocHidden, SentenceHidden, WordHidden, DeletedHidden, PushedHidden, InboundHidden
<1> QED BY <1>1, <1>2, <1>3, <1>4, <1>5, <1>6, <1>7 DEF Next, Step
-----------------------------------------------------------------------------
(* A revision that is refused is added to spam_ids, and nothing else shows. *)
Refused(r) == spam_ids' = Append(spam_ids, r) /\ pc' = "idle" /\ rev_id' = r

(* What the steps do to the list of refused revisions and to the input. *)
LEMMA StepKinds ==
  ASSUME [Next]_vars
  PROVE  \/ pc = "idle" /\ rev_id < MaxRevisions /\ Refused(rev_id + 1) /\ ~ Commit
         \/ /\ pc = "idle" /\ rev_id < MaxRevisions /\ rev_id' = rev_id + 1
            /\ pc' = "paragraphs" /\ curr' = << >> /\ matchedP' = {} /\ matchedT' = {}
            /\ spam_ids' = spam_ids /\ ~ Commit
         \/ pc = "gate" /\ Refused(rev_id) /\ rev_id' = rev_id /\ ~ Commit
         \/ pc = "commit" /\ Commit /\ pc' = "idle" /\ UNCHANGED <<spam_ids, rev_id>>
         \/ (ReuseParagraph \/ AllocParagraph) /\ UNCHANGED <<spam_ids, rev_id>> /\ ~ Commit
         \/ /\ UNCHANGED <<spam_ids, rev_id, text, curr>> /\ (pc' = "idle" <=> pc = "idle")
            /\ pc' = "paragraphs" => pc = "paragraphs" /\ UNCHANGED <<matchedP, matchedT>>
            /\ ~ Commit
<1>1. CASE UNCHANGED vars
  BY <1>1 DEF vars, Commit
<1>2. ASSUME NEW t \in Text, HashMatch(t)
      PROVE  pc = "idle" /\ rev_id < MaxRevisions /\ Refused(rev_id + 1) /\ ~ Commit
  BY <1>2 DEF HashMatch, Arrives, Refused, Commit
<1>3. ASSUME NEW t \in Text, NEW move \in BOOLEAN, LengthShrink(t, move)
      PROVE  pc = "idle" /\ rev_id < MaxRevisions /\ Refused(rev_id + 1) /\ ~ Commit
  BY <1>3 DEF LengthShrink, Arrives, Refused, Commit
<1>4. ASSUME NEW t \in Text, NEW move \in BOOLEAN, BeginCascade(t, move)
      PROVE  /\ pc = "idle" /\ rev_id < MaxRevisions /\ rev_id' = rev_id + 1
             /\ pc' = "paragraphs" /\ curr' = << >> /\ matchedP' = {} /\ matchedT' = {}
             /\ spam_ids' = spam_ids /\ ~ Commit
  BY <1>4 DEF BeginCascade, Arrives, Commit
<1>5. CASE DenseVandalism
  BY <1>5 DEF DenseVandalism, Refused, Commit
<1>6. CASE Commit
  BY <1>6 DEF Commit
<1>7. CASE ReuseParagraph \/ AllocParagraph
  BY <1>7 DEF ReuseParagraph, AllocParagraph, Commit
<1> DEFINE quiet == /\ UNCHANGED <<spam_ids, rev_id, text, curr>> /\ (pc' = "idle" <=> pc = "idle")
                    /\ pc' = "paragraphs" => pc = "paragraphs" /\ UNCHANGED <<matchedP, matchedT>>
                    /\ ~ Commit
<1>8. CASE \/ EndParagraphs \/ TailParagraph \/ EndParagraphsTail \/ ReuseSentence
           \/ AllocSentence \/ NextParagraph \/ EndSentences \/ TailSentence
           \/ NextTailParagraph \/ EndSentencesTail
  <2>1. quiet
    BY <1>8 DEF EndParagraphs, TailParagraph, EndParagraphsTail, ReuseSentence, AllocSentence,
       NextParagraph, EndSentences, TailSentence, NextTailParagraph, EndSentencesTail, Commit
  <2> QED BY <2>1
<1>9. CASE \/ InsertionOnly \/ StartDiff \/ FallbackWord \/ NextSentence \/ EndWords
           \/ \E i \in DOMAIN diff : KeepEntry(i) \/ DeleteEntry(i) \/ InsertEntry(i)
  <2>1. quiet
    BY <1>9 DEF InsertionOnly, StartDiff, FallbackWord, NextSentence, EndWords, KeepEntry,
       DeleteEntry, InsertEntry, InWordLoop, Commit
  <2> QED BY <2>1
<1>10. CASE \/ BeginRecord \/ OutboundSentence \/ EndOutboundSentences \/ OutboundParagraph
            \/ RecordInbound
  <2>1. quiet
    BY <1>10 DEF BeginRecord, OutboundSentence, EndOutboundSentences, OutboundParagraph,
       RecordInbound, Commit
  <2> QED BY <2>1
<1> QED BY <1>1, <1>2, <1>3, <1>4, <1>5, <1>6, <1>7, <1>8, <1>9, <1>10 DEF Next, Step
-----------------------------------------------------------------------------
LEMMA SpamFedStep ==
  ASSUME Base, SpamFed, [Next]_vars
  PROVE  SpamFed'
<1>1. /\ spam_ids \in Seq(RevId) /\ rev_id \in Int /\ rev_id >= 0
      /\ Ids(spam_ids) \subseteq 1 .. rev_id
  BY RevIdIs DEF Base, TypeOK, StoreOK, InputOK, SpamFed
<1>2. \A n \in 1 .. rev_id : n \in 1 .. rev_id + 1 /\ n # rev_id + 1
  BY <1>1
<1>3. CASE pc = "idle" /\ rev_id < MaxRevisions /\ Refused(rev_id + 1)
  <2>1. rev_id + 1 \in RevId
    BY <1>1, <1>3, BoundAssumption DEF RevId
  <2>2. Ids(spam_ids') = Ids(spam_ids) \cup {rev_id + 1}
    BY <1>1, <1>3, <2>1, IdsAppend DEF Refused
  <2>3. rev_id + 1 \in 1 .. rev_id + 1
    BY <1>1
  <2> QED BY <1>1, <1>2, <1>3, <2>2, <2>3 DEF SpamFed, Refused, Ids
<1>4. CASE rev_id' = rev_id + 1 /\ spam_ids' = spam_ids
  BY <1>1, <1>2, <1>4 DEF SpamFed, Ids
<1>5. CASE pc = "gate" /\ Refused(rev_id) /\ rev_id' = rev_id
  <2>1. Ids(spam_ids') = Ids(spam_ids) \cup {rev_id}
    BY <1>1, <1>5, IdsAppend DEF Refused, Base, TypeOK, InputOK
  <2>2. rev_id \in 1 .. rev_id
    <3>1. rev_id \in 1 .. MaxRevisions
      BY <1>5 DEF Base, MatchInv, StoredInOrder
    <3> QED BY <1>1, <3>1
  <2> QED BY <1>1, <1>5, <2>1, <2>2 DEF SpamFed, Refused, Ids
<1>6. CASE UNCHANGED <<spam_ids, rev_id>> /\ (pc' # "idle" => pc # "idle")
  BY <1>6 DEF SpamFed, Ids
<1> QED BY StepKinds, <1>3, <1>4, <1>5, <1>6 DEF ReuseParagraph, AllocParagraph

LEMMA LastStoredStep ==
  ASSUME Base, HistInv, LastStored, [Next]_vars
  PROVE  LastStored'
<1>1. CASE ~ Commit
  BY <1>1, StepHidden DEF Hidden, KnownAlone, LastStored
<1>2. CASE Commit
  <2>1. ordered_revisions' = Append(ordered_revisions, rev_id) /\ last_good_rev_id' = rev_id
    BY <1>2 DEF Commit
  <2>2. ordered_revisions \in Seq(RevId) /\ rev_id \in RevId
    BY DEF Base, TypeOK, StoreOK, InputOK
  <2>3. EndsWith(ordered_revisions', rev_id)
    BY <2>1, <2>2, AppendEnds
  <2> QED BY <2>1, <2>3 DEF LastStored, EndsWith
<1> QED BY <1>1, <1>2

KnownAllocated == OldT \subseteq Tids
LEMMA KnownWordsNext == (Base => KnownAllocated)'
<1>1. Base => KnownAllocated
  BY Before0 DEF KnownAllocated
<1> QED BY <1>1, PTL

LEMMA WordsDenseStep ==
  ASSUME Base, Base', HistInv, HistInv', WordsDense, [Next]_vars
  PROVE  WordsDense'
<1>1. CASE ~ Commit
  <2>1. OldT' = OldT
    BY <1>1, StepHidden, KnownHistory DEF Hidden, HistInv
  <2> QED BY <2>1 DEF WordsDense
<1>2. CASE Commit
  <2>1. pc' = "idle"
    BY <1>2 DEF Commit
  <2>2. Tids' \subseteq OldT'
    BY <2>1 DEF HistInv, WordsKnown, Recording
  <2>3. OldT' \subseteq Tids'
    BY KnownWordsNext DEF KnownAllocated
  <2>4. \A w \in Tids' : 1 .. w \subseteq Tids'
    <3>1. Len(words') \in Nat
      BY LenProperties DEF Base, TypeOK, ArenasOK
    <3> QED BY <3>1 DEF Tids
  <2> QED BY <2>2, <2>3, <2>4 DEF WordsDense
<1> QED BY <1>1, <1>2

(* The paragraphs of the revision before, when its text comes again. *)
LEMMA SameTextIs ==
  ASSUME Base, pc # "idle", SameText, NullEdit, Len(curr) < Len(split_paragraphs[text]),
         pc = "paragraphs", NEW n, n = Len(curr) + 1,
         NEW p, p = revision_prev.paragraphs[n]
  PROVE  /\ n \in DOMAIN revision_prev.paragraphs /\ p \in FreeParagraphs(NextParagraphHash)
         /\ \A i \in DOMAIN revision_prev.paragraphs :
              i < n => i \in DOMAIN curr /\ revision_prev.paragraphs[i] = curr[i]
<1> DEFINE ps == revision_prev.paragraphs
<1>1. /\ last_good_rev_id \in Stored /\ text \in Text /\ ps \in Seq(Pids)
      /\ Len(ps) = Len(split_paragraphs[text])
      /\ \A i \in DOMAIN ps : paragraphs[ps[i]].hash_value = split_paragraphs[text][i]
      /\ IsInjective(ps)
  <2>1. last_good_rev_id \in Stored
    BY DEF Base, MatchInv, StoredInOrder, SameText
  <2>2. ps \in Seq(Pids) /\ text \in Text
    BY DEF Base, TypeOK, StoreOK, InputOK, revision_prev
  <2> QED BY <2>1, <2>2
        DEF Base, MatchInv, ArticleInv, StoredSpelled, StoredDistinct, TextPart, SameText,
            revision_prev
<1>2. /\ \A i \in DOMAIN curr : curr[i] = ps[i]
      /\ matchedP = Ids(curr) /\ matchedT = CurrT
  BY DEF NullEdit
<1>3. curr \in Seq(Pids) /\ DOMAIN curr = 1 .. Len(curr) /\ Len(curr) \in Nat
  BY Kinds, LenProperties DEF Base
<1>4. DOMAIN ps = 1 .. Len(ps) /\ Len(ps) \in Nat /\ \A i \in 1 .. Len(ps) : ps[i] \in Pids
  BY <1>1, LenProperties
<1> HIDE DEF ps
<1>5. n \in DOMAIN ps /\ \A i \in DOMAIN ps : i < n => i \in DOMAIN curr /\ ps[i] = curr[i]
  <2>1. n \in 1 .. Len(ps)
    BY <1>1, <1>3, <1>4
  <2>2. \A i \in 1 .. Len(ps) : i < n => i \in 1 .. Len(curr)
    BY <1>3, <1>4
  <2> QED BY <1>2, <1>3, <1>4, <2>1, <2>2
<1>6. p = ps[n] /\ p \in Pids
  BY <1>4, <1>5 DEF ps
<1>7. ASSUME NEW i \in DOMAIN curr PROVE i \in DOMAIN ps /\ curr[i] = ps[i] /\ curr[i] # p
  <2>1. i \in DOMAIN ps /\ i # n
    BY <1>1, <1>3, <1>4
  <2> QED BY <1>1, <1>2, <1>5, <1>6, <2>1 DEF IsInjective
<1>8. p \notin matchedP
  BY <1>2, <1>7 DEF Ids
<1>9. ParagraphTokens(p) \cap matchedT = {}
  <2>1. ASSUME NEW q \in Ids(curr) PROVE ParagraphTokens(p) \cap ParagraphTokens(q) = {}
    <3>1. q # p /\ q \in PrevP /\ p \in PrevP
      BY <1>5, <1>6, <1>7 DEF Ids, PrevP, ps
    <3> QED BY <3>1, PrevSeparate DEF Separate
  <2> QED BY <1>2, <2>1 DEF CurrT, TokensOf
<1>10. paragraphs[p].hash_value = NextParagraphHash
  BY <1>1, <1>5, <1>6 DEF NextParagraphHash
<1> QED BY <1>5, <1>6, <1>8, <1>9, <1>10 DEF ps, FreeParagraphs, OpenParagraphs, NoneMatched

(* The places of the paragraph rows up to the one that is next. *)
LEMMA PlacesIs ==
  ASSUME NEW n \in DOMAIN revision_prev.paragraphs, revision_prev.paragraphs \in Seq(Pids),
         paragraphs_ht \in Seq(Pids), NEW c \in Places(ParagraphRows)
  PROVE  /\ <<1, n>> \in Places(ParagraphRows)
         /\ At(ParagraphRows, <<1, n>>) = revision_prev.paragraphs[n]
         /\ c = <<1, n>> \/ Before(<<1, n>>, c) \/ Before(c, <<1, n>>)
         /\ Before(c, <<1, n>>) =>
              /\ c[2] \in DOMAIN revision_prev.paragraphs /\ c[2] < n
              /\ At(ParagraphRows, c) = revision_prev.paragraphs[c[2]]
<1> DEFINE rows == ParagraphRows
           ps   == revision_prev.paragraphs
<1>1. DOMAIN rows = {1, 2} /\ rows[1] = ps /\ rows[2] = paragraphs_ht
  BY DEF ParagraphRows
<1>2. DOMAIN ps \subseteq Int /\ DOMAIN paragraphs_ht \subseteq Int
  BY LenProperties
<1>3. PICK i \in DOMAIN rows : c \in {i} \X DOMAIN rows[i]
  BY DEF Places
<1>4. c = <<c[1], c[2]>> /\ c[1] = i /\ c[2] \in DOMAIN rows[i] /\ c[2] \in Int
  BY <1>1, <1>2, <1>3
<1>5. <<1, n>> \in {1} \X DOMAIN rows[1] /\ 1 \in DOMAIN rows
  BY <1>1
<1> HIDE DEF rows, ps
<1>6. <<1, n>> \in Places(rows)
  BY <1>5 DEF Places
<1>7. At(rows, <<1, n>>) = ps[n]
  BY <1>1 DEF At
<1>8. CASE i = 2
  BY <1>4, <1>6, <1>7, <1>8 DEF Before, rows, ps
<1>9. CASE i = 1
  <2>1. c[2] \in DOMAIN ps /\ At(rows, c) = ps[c[2]]
    BY <1>1, <1>4, <1>9 DEF At
  <2>2. n \in Int
    BY <1>2 DEF ps
  <2>3. c[2] = n \/ n < c[2] \/ c[2] < n
    BY <1>4, <2>2
  <2>4. c[2] = n => c = <<1, n>>
    BY <1>4, <1>9
  <2>5. n < c[2] => Before(<<1, n>>, c)
    BY <1>4, <1>9 DEF Before
  <2>6. c[2] < n <=> Before(c, <<1, n>>)
    BY <1>4, <1>9 DEF Before
  <2> QED BY <1>6, <1>7, <2>1, <2>3, <2>4, <2>5, <2>6 DEF rows, ps
<1> QED BY <1>1, <1>8, <1>9

LEMMA NullEditReuse ==
  ASSUME Base, NullEdit, ReuseParagraph
  PROVE  NullEdit'
<1> SUFFICES ASSUME SameText'
             PROVE  /\ \A i \in DOMAIN curr' : curr'[i] = revision_prev.paragraphs[i]
                    /\ matchedP' = Ids(curr)' /\ matchedT' = CurrT'
  BY DEF NullEdit, ReuseParagraph, revision_prev
<1>1. /\ pc = "paragraphs" /\ pc # "idle" /\ Len(curr) < Len(split_paragraphs[text]) /\ SameText
  BY DEF ReuseParagraph, SameText, revision_prev
<1>2. PICK c \in Places(ParagraphRows) :
        LET h == NextParagraphHash
            p == At(ParagraphRows, c)
            passed == SpentParagraphs(h, PlacesBefore(ParagraphRows, c))
        IN  /\ IsFirst(ParagraphRows, c, FreeParagraphs(h))
            /\ matchedP' = matchedP \cup passed \cup {p}
            /\ matchedT' = matchedT \cup ParagraphTokens(p)
            /\ curr' = Append(curr, p)
  BY DEF ReuseParagraph
<1>3. PICK n : n = Len(curr) + 1
  OBVIOUS
<1>4. PICK q : q = revision_prev.paragraphs[n]
  OBVIOUS
<1>5. /\ n \in DOMAIN revision_prev.paragraphs /\ q \in FreeParagraphs(NextParagraphHash)
      /\ \A i \in DOMAIN revision_prev.paragraphs :
           i < n => i \in DOMAIN curr /\ revision_prev.paragraphs[i] = curr[i]
  BY <1>1, <1>3, <1>4, SameTextIs
<1>6. revision_prev.paragraphs \in Seq(Pids) /\ paragraphs_ht \in Seq(Pids)
  BY DEF Base, TypeOK, StoreOK, revision_prev
<1>7. matchedP = Ids(curr) /\ matchedT = CurrT
      /\ \A i \in DOMAIN curr : curr[i] = revision_prev.paragraphs[i]
  BY <1>1 DEF NullEdit
<1>8. ASSUME NEW d \in Places(ParagraphRows), Before(d, <<1, n>>)
      PROVE  At(ParagraphRows, d) \in matchedP
  BY <1>5, <1>6, <1>7, <1>8, PlacesIs DEF Ids
<1>9. c = <<1, n>>
  <2>1. <<1, n>> \in Places(ParagraphRows) /\ At(ParagraphRows, <<1, n>>) = q
    BY <1>4, <1>5, <1>6, PlacesIs
  <2>2. ~ Before(<<1, n>>, c)
    BY <1>2, <1>5, <2>1 DEF IsFirst, PlacesBefore
  <2>3. At(ParagraphRows, c) \notin matchedP
    BY <1>2 DEF IsFirst, FreeParagraphs, OpenParagraphs
  <2> QED BY <1>5, <1>6, <1>8, <2>2, <2>3, PlacesIs
<1>10. SpentParagraphs(NextParagraphHash, PlacesBefore(ParagraphRows, c)) = {}
  BY <1>8, <1>9 DEF SpentParagraphs, PlacesBefore, OpenParagraphs
<1>11. /\ matchedP' = matchedP \cup {q} /\ matchedT' = matchedT \cup ParagraphTokens(q)
       /\ curr' = Append(curr, q) /\ q \in Pids
  <2>1. At(ParagraphRows, c) = q
    BY <1>4, <1>5, <1>6, <1>9, PlacesIs
  <2> QED BY <1>2, <1>5, <1>10, <2>1 DEF FreeParagraphs, OpenParagraphs
<1>12. curr \in Seq(Pids) /\ Ids(curr') = Ids(curr) \cup {q}
  BY <1>11, Kinds, IdsAppend DEF Base
<1>13. \A i \in DOMAIN curr' : curr'[i] = revision_prev.paragraphs[i]
  <2>1. /\ DOMAIN curr' = 1 .. n /\ DOMAIN curr = 1 .. Len(curr) /\ curr'[n] = q
        /\ \A i \in 1 .. Len(curr) : curr'[i] = curr[i]
        /\ Len(curr) \in Nat
    BY <1>3, <1>11, <1>12, AppendProperties, LenProperties
  <2>2. \A i \in 1 .. n : i \in 1 .. Len(curr) \/ i = n
    BY <1>3, <2>1
  <2> QED BY <1>4, <1>7, <2>1, <2>2
<1>14. CurrT' = CurrT \cup ParagraphTokens(q)
  <2>1. \A p : ParagraphTokens(p)' = ParagraphTokens(p)
    BY DEF ReuseParagraph, ParagraphTokens, ParagraphSentences, SentenceTokens
  <2>2. Ids(curr)' = Ids(curr) \cup {q}
    BY <1>12 DEF Ids
  <2> QED BY <2>1, <2>2 DEF CurrT, TokensOf
<1>15. Ids(curr)' = Ids(curr')
  BY DEF Ids
<1> QED BY <1>7, <1>11, <1>12, <1>13, <1>14, <1>15

LEMMA NullEditStep ==
  ASSUME Base, Base', HistInv, NullEdit, [Next]_vars
  PROVE  NullEdit'
<1>1. CASE Commit
  BY <1>1 DEF Commit, NullEdit
<1>2. CASE ReuseParagraph
  BY <1>2, NullEditReuse
<1>3. CASE AllocParagraph
  <2> SUFFICES ASSUME SameText' PROVE FALSE
    BY DEF NullEdit
  <2>1. /\ pc = "paragraphs" /\ pc # "idle" /\ Len(curr) < Len(split_paragraphs[text])
        /\ SameText
        /\ \A c \in Places(ParagraphRows) :
             At(ParagraphRows, c) \notin FreeParagraphs(NextParagraphHash)
    BY <1>3 DEF AllocParagraph, SameText, revision_prev
  <2>2. PICK n : n = Len(curr) + 1
    OBVIOUS
  <2>3. PICK p : p = revision_prev.paragraphs[n]
    OBVIOUS
  <2>4. n \in DOMAIN revision_prev.paragraphs /\ p \in FreeParagraphs(NextParagraphHash)
    BY <2>1, <2>2, <2>3, SameTextIs
  <2>5. revision_prev.paragraphs \in Seq(Pids) /\ paragraphs_ht \in Seq(Pids)
    BY DEF Base, TypeOK, StoreOK, revision_prev
  <2>6. <<1, n>> \in Places(ParagraphRows) /\ At(ParagraphRows, <<1, n>>) = p
    <3>1. <<1, n>> \in {1} \X DOMAIN ParagraphRows[1] /\ 1 \in DOMAIN ParagraphRows
      BY <2>4 DEF ParagraphRows
    <3> QED BY <2>3, <3>1 DEF Places, At, ParagraphRows
  <2> QED BY <2>1, <2>4, <2>6
<1>4. CASE Hidden /\ pc' = "idle"
  BY <1>4 DEF NullEdit
<1>5. CASE Hidden /\ pc' = "paragraphs" /\ curr' = << >> /\ matchedP' = {} /\ matchedT' = {}
  <2>1. Ids(curr)' = {} /\ DOMAIN curr' = {}
    BY <1>5, EmptyIds DEF Ids
  <2>2. CurrT' = {}
    BY <2>1 DEF CurrT, TokensOf
  <2> QED BY <1>5, <2>1, <2>2 DEF NullEdit
<1>6. CASE /\ Hidden /\ UNCHANGED <<text, curr>> /\ (pc' = "idle" <=> pc = "idle")
           /\ pc' = "paragraphs" => pc = "paragraphs" /\ UNCHANGED <<matchedP, matchedT>>
  <2>1. SameText' <=> SameText
    BY <1>6 DEF SameText, Hidden, KnownAlone, revision_prev
  <2>2. revision_prev' = revision_prev
    BY <1>6 DEF Hidden, KnownAlone, revision_prev
  <2>3. ASSUME pc' = "paragraphs", pc = "paragraphs", matchedP = Ids(curr) PROVE CurrT' = CurrT
    <3>1. Ids(curr) \subseteq OldP
      BY <2>3 DEF Base, MatchInv, WorkInv, Apart
    <3>2. \A p \in OldP : ParagraphTokens(p)' = ParagraphTokens(p)
      BY <1>6, KnownHistory DEF Hidden, HistInv
    <3>3. Ids(curr)' = Ids(curr)
      BY <1>6 DEF Ids
    <3> QED BY <3>1, <3>2, <3>3 DEF CurrT, TokensOf
  <2> QED BY <1>6, <2>1, <2>2, <2>3 DEF NullEdit, Ids
<1> QED BY <1>1, <1>2, <1>3, <1>4, <1>5, <1>6, StepKinds, StepHidden DEF Refused

LEMMA RefStep ==
  ASSUME Base, Base', HistInv, HistInv', RefInv, [Next]_vars
  PROVE  RefInv'
BY SpamFedStep, LastStoredStep, WordsDenseStep, NullEditStep DEF RefInv

LEMMA RefInit == Init => RefInv
<1> SUFFICES ASSUME Init PROVE RefInv
  OBVIOUS
<1>1. OldT = {} /\ Ids(spam_ids) = {}
  BY EmptyIds DEF Init, OldT, OldS
<1> QED BY <1>1 DEF Init, RefInv, SpamFed, LastStored, WordsDense, NullEdit
-----------------------------------------------------------------------------
(* What StoredOnly leaves of a list the call has pushed itself on at most  *)
(* once, at the end.                                                       *)
LEMMA StoredOnlyIs ==
  ASSUME NEW o \in Seq(RevId), NEW x \in RevId, x \notin Stored,
         Ids(o) \subseteq Stored \cup {x}, OnceEach(o)
  PROVE  /\ StoredOnly(o) \in Seq(RevId) /\ Ids(StoredOnly(o)) \subseteq Stored
         /\ IF EndsWith(o, x) THEN o = Append(StoredOnly(o), x) ELSE StoredOnly(o) = o
<1>1. /\ DOMAIN o = 1 .. Len(o) /\ Len(o) \in Nat /\ \A n \in 1 .. Len(o) : o[n] \in RevId
      /\ \A n \in 1 .. Len(o) : n < Len(o) => o[n] \in Stored
      /\ \A n \in 1 .. Len(o) : o[n] \in Stored \cup {x}
  BY LenProperties DEF OnceEach, Ids
<1>2. o # << >> => Len(o) \in 1 .. Len(o) /\ Len(o) # 0
  BY <1>1, EmptySeq
<1>3. CASE EndsWith(o, x)
  <2>1. o # << >> /\ o[Len(o)] = x /\ StoredOnly(o) = SubSeq(o, 1, Len(o) - 1)
    BY <1>3 DEF EndsWith, StoredOnly, Front
  <2>2. PICK f : f = SubSeq(o, 1, Len(o) - 1)
    OBVIOUS
  <2>3. /\ f \in Seq(RevId) /\ Len(f) = Len(o) - 1
        /\ \A n \in 1 .. Len(o) - 1 : f[n] = o[n]
    <3>1. 1 \in 1 .. Len(o) + 1 /\ Len(o) - 1 \in 1 - 1 .. Len(o)
      BY <1>1, <1>2, <2>1
    <3>2. PICK m : m = Len(o) - 1
      OBVIOUS
    <3>3. /\ f \in Seq(RevId) /\ Len(f) = (IF 1 <= m THEN m - 1 + 1 ELSE 0)
          /\ \A n \in 1 .. m - 1 + 1 : f[n] = o[1 + n - 1]
      BY <3>1, <3>2, <2>2, SubSeqProperties
    <3>4. Len(f) = m /\ \A n \in 1 .. m : n \in 1 .. m - 1 + 1 /\ 1 + n - 1 = n
      <4>1. m \in Nat
        BY <1>1, <1>2, <2>1, <3>2
      <4>2. Len(f) = (IF 1 <= m THEN m - 1 + 1 ELSE 0)
        BY <3>3
      <4> QED BY ONLY <4>1, <4>2
    <3> QED BY <3>2, <3>3, <3>4
  <2>4. Ids(f) \subseteq Stored
    <3>1. DOMAIN f = 1 .. Len(o) - 1
      BY <2>3, LenProperties
    <3>2. \A n \in 1 .. Len(o) - 1 : n \in 1 .. Len(o) /\ n < Len(o)
      BY <1>1
    <3> QED BY <1>1, <2>3, <3>1, <3>2 DEF Ids
  <2>5. o = Append(f, x)
    <3>1. /\ Append(f, x) \in Seq(RevId) /\ Len(Append(f, x)) = Len(o)
          /\ \A n \in 1 .. Len(o) - 1 : Append(f, x)[n] = o[n]
          /\ Append(f, x)[Len(o)] = x
      <4>1. /\ Append(f, x) \in Seq(RevId) /\ Len(Append(f, x)) = Len(f) + 1
            /\ \A n \in 1 .. Len(f) : Append(f, x)[n] = f[n]
            /\ Append(f, x)[Len(f) + 1] = x
        BY <2>3, AppendProperties
      <4>2. Len(f) + 1 = Len(o)
        BY <1>1, <2>3
      <4> QED BY <2>3, <4>1, <4>2
    <3>2. \A n \in 1 .. Len(o) : n \in 1 .. Len(o) - 1 \/ n = Len(o)
      BY <1>1
    <3>3. \A n \in 1 .. Len(o) : Append(f, x)[n] = o[n]
      BY <2>1, <3>1, <3>2
    <3> QED BY <3>1, <3>3, SeqEqual
  <2> QED BY <1>3, <2>1, <2>2, <2>3, <2>4, <2>5
<1>4. CASE ~ EndsWith(o, x)
  <2>1. \A n \in 1 .. Len(o) : o[n] \in Stored
    <3>1. \A n \in 1 .. Len(o) : n < Len(o) \/ n = Len(o)
      <4>1. Len(o) \in Nat
        BY <1>1
      <4> QED BY ONLY <4>1
    <3>2. ASSUME NEW n \in 1 .. Len(o), n = Len(o) PROVE o[n] # x
      <4>1. o # << >>
        BY <3>2, EmptySeq
      <4> QED BY <1>4, <3>2, <4>1 DEF EndsWith
    <3> QED BY <1>1, <3>1, <3>2
  <2>2. StoredOnly(o) = o
    BY <1>2, <2>1 DEF StoredOnly
  <2>3. Ids(o) \subseteq Stored
    BY <1>1, <2>1 DEF Ids
  <2> QED BY <1>4, <2>2, <2>3
<1> QED BY <1>3, <1>4

(* A list of stored revisions is left as it is. *)
LEMMA StoredOnlyAll ==
  ASSUME NEW o \in Seq(RevId), Ids(o) \subseteq Stored
  PROVE  StoredOnly(o) = o
<1>1. o # << >> => Len(o) \in DOMAIN o
  BY NonEmptySeq, LenProperties
<1> QED BY <1>1 DEF StoredOnly, Ids

(* The words the abstract account knows are those of the stored revisions. *)
KnownOnly == { w \in Tids : words[w].origin_rev_id \in Stored } = OldT
LEMMA KnownIs == Base /\ HistInv => KnownOnly
<1> SUFFICES ASSUME Base, HistInv PROVE KnownOnly
  OBVIOUS
<1>1. /\ \A w \in OldT : words[w].origin_rev_id \in Stored
      /\ \A w \in Tids \ OldT : Recording /\ words[w].origin_rev_id = rev_id
  BY DEF HistInv, WordsKnown, Kept, Fresh
<1>2. Recording => rev_id \notin Stored
  BY DEF Base, MatchInv, StoredInOrder, Recording
<1> QED BY <1>1, <1>2, Before0 DEF KnownOnly

LEMMA KnownIsNext == (Base /\ HistInv => KnownOnly)'
BY KnownIs, PTL

(* The events the abstract account shows of a word. *)
CameOf(w) == <<words[w].origin_rev_id>> \o StoredOnly(words[w].inbound)
WentOf(w) == StoredOnly(words[w].outbound)
Entry(w)  == [value |-> words[w].value, came |-> CameOf(w), went |-> WentOf(w)]

LEMMA AbsToken == ASSUME KnownOnly PROVE abs_token = [w \in OldT |-> Entry(w)]
BY DEF KnownOnly, abs_token, Entry, CameOf, WentOf

LEMMA AbsTokenNext == (KnownOnly => abs_token = [w \in OldT |-> Entry(w)])'
<1>1. KnownOnly => abs_token = [w \in OldT |-> Entry(w)]
  BY AbsToken
<1> QED BY <1>1, PTL

(* The history of a word of the stored revisions. *)
LEMMA EventsOf ==
  ASSUME Base, HistInv, NEW w \in OldT
  PROVE  /\ w \in Tids /\ words[w].inbound \in Seq(RevId) /\ words[w].outbound \in Seq(RevId)
         /\ OnceEach(words[w].inbound) /\ OnceEach(words[w].outbound)
         /\ words[w].origin_rev_id \in Stored
         /\ pc # "idle" => /\ Ids(words[w].inbound) \subseteq Stored \cup {rev_id}
                           /\ Ids(words[w].outbound) \subseteq Stored \cup {rev_id}
                           /\ rev_id \in RevId /\ rev_id \notin Stored
         /\ pc = "idle" => /\ Ids(words[w].inbound) \subseteq Stored
                           /\ Ids(words[w].outbound) \subseteq Stored
<1>1. w \in Tids /\ Kept(w)
  BY Before0 DEF HistInv, WordsKnown
<1>2. HistoryNames(w) \subseteq Stored \cup (IF Recording THEN {rev_id} ELSE {})
  BY <1>1 DEF Base, NoSpamInHistory
<1>3. /\ Ids(words[w].inbound) \subseteq HistoryNames(w)
      /\ Ids(words[w].outbound) \subseteq HistoryNames(w)
  BY DEF HistoryNames
<1>4. pc # "idle" => rev_id \in RevId /\ rev_id \notin Stored
  BY Before0 DEF Base, MatchInv, StoredInOrder
<1>5. pc = "idle" => ~ Recording
  BY DEF Recording
<1> QED BY <1>1, <1>2, <1>3, <1>4, <1>5, WordIs DEF Base, Kept

LEMMA EventsOfNext == 
  ASSUME Base', HistInv', NEW w \in OldT'
  PROVE  /\ OnceEach(words[w].inbound)' /\ OnceEach(words[w].outbound)'
<1>1. Kept(w)'
  BY DEF HistInv, WordsKnown
<1> QED BY <1>1 DEF Kept

(* A list to which the call in progress is added shows as it did. *)
LEMMA AddedHides ==
  ASSUME NEW o \in Seq(RevId), NEW q, Stored' = Stored, rev_id \in RevId, rev_id \notin Stored,
         Ids(o) \subseteq Stored \cup {rev_id}, OnceEach(o),
         q \in {o, Append(o, rev_id)}, \A n \in DOMAIN q : n < Len(q) => q[n] \in Stored
  PROVE  StoredOnly(q)' = StoredOnly(o)
<1>1. StoredOnly(q)' = StoredOnly(q)
  BY DEF StoredOnly
<1>2. CASE q = o
  BY <1>1, <1>2
<1>3. CASE q = Append(o, rev_id)
  <2>1. /\ q \in Seq(RevId) /\ Ids(q) = Ids(o) \cup {rev_id} /\ EndsWith(q, rev_id)
    BY <1>3, IdsAppend, AppendEnds, AppendProperties
  <2>2. q = Append(StoredOnly(q), rev_id) /\ StoredOnly(q) \in Seq(RevId)
        /\ Ids(StoredOnly(q)) \subseteq Stored
    <3>1. OnceEach(q)
      BY DEF OnceEach
    <3>2. Ids(q) \subseteq Stored \cup {rev_id}
      BY <2>1
    <3> QED BY <2>1, <3>1, <3>2, StoredOnlyIs
  <2>3. StoredOnly(q) = o
    <3>1. PICK s : s = StoredOnly(q)
      OBVIOUS
    <3>2. /\ Len(Append(s, rev_id)) = Len(s) + 1 /\ Len(Append(o, rev_id)) = Len(o) + 1
          /\ \A n \in 1 .. Len(s) : Append(s, rev_id)[n] = s[n]
          /\ \A n \in 1 .. Len(o) : Append(o, rev_id)[n] = o[n]
          /\ Len(s) \in Nat /\ Len(o) \in Nat /\ s \in Seq(RevId)
      BY <2>2, <3>1, AppendProperties, LenProperties
    <3>3. Append(s, rev_id) = Append(o, rev_id)
      BY <1>3, <2>2, <3>1
    <3>4. Len(s) = Len(o)
      BY <3>2, <3>3
    <3>5. \A n \in 1 .. Len(s) : s[n] = o[n]
      BY <3>2, <3>3, <3>4
    <3> QED BY <3>1, <3>2, <3>4, <3>5, SeqEqual
  <2>4. StoredOnly(o) = o
    BY <2>2, <2>3, StoredOnlyAll
  <2> QED BY <1>1, <2>3, <2>4
<1> QED BY <1>2, <1>3

(* The tokens of a stored revision stand with its parts. *)
LEMMA TokensStand ==
  ASSUME Base, NEW r \in Stored, revisions'[r] = revisions[r],
         \A p \in OldP : paragraphs'[p] = paragraphs[p],
         \A s \in OldS : sentences'[s] = sentences[s]
  PROVE  iter_rev_tokens(r)' = iter_rev_tokens(r)
<1> DEFINE ps == revisions[r].paragraphs
<1>1. \A i \in DOMAIN ps : ps[i] \in OldP
  BY KnownParts DEF Base, MatchInv, ArticleInv, Ids
<1>2. ASSUME NEW p \in OldP PROVE ParagraphList(p)' = ParagraphList(p)
  <2>1. \A j \in DOMAIN paragraphs[p].sentences : paragraphs[p].sentences[j] \in OldS
    BY KnownParts DEF Base, MatchInv, ArticleInv, ParagraphSentences
  <2>2. paragraphs'[p] = paragraphs[p]
    OBVIOUS
  <2>3. [j \in DOMAIN paragraphs'[p].sentences |-> sentences'[paragraphs'[p].sentences[j]].words] =
        [j \in DOMAIN paragraphs[p].sentences |-> sentences[paragraphs[p].sentences[j]].words]
    BY <2>1, <2>2
  <2> QED BY <2>3 DEF ParagraphList
<1>3. [i \in DOMAIN ps |-> ParagraphList(ps[i])]' = [i \in DOMAIN ps |-> ParagraphList(ps[i])]
  <2>1. ps' = ps
    OBVIOUS
  <2>2. \A i \in DOMAIN ps : ParagraphList(ps[i])' = ParagraphList(ps[i])
    <3> SUFFICES ASSUME NEW i \in DOMAIN ps PROVE ParagraphList(ps[i])' = ParagraphList(ps[i])
      OBVIOUS
    <3>1. PICK p : p = ps[i]
      OBVIOUS
    <3>2. p = ps[i]' /\ p \in OldP
      BY <1>1, <2>1, <3>1
    <3>3. ParagraphList(p)' = ParagraphList(p)
      BY <1>2, <3>2
    <3> QED BY <3>1, <3>2, <3>3, ZenonT(20) DEF ParagraphList
  <2> QED BY <2>1, <2>2
<1> QED BY <1>3, ZenonT(20) DEF iter_rev_tokens, ParagraphList

(* Steps that end nothing show nothing. *)
LEMMA HiddenShowsNothing ==
  ASSUME Base, Base', HistInv, HistInv', Hidden
  PROVE  UNCHANGED <<abs_accepted, abs_token>>
<1>1. /\ Stored' = Stored /\ OldT' = OldT /\ revisions' = revisions
      /\ ordered_revisions' = ordered_revisions
      /\ \A p \in OldP : paragraphs'[p] = paragraphs[p]
      /\ \A s \in OldS : sentences'[s] = sentences[s]
  BY KnownHistory DEF Hidden, HistInv, KnownAlone
<1>2. abs_accepted' = abs_accepted
  <2>1. \A i \in DOMAIN ordered_revisions : ordered_revisions[i] \in Stored
    BY DEF Stored, Ids
  <2>2. \A r \in Stored : iter_rev_tokens(r)' = iter_rev_tokens(r)
    BY <1>1, TokensStand
  <2>3. \A i \in DOMAIN ordered_revisions :
          iter_rev_tokens(ordered_revisions[i])' = iter_rev_tokens(ordered_revisions[i])
    <3> SUFFICES ASSUME NEW i \in DOMAIN ordered_revisions
                 PROVE  iter_rev_tokens(ordered_revisions[i])' = iter_rev_tokens(ordered_revisions[i])
      OBVIOUS
    <3>1. PICK r : r = ordered_revisions[i]
      OBVIOUS
    <3>2. r \in Stored /\ r = ordered_revisions[i]'
      BY <1>1, <2>1, <3>1
    <3>3. iter_rev_tokens(r)' = iter_rev_tokens(r)
      BY <2>2, <3>2
    <3> QED BY <3>1, <3>2, <3>3, ZenonT(20) DEF iter_rev_tokens
  <2> QED BY <1>1, <2>3 DEF abs_accepted
<1>3. ASSUME NEW w \in OldT PROVE Entry(w)' = Entry(w)
  <2>1. /\ words[w].inbound \in Seq(RevId) /\ words[w].outbound \in Seq(RevId)
        /\ OnceEach(words[w].inbound) /\ OnceEach(words[w].outbound)
        /\ pc # "idle" => /\ Ids(words[w].inbound) \subseteq Stored \cup {rev_id}
                          /\ Ids(words[w].outbound) \subseteq Stored \cup {rev_id}
                          /\ rev_id \in RevId /\ rev_id \notin Stored
    BY EventsOf
  <2>2. CASE words'[w] = words[w]
    BY <1>1, <2>2 DEF Entry, CameOf, WentOf, StoredOnly
  <2>3. CASE pc # "idle" /\ Adds(w)
    <3>1. PICK in : in = words'[w].inbound
      OBVIOUS
    <3>2. PICK out : out = words'[w].outbound
      OBVIOUS
    <3>3. /\ \A n \in DOMAIN in : n < Len(in) => in[n] \in Stored
          /\ \A n \in DOMAIN out : n < Len(out) => out[n] \in Stored
      BY <1>1, <3>1, <3>2, EventsOfNext DEF OnceEach
    <3>4. StoredOnly(in)' = StoredOnly(words[w].inbound)
      <4>1. in \in {words[w].inbound, Append(words[w].inbound, rev_id)}
        BY <2>3, <3>1 DEF Adds
      <4> QED BY <1>1, <2>1, <2>3, <3>3, <4>1, AddedHides
    <3>5. StoredOnly(out)' = StoredOnly(words[w].outbound)
      <4>1. out \in {words[w].outbound, Append(words[w].outbound, rev_id)}
        BY <2>3, <3>2 DEF Adds
      <4> QED BY <1>1, <2>1, <2>3, <3>3, <4>1, AddedHides
    <3>6. StoredOnly(words[w].inbound)' = StoredOnly(words[w].inbound)
      BY <3>1, <3>4 DEF StoredOnly
    <3>7. StoredOnly(words[w].outbound)' = StoredOnly(words[w].outbound)
      BY <3>2, <3>5 DEF StoredOnly
    <3> QED BY <2>3, <3>6, <3>7 DEF Entry, CameOf, WentOf, Adds
  <2> QED BY <2>2, <2>3 DEF Hidden
<1>4. abs_token' = abs_token
  <2>1. abs_token = [w \in OldT |-> Entry(w)]
    BY KnownIs, AbsToken
  <2>2. abs_token' = [w \in OldT |-> Entry(w)]'
    BY KnownIsNext, AbsTokenNext
  <2> QED BY <1>1, <1>3, <2>1, <2>2
<1> QED BY <1>2, <1>4

-----------------------------------------------------------------------------
(* Lists that name nothing twice, and nothing in common, are flattened to  *)
(* one that names what they do, once.                                      *)
LEMMA FlattenIds ==
  ASSUME NEW S, NEW a \in Seq(Seq(S)), \A i \in 1 .. Len(a) : IsInjective(a[i]),
         \A i, j \in 1 .. Len(a) : i # j => Ids(a[i]) \cap Ids(a[j]) = {}
  PROVE  /\ Ids(FlattenSeq(a)) = UNION { Ids(a[i]) : i \in 1 .. Len(a) }
         /\ IsInjective(FlattenSeq(a))
<1>1. CASE a = << >>
  <2>1. Len(a) = 0 /\ FlattenSeq(a) = << >>
    BY <1>1, EmptySeq DEF FlattenSeq
  <2> QED BY <2>1, EmptyIds
<1>2. CASE a # << >>
  <2>1. Len(a) \in Nat \ {0} /\ \A i \in 1 .. Len(a) : a[i] \in Seq(S)
    BY <1>2, NonEmptySeq, LenProperties
  <2>2. PICK g : Partial(a, Len(a), g) /\ FlattenSeq(a) = g[Len(a)]
    BY <1>2, FlattenPartial
  <2> DEFINE upto(i) == UNION { Ids(a[j]) : j \in 1 .. i }
             good(i) == g[i] \in Seq(S) /\ Ids(g[i]) = upto(i) /\ IsInjective(g[i])
             bad == { i \in 1 .. Len(a) : ~ good(i) }
  <2>3. bad = {}
    <3> SUFFICES ASSUME bad # {} PROVE FALSE
      OBVIOUS
    <3>1. PICK i \in bad : \A k \in bad : i <= k
      <4>1. bad \subseteq Nat
        OBVIOUS
      <4> HIDE DEF bad
      <4> QED BY <4>1, LeastNat
    <3>2. g[i] = (IF i = 1 THEN a[i] ELSE g[i - 1] \o a[i]) /\ i \in 1 .. Len(a) /\ ~ good(i)
      BY <2>2 DEF Partial
    <3>0. \A k \in 1 .. Len(a) :
            /\ k \in Nat /\ (k # 1 => k - 1 \in 1 .. Len(a))
            /\ \A j \in 1 .. k - 1 : j \in 1 .. Len(a) /\ j # k
      <4>1. PICK n \in Nat : n = Len(a)
        BY ONLY <2>1
      <4> QED BY ONLY <4>1
    <3>3. a[i] \in Seq(S) /\ IsInjective(a[i])
      BY <2>1, <3>2
    <3>4. CASE i = 1
      <4>1. upto(1) = Ids(a[1])
        <5>1. \A j \in 1 .. 1 : j = 1
          OBVIOUS
        <5> QED BY <5>1
      <4> QED BY <3>2, <3>3, <3>4, <4>1
    <3>5. CASE i # 1
      <4>1. i - 1 \in 1 .. Len(a) /\ i - 1 \notin bad
        <5>1. i \in Nat /\ i - 1 \in 1 .. Len(a)
          BY ONLY <3>0, <3>2, <3>5
        <5> HIDE DEF bad
        <5>2. i - 1 \in bad => i <= i - 1
          BY <3>1
        <5> QED BY <5>1, <5>2
      <4>2. good(i - 1) /\ g[i] = g[i - 1] \o a[i]
        BY <3>2, <3>5, <4>1
      <4>3. upto(i) = upto(i - 1) \cup Ids(a[i])
        <5>1. 1 .. i = (1 .. i - 1) \cup {i}
          BY <3>2
        <5> QED BY <5>1
      <4>4. upto(i - 1) \cap Ids(a[i]) = {}
        <5>1. \A j \in 1 .. i - 1 : j \in 1 .. Len(a) /\ j # i
          BY ONLY <3>0, <3>2
        <5> QED BY <3>2, <5>1
      <4> HIDE DEF upto
      <4>5. g[i - 1] \o a[i] \in Seq(S)
        BY <3>3, <4>2, ConcatProperties
      <4>6. Ids(g[i - 1] \o a[i]) = Ids(g[i - 1]) \cup Ids(a[i])
        BY <3>3, <4>2, IdsConcat
      <4>7. IsInjective(g[i - 1] \o a[i])
        BY <3>3, <4>2, <4>4, InjectiveConcat
      <4> QED BY <3>2, <4>2, <4>3, <4>5, <4>6, <4>7
    <3> QED BY <3>4, <3>5
  <2>4. Len(a) \in 1 .. Len(a)
    BY <2>1
  <2>5. good(Len(a))
    BY <2>3, <2>4
  <2> QED BY <2>2, <2>5
<1> QED BY <1>1, <1>2

(* The tokens of a stored paragraph, and of a stored revision. *)
LEMMA ParagraphLists ==
  ASSUME Base, NEW p \in OldP, Separate({p})
  PROVE  Ids(ParagraphList(p)) = ParagraphTokens(p) /\ IsInjective(ParagraphList(p))
<1> DEFINE ss == paragraphs[p].sentences
           a  == [j \in DOMAIN ss |-> sentences[ss[j]].words]
<1>1. ss \in Seq(Sids)
  BY Kinds, Allocated DEF Base
<1>2. /\ IsInjective(ss)
      /\ \A s, t \in ParagraphSentences(p) :
           s # t => SentenceTokens(s) \cap SentenceTokens(t) = {}
      /\ \A s \in ParagraphSentences(p) : IsInjective(sentences[s].words)
  BY DEF Separate
<1>3. \A j \in DOMAIN ss : ss[j] \in ParagraphSentences(p)
  BY DEF ParagraphSentences
<1>4. ParagraphSentences(p) = { ss[j] : j \in DOMAIN ss }
  BY DEF ParagraphSentences
<1> HIDE DEF ss
<1>5. DOMAIN ss = 1 .. Len(ss) /\ Len(ss) \in Nat /\ \A j \in 1 .. Len(ss) : ss[j] \in Sids
  BY <1>1, LenProperties
<1>6. a \in Seq(Seq(Tids)) /\ Len(a) = Len(ss)
  <2>1. \A j \in 1 .. Len(ss) : sentences[ss[j]].words \in Seq(Tids)
    BY <1>5, Kinds DEF Base
  <2>2. a \in [1 .. Len(ss) -> Seq(Tids)]
    BY <1>5, <2>1
  <2> QED BY <1>5, <2>2, FunctionIsSeq
<1>7. \A j \in 1 .. Len(a) : /\ a[j] = sentences[ss[j]].words /\ IsInjective(a[j])
                             /\ Ids(a[j]) = SentenceTokens(ss[j])
  BY <1>2, <1>3, <1>5, <1>6 DEF Ids, SentenceTokens
<1>8. \A i, j \in 1 .. Len(a) : i # j => Ids(a[i]) \cap Ids(a[j]) = {}
  <2> SUFFICES ASSUME NEW i \in 1 .. Len(a), NEW j \in 1 .. Len(a), i # j
               PROVE  Ids(a[i]) \cap Ids(a[j]) = {}
    OBVIOUS
  <2>1. ss[i] # ss[j]
    BY <1>2, <1>5, <1>6 DEF IsInjective
  <2>2. SentenceTokens(ss[i]) \cap SentenceTokens(ss[j]) = {}
    BY <1>2, <1>3, <1>5, <1>6, <2>1
  <2> QED BY <1>7, <2>2
<1>9. /\ Ids(FlattenSeq(a)) = UNION { Ids(a[i]) : i \in 1 .. Len(a) }
      /\ IsInjective(FlattenSeq(a))
  <2> HIDE DEF a
  <2> QED BY <1>6, <1>7, <1>8, FlattenIds
<1>10. UNION { Ids(a[i]) : i \in 1 .. Len(a) } = ParagraphTokens(p)
  <2> HIDE DEF a
  <2>1. { Ids(a[i]) : i \in 1 .. Len(a) } = { SentenceTokens(s) : s \in ParagraphSentences(p) }
    <3>1. DOMAIN ss = 1 .. Len(a)
      BY ONLY <1>5, <1>6
    <3>2. \A i \in 1 .. Len(a) : Ids(a[i]) = SentenceTokens(ss[i])
      BY ONLY <1>7
    <3> QED BY ONLY <1>4, <3>1, <3>2
  <2> QED BY <2>1 DEF ParagraphTokens
<1> QED BY <1>9, <1>10 DEF ParagraphList, ss, a

LEMMA RevisionLists ==
  ASSUME Base, NEW r \in Stored
  PROVE  /\ Ids(iter_rev_tokens(r)) = TokensOf(Ids(revisions[r].paragraphs))
         /\ IsInjective(iter_rev_tokens(r))
<1> DEFINE ps == revisions[r].paragraphs
           a  == [i \in DOMAIN ps |-> ParagraphList(ps[i])]
<1>1. /\ ps \in Seq(Pids) /\ IsInjective(ps) /\ Separate(Ids(ps)) /\ Ids(ps) \subseteq OldP
  <2>1. r \in RevId
    BY Before0
  <2>2. \A n \in RevId : revisions[n].paragraphs \in Seq(Pids)
    BY SMTT(20) DEF Base, TypeOK, StoreOK
  <2> QED BY <2>1, <2>2, KnownParts DEF Base, MatchInv, ArticleInv, StoredDistinct
<1>2. ASSUME NEW p \in Ids(ps)
      PROVE  /\ ParagraphList(p) \in Seq(Tids) /\ IsInjective(ParagraphList(p))
             /\ Ids(ParagraphList(p)) = ParagraphTokens(p)
  <2>1. Separate({p}) /\ p \in OldP
    BY <1>1 DEF Separate
  <2> QED BY <2>1, ParagraphLists, ParagraphSpells DEF Base
<1>3. \A p, q \in Ids(ps) : p # q => ParagraphTokens(p) \cap ParagraphTokens(q) = {}
  BY <1>1 DEF Separate
<1>4. Ids(ps) = { ps[i] : i \in DOMAIN ps }
  BY DEF Ids
<1> HIDE DEF ps
<1>5. DOMAIN ps = 1 .. Len(ps) /\ Len(ps) \in Nat /\ \A i \in 1 .. Len(ps) : ps[i] \in Ids(ps)
  BY <1>1, <1>4, LenProperties
<1>6. a \in Seq(Seq(Tids)) /\ Len(a) = Len(ps)
  <2>1. a \in [1 .. Len(ps) -> Seq(Tids)]
    BY <1>2, <1>5
  <2> QED BY <1>5, <2>1, FunctionIsSeq
<1>7. \A i \in 1 .. Len(a) : IsInjective(a[i]) /\ Ids(a[i]) = ParagraphTokens(ps[i])
  BY <1>2, <1>5, <1>6
<1>8. \A i, j \in 1 .. Len(a) : i # j => Ids(a[i]) \cap Ids(a[j]) = {}
  <2> SUFFICES ASSUME NEW i \in 1 .. Len(a), NEW j \in 1 .. Len(a), i # j
               PROVE  Ids(a[i]) \cap Ids(a[j]) = {}
    OBVIOUS
  <2>1. ps[i] # ps[j]
    BY <1>1, <1>5, <1>6 DEF IsInjective
  <2> QED BY <1>3, <1>5, <1>6, <1>7, <2>1
<1>9. /\ Ids(FlattenSeq(a)) = UNION { Ids(a[i]) : i \in 1 .. Len(a) }
      /\ IsInjective(FlattenSeq(a))
  <2> HIDE DEF a
  <2> QED BY <1>6, <1>7, <1>8, FlattenIds
<1>10. UNION { Ids(a[i]) : i \in 1 .. Len(a) } = TokensOf(Ids(ps))
  <2> HIDE DEF a
  <2>1. { Ids(a[i]) : i \in 1 .. Len(a) } = { ParagraphTokens(p) : p \in Ids(ps) }
    <3>1. \A i \in 1 .. Len(a) : Ids(a[i]) = ParagraphTokens(ps[i])
      BY ONLY <1>7
    <3> QED BY <1>4, <1>5, <1>6, <3>1
  <2> QED BY <2>1 DEF TokensOf
<1> QED BY <1>9, <1>10, ZenonT(20) DEF iter_rev_tokens, ParagraphList, ps, a
-----------------------------------------------------------------------------
(* Revisions are fed in the order of their ids. *)
LEMMA NothingNewer ==
  ASSUME Base, SpamFed, NEW r,
         (pc = "idle" /\ r = rev_id + 1) \/ (pc # "idle" /\ r = rev_id)
  PROVE  History!IsNext(r)
<1>1. /\ rev_id \in Int /\ \A s \in Stored : s \in Int /\ s <= rev_id
      /\ pc # "idle" => \A s \in Stored : s < rev_id
  BY Before0, RevIdIs
<1>2. /\ \A s \in Ids(spam_ids) : s \in 1 .. rev_id
      /\ pc # "idle" => rev_id \notin Ids(spam_ids)
  BY DEF SpamFed
<1>3. \A s \in Stored \cup Ids(spam_ids) : s < r
  <2>1. ASSUME NEW s \in Stored PROVE s < r
    BY <1>1
  <2>2. ASSUME NEW s \in Ids(spam_ids) PROVE s < r
    <3>1. s \in 1 .. rev_id /\ (pc # "idle" => s # rev_id)
      BY <1>2
    <3> QED BY <1>1, <3>1
  <2> QED BY <2>1, <2>2
<1>4. { abs_accepted[i].id : i \in DOMAIN abs_accepted } \subseteq Stored
  BY DEF abs_accepted, Stored, Ids
<1>5. History!Members(spam_ids) = Ids(spam_ids)
  BY DEF History!Members, Ids
<1> QED BY <1>3, <1>4, <1>5 DEF History!IsNext, History!Fed

(* The words of the stored revisions are the first ones. *)
FirstWords == \E k \in Nat : OldT = 1 .. k
LEMMA FirstWordsIs == Base /\ WordsDense => FirstWords
<1> SUFFICES ASSUME Base, WordsDense PROVE FirstWords
  OBVIOUS
<1>1. OldT \subseteq Tids /\ Len(words) \in Nat
  BY Before0, LenProperties DEF Base, TypeOK, ArenasOK
<1>2. CASE OldT = {}
  <2>1. OldT = 1 .. 0
    BY <1>2
  <2> QED BY <2>1 DEF FirstWords
<1>3. CASE OldT # {}
  <2>1. OldT \subseteq 0 .. Len(words)
    BY <1>1 DEF Tids
  <2>2. PICK k \in OldT : \A w \in OldT : w <= k
    BY <1>1, <1>3, <2>1, GreatestNat
  <2>3. k \in Nat /\ 1 .. k \subseteq OldT
    BY <2>1, <2>2 DEF WordsDense
  <2>4. \A w \in OldT : w \in 1 .. k
    <3>1. \A w \in OldT : w \in 1 .. Len(words)
      BY <1>1 DEF Tids
    <3> QED BY <2>2, <2>3, <3>1
  <2> QED BY <2>3, <2>4 DEF FirstWords
<1> QED BY <1>2, <1>3

LEMMA FirstWordsNext == (Base /\ WordsDense => FirstWords)'
BY FirstWordsIs, PTL

(* What a commit shows: the list of accepted revisions is longer by one. *)
LEMMA AcceptedGrows ==
  ASSUME Base, Commit, NEW tokens, tokens = iter_rev_tokens(rev_id)'
  PROVE  /\ Len(abs_accepted') = Len(abs_accepted) + 1
         /\ History!IsPrefix(abs_accepted, abs_accepted')
         /\ abs_accepted'[Len(abs_accepted')] = [id |-> rev_id, text |-> text, tokens |-> tokens]
         /\ Len(abs_accepted) = Len(ordered_revisions)
<1> DEFINE n == Len(ordered_revisions)
<1>1. /\ revisions' = [revisions EXCEPT ![rev_id] =
                         [id |-> rev_id, text |-> text, paragraphs |-> curr]]
      /\ ordered_revisions' = Append(ordered_revisions, rev_id)
      /\ UNCHANGED <<words, sentences, paragraphs, rev_id>> /\ pc = "commit"
  BY DEF Commit
<1>2. /\ rev_id \in RevId /\ rev_id \notin Stored /\ DOMAIN revisions = RevId
      /\ ordered_revisions \in Seq(RevId)
  BY <1>1 DEF Base, MatchInv, StoredInOrder, TypeOK, StoreOK, InputOK
<1>3. /\ \A r \in Stored : revisions'[r] = revisions[r]
      /\ revisions'[rev_id].text = text
  BY <1>1, <1>2, Before0
<1>4. /\ n \in Nat /\ DOMAIN ordered_revisions = 1 .. n
      /\ DOMAIN ordered_revisions' = 1 .. n + 1
      /\ ordered_revisions'[n + 1] = rev_id
      /\ \A i \in 1 .. n : /\ ordered_revisions'[i] = ordered_revisions[i]
                           /\ ordered_revisions[i] \in Stored
  <2>1. n \in Nat /\ DOMAIN ordered_revisions = 1 .. n
    BY <1>2, LenProperties
  <2> QED BY <1>1, <1>2, <2>1, AppendProperties, LenProperties DEF Stored, Ids
<1> HIDE DEF n
<1>5. ASSUME NEW i \in 1 .. n PROVE abs_accepted'[i] = abs_accepted[i]
  <2>1. PICK r : r = ordered_revisions[i]
    OBVIOUS
  <2>2. r \in Stored /\ r = ordered_revisions'[i] /\ revisions'[r] = revisions[r]
    BY <1>3, <1>4, <2>1
  <2>3. iter_rev_tokens(r)' = iter_rev_tokens(r)
    BY <1>1, <2>2, TokensStand, ZenonT(20)
  <2>4. i \in DOMAIN ordered_revisions /\ i \in DOMAIN ordered_revisions'
    BY <1>4
  <2>5. iter_rev_tokens(ordered_revisions[i])' = iter_rev_tokens(r)'
    BY <2>2, ZenonT(20) DEF iter_rev_tokens
  <2> QED BY <2>1, <2>2, <2>3, <2>4, <2>5 DEF abs_accepted
<1>6. abs_accepted'[n + 1] = [id |-> rev_id, text |-> text, tokens |-> tokens]
  <2>1. n + 1 \in DOMAIN ordered_revisions'
    BY <1>4
  <2>2. PICK m : m = n + 1
    OBVIOUS
  <2>3. iter_rev_tokens(ordered_revisions[m])' = tokens
    <3>1. PICK r : r = rev_id
      OBVIOUS
    <3>2. r = rev_id' /\ ordered_revisions'[m] = r
      BY <1>1, <1>4, <2>2, <3>1
    <3>3. iter_rev_tokens(r)' = tokens
      BY <3>2, ZenonT(20) DEF iter_rev_tokens
    <3>4. iter_rev_tokens(ordered_revisions[m])' = iter_rev_tokens(r)'
      BY <3>2, ZenonT(20) DEF iter_rev_tokens
    <3> QED BY <3>3, <3>4
  <2> QED BY <1>3, <1>4, <2>1, <2>2, <2>3 DEF abs_accepted
<1>7. DOMAIN abs_accepted = 1 .. n /\ DOMAIN abs_accepted' = 1 .. n + 1
  BY <1>4 DEF abs_accepted
<1>8. PICK a : a = abs_accepted
  OBVIOUS
<1>9. PICK b : b = abs_accepted'
  OBVIOUS
<1>10. DOMAIN a = 1 .. n /\ DOMAIN b = 1 .. n + 1 /\ \A i \in 1 .. n : b[i] = a[i]
  BY <1>5, <1>7, <1>8, <1>9
<1> DEFINE S == { b[i] : i \in 1 .. n + 1 }
<1>11. a \in Seq(S) /\ Len(a) = n /\ b \in Seq(S) /\ Len(b) = n + 1
  <2>1. \A i \in 1 .. n : i \in 1 .. n + 1
    BY <1>4
  <2>2. a = [i \in 1 .. n |-> a[i]] /\ b = [i \in 1 .. n + 1 |-> b[i]]
    BY <1>7, <1>8, <1>9, <1>4 DEF abs_accepted
  <2>3. a \in [1 .. n -> S] /\ b \in [1 .. n + 1 -> S]
    BY <1>10, <2>1, <2>2
  <2>4. n + 1 \in Nat
    BY <1>4
  <2> HIDE DEF S
  <2> QED BY <1>4, <2>3, <2>4, FunctionIsSeq
<1>12. SubSeq(a, 1, n) = SubSeq(b, 1, n)
  <2>1. \A i \in 1 .. n : a[i] \in S /\ b[i] \in S
    BY <1>4, <1>10
  <2> HIDE DEF S
  <2>2. PICK f : f = SubSeq(a, 1, n)
    OBVIOUS
  <2>3. PICK g : g = SubSeq(b, 1, n)
    OBVIOUS
  <2>4. /\ f \in Seq(S) /\ Len(f) = (IF 1 <= n THEN n - 1 + 1 ELSE 0)
        /\ \A i \in 1 .. n - 1 + 1 : f[i] = a[1 + i - 1]
    BY <1>4, <2>1, <2>2, SubSeqProperties
  <2>5. /\ g \in Seq(S) /\ Len(g) = (IF 1 <= n THEN n - 1 + 1 ELSE 0)
        /\ \A i \in 1 .. n - 1 + 1 : g[i] = b[1 + i - 1]
    BY <1>4, <2>1, <2>3, SubSeqProperties
  <2>6. n - 1 + 1 = n /\ (1 <= n \/ n = 0) /\ \A i \in 1 .. n : 1 + i - 1 = i
    BY <1>4
  <2>7. Len(f) = n /\ Len(g) = n
    BY <1>4, <2>4, <2>5, <2>6
  <2>8. \A i \in 1 .. n : f[i] = g[i]
    BY <1>10, <2>4, <2>5, <2>6
  <2> QED BY <2>2, <2>3, <2>4, <2>5, <2>7, <2>8, SeqEqual
<1>13. n <= n + 1
  BY <1>4
<1> QED BY <1>6, <1>8, <1>9, <1>11, <1>12, <1>13 DEF History!IsPrefix, n
-----------------------------------------------------------------------------
LEMMA PrependAppend ==
  ASSUME NEW S, NEW s \in Seq(S), NEW x \in S, NEW y \in S
  PROVE  <<x>> \o Append(s, y) = Append(<<x>> \o s, y)
<1>1. <<x>> \in Seq(S) /\ <<y>> \in Seq(S) /\ <<x>> \o s \in Seq(S)
  BY ConcatProperties
<1>2. Append(s, y) = s \o <<y>> /\ Append(<<x>> \o s, y) = (<<x>> \o s) \o <<y>>
  BY <1>1, AppendIsConcat
<1> QED BY <1>1, <1>2, ConcatAssociative

LEMMA StoredOnlyAllNext ==
  ASSUME NEW o \in Seq(RevId), Ids(o) \subseteq Stored'
  PROVE  StoredOnly(o)' = o
<1>1. o # << >> => Len(o) \in DOMAIN o
  BY NonEmptySeq, LenProperties
<1> QED BY <1>1 DEF StoredOnly, Ids

(* The call that commits has added itself to the events of the words that  *)
(* have come back and of those that have gone, and shows it now.           *)
LEMMA EntryAtCommit ==
  ASSUME Base, Base', HistInv, HistInv', Commit, NEW w \in OldT
  PROVE  Entry(w)' =
           [value |-> words[w].value,
            came  |-> IF w \in CurrT \ PrevT THEN Append(CameOf(w), rev_id) ELSE CameOf(w),
            went  |-> IF w \in PrevT \ CurrT THEN Append(WentOf(w), rev_id) ELSE WentOf(w)]
<1> DEFINE in  == words[w].inbound
           out == words[w].outbound
           org == words[w].origin_rev_id
<1>1. pc = "commit" /\ pc # "idle" /\ pc' = "idle" /\ words' = words
  BY DEF Commit
<1>2. /\ w \in Tids /\ in \in Seq(RevId) /\ out \in Seq(RevId) /\ OnceEach(in) /\ OnceEach(out)
      /\ org \in RevId
      /\ Ids(in) \subseteq Stored \cup {rev_id} /\ Ids(out) \subseteq Stored \cup {rev_id}
      /\ rev_id \in RevId /\ rev_id \notin Stored
  BY <1>1, EventsOf, Before0
<1>3. Ids(in) \subseteq Stored' /\ Ids(out) \subseteq Stored'
  <2>1. w \in Tids' /\ ~ Recording'
    BY <1>1, <1>2 DEF Tids, Recording
  <2>2. HistoryNames(w)' \subseteq Stored'
    BY <2>1 DEF Base, NoSpamInHistory
  <2>3. HistoryNames(w)' = HistoryNames(w)
    BY <1>1 DEF HistoryNames
  <2> QED BY <2>2, <2>3 DEF HistoryNames
<1>4. /\ Gone(w) <=> w \in PrevT \ CurrT
      /\ Came(w) <=> w \in CurrT \ PrevT
  BY <1>1 DEF HistInv, GoneWords
<1>5. CameOf(w)' = <<org>> \o in /\ WentOf(w)' = out
  <2>1. PICK i : i = in
    OBVIOUS
  <2>2. PICK o : o = out
    OBVIOUS
  <2>3. StoredOnly(i)' = i /\ StoredOnly(o)' = o
    BY <1>2, <1>3, <2>1, <2>2, StoredOnlyAllNext
  <2> QED BY <1>1, <2>1, <2>2, <2>3 DEF CameOf, WentOf, StoredOnly
<1>6. /\ StoredOnly(in) \in Seq(RevId)
      /\ IF Came(w) THEN in = Append(StoredOnly(in), rev_id) ELSE StoredOnly(in) = in
      /\ IF Gone(w) THEN out = Append(StoredOnly(out), rev_id) ELSE StoredOnly(out) = out
  <2>1. PICK i : i = in
    OBVIOUS
  <2>2. PICK o : o = out
    OBVIOUS
  <2>3. PICK r : r = rev_id
    OBVIOUS
  <2>4. /\ StoredOnly(i) \in Seq(RevId)
        /\ IF EndsWith(i, r) THEN i = Append(StoredOnly(i), r) ELSE StoredOnly(i) = i
    BY <1>2, <2>1, <2>3, StoredOnlyIs
  <2>5. IF EndsWith(o, r) THEN o = Append(StoredOnly(o), r) ELSE StoredOnly(o) = o
    BY <1>2, <2>2, <2>3, StoredOnlyIs
  <2> QED BY <2>1, <2>2, <2>3, <2>4, <2>5 DEF Came, Gone
<1>7. CameOf(w)' = IF w \in CurrT \ PrevT THEN Append(CameOf(w), rev_id) ELSE CameOf(w)
  <2>1. <<org>> \o Append(StoredOnly(in), rev_id) = Append(<<org>> \o StoredOnly(in), rev_id)
    BY <1>2, <1>6, PrependAppend
  <2> QED BY <1>4, <1>5, <1>6, <2>1 DEF CameOf
<1>8. WentOf(w)' = IF w \in PrevT \ CurrT THEN Append(WentOf(w), rev_id) ELSE WentOf(w)
  BY <1>4, <1>5, <1>6 DEF WentOf
<1> QED BY <1>1, <1>7, <1>8 DEF Entry

LEMMA EntryOfNew ==
  ASSUME Base, HistInv, Commit, NEW w \in Tids \ OldT
  PROVE  Entry(w)' = [value |-> words[w].value, came |-> <<rev_id>>, went |-> << >>]
         /\ w \in CurrT
<1>1. words' = words
  BY DEF Commit
<1>2. /\ w \in CurrT /\ words[w].origin_rev_id = rev_id
      /\ words[w].inbound = << >> /\ words[w].outbound = << >>
  BY DEF HistInv, WordsKnown, Fresh
<1>3. rev_id \in RevId /\ <<rev_id>> \in Seq(RevId) /\ <<rev_id>> \o << >> = <<rev_id>>
  BY Before0, ConcatEmptySeq
<1>4. CameOf(w)' = <<rev_id>> /\ WentOf(w)' = << >>
  BY <1>1, <1>2, <1>3 DEF CameOf, WentOf, StoredOnly
<1> QED BY <1>1, <1>2, <1>4 DEF Entry

(* The tokens on the page are those of the last revision accepted. *)
LEMMA TokensNowAre ==
  ASSUME Base, LastStored
  PROVE  /\ History!Members(History!TokensNow) = PrevT
         /\ abs_accepted # << >> =>
              /\ last_good_rev_id \in Stored
              /\ History!TokensNow = iter_rev_tokens(last_good_rev_id)
              /\ abs_accepted[Len(abs_accepted)].text = revision_prev.text
<1>1. /\ ordered_revisions \in Seq(RevId)
      /\ DOMAIN ordered_revisions = 1 .. Len(ordered_revisions) /\ Len(ordered_revisions) \in Nat
  BY LenProperties DEF Base, TypeOK, StoreOK
<1> DEFINE n == Len(ordered_revisions)
<1>2. CASE ordered_revisions = << >>
  <2>1. last_good_rev_id = 0 /\ revision_prev.paragraphs = << >>
    BY <1>2 DEF LastStored, Base, MatchInv, StoredInOrder, revision_prev
  <2>2. PrevT = {}
    BY <2>1, EmptyIds DEF PrevT, PrevP, TokensOf
  <2>3. abs_accepted = << >>
    BY <1>2, EmptyIds DEF abs_accepted
  <2>4. History!TokensNow = << >> /\ History!Members(<< >>) = {}
    BY <2>3, EmptyIds DEF History!TokensNow, History!Members
  <2> QED BY <2>2, <2>3, <2>4
<1>3. CASE ordered_revisions # << >>
  <2>1. n \in DOMAIN ordered_revisions /\ last_good_rev_id = ordered_revisions[n]
    BY <1>1, <1>3, NonEmptySeq DEF LastStored
  <2>2. last_good_rev_id \in Stored
    BY <2>1 DEF Stored, Ids
  <2>3. abs_accepted # << >> /\ Len(abs_accepted) = n
    <3>1. PICK a : a = abs_accepted
      OBVIOUS
    <3>2. DOMAIN a = 1 .. n /\ a = [i \in 1 .. n |-> a[i]]
      BY <1>1, <3>1 DEF abs_accepted
    <3>3. a \in [1 .. n -> { a[i] : i \in 1 .. n }]
      BY <3>2
    <3>4. a \in Seq({ a[i] : i \in 1 .. n }) /\ Len(a) = n
      BY <1>1, <3>3, FunctionIsSeq
    <3>5. DOMAIN a # {}
      BY <1>1, <2>1, <3>2
    <3> QED BY <3>1, <3>4, <3>5, EmptyIds
  <2>4. /\ abs_accepted[n].tokens = iter_rev_tokens(last_good_rev_id)
        /\ abs_accepted[n].text = revisions[last_good_rev_id].text
    BY <2>1 DEF abs_accepted
  <2>5. Ids(iter_rev_tokens(last_good_rev_id)) = PrevT
    BY <2>2, RevisionLists DEF PrevT, PrevP, revision_prev
  <2> QED BY <2>2, <2>3, <2>4, <2>5
        DEF History!TokensNow, History!Members, Ids, revision_prev
<1> QED BY <1>2, <1>3
-----------------------------------------------------------------------------
(* The tokens of a stored revision, once a call has ended. *)
TokensAre(r) ==
  LET tokens == iter_rev_tokens(r)
  IN  /\ Ids(tokens) = TokensOf(Ids(revisions[r].paragraphs)) /\ IsInjective(tokens)
      /\ tokens \in Seq(Tids)
      /\ [i \in DOMAIN tokens |-> words[tokens[i]].value] = spelling_of(revisions[r].text)
LEMMA TokensAreIs == ASSUME NEW r PROVE Base /\ r \in Stored => TokensAre(r)
<1> SUFFICES ASSUME Base, r \in Stored PROVE TokensAre(r)
  OBVIOUS
<1> DEFINE tokens == iter_rev_tokens(r)
<1>1. /\ tokens \in Seq(Tids)
      /\ spelling_of(revisions[r].text) = MapSeq(WordValues, tokens)
  BY RevisionSpells DEF Base
<1>2. Ids(tokens) = TokensOf(Ids(revisions[r].paragraphs)) /\ IsInjective(tokens)
  BY RevisionLists
<1>3. MapSeq(WordValues, tokens) = [i \in DOMAIN tokens |-> words[tokens[i]].value]
  <2> HIDE DEF tokens
  <2>1. \A i \in DOMAIN tokens : tokens[i] \in Tids
    BY <1>1, LenProperties
  <2> QED BY <2>1 DEF MapSeq, WordValues
<1> QED BY <1>1, <1>2, <1>3 DEF TokensAre

LEMMA TokensAreNext == ASSUME NEW r PROVE (Base /\ r \in Stored => TokensAre(r))'
<1>1. Base /\ r \in Stored => TokensAre(r)
  BY TokensAreIs
<1> QED BY <1>1, PTL

(* What the commit stores: the tokens of curr, in the text's order. *)
LEMMA CommittedTokens ==
  ASSUME Base, Base', HistInv, Commit, NEW tokens, tokens = iter_rev_tokens(rev_id)'
  PROVE  /\ Ids(tokens) = CurrT /\ IsInjective(tokens) /\ CurrT \subseteq Tids
         /\ [i \in DOMAIN tokens |-> words[tokens[i]].value] = spelling_of(text)
         /\ \A i \in DOMAIN tokens : tokens[i] \in Tids
<1>1. /\ revisions' = [revisions EXCEPT ![rev_id] =
                         [id |-> rev_id, text |-> text, paragraphs |-> curr]]
      /\ ordered_revisions' = Append(ordered_revisions, rev_id)
      /\ UNCHANGED <<words, sentences, paragraphs, rev_id>> /\ pc = "commit" /\ pc # "idle"
  BY DEF Commit
<1>2. /\ rev_id \in RevId /\ DOMAIN revisions = RevId /\ ordered_revisions \in Seq(RevId)
  BY DEF Base, TypeOK, StoreOK, InputOK
<1>3. revisions'[rev_id].paragraphs = curr /\ revisions'[rev_id].text = text
  BY <1>1, <1>2
<1>4. rev_id \in Stored'
  BY <1>1, <1>2, IdsAppend DEF Stored
<1>5. PICK r : r = rev_id
  OBVIOUS
<1>6. TokensAre(r)'
  BY <1>4, <1>5, TokensAreNext
<1>7. iter_rev_tokens(r)' = tokens
  <2>1. r = rev_id'
    BY <1>1, <1>5
  <2> QED BY <2>1, ZenonT(20) DEF iter_rev_tokens
<1>8. /\ Ids(tokens) = TokensOf(Ids(revisions[r].paragraphs))' /\ IsInjective(tokens)
      /\ tokens \in Seq(Tids')
      /\ [i \in DOMAIN tokens |-> words'[tokens[i]].value] = spelling_of(revisions'[r].text)
  BY <1>6, <1>7 DEF TokensAre, Ids, IsInjective
<1>9. TokensOf(Ids(revisions[r].paragraphs))' = CurrT
  <2>1. \A p : ParagraphTokens(p)' = ParagraphTokens(p)
    BY <1>1 DEF ParagraphTokens, ParagraphSentences, SentenceTokens
  <2>2. Ids(revisions[r].paragraphs)' = Ids(curr)
    BY <1>1, <1>3, <1>5 DEF Ids
  <2> QED BY <2>1, <2>2 DEF CurrT, TokensOf
<1>10. Tids' = Tids /\ \A i \in DOMAIN tokens : tokens[i] \in Tids'
  BY <1>1, <1>8, LenProperties DEF Tids
<1> QED BY <1>1, <1>3, <1>5, <1>8, <1>9, <1>10, InWork DEF WorkIs

(* A text equal to the one before keeps every token in its place. *)
LEMMA NullEditKeeps ==
  ASSUME Base, NullEdit, Commit, last_good_rev_id \in Stored, revision_prev.text = text
  PROVE  iter_rev_tokens(rev_id)' = iter_rev_tokens(last_good_rev_id)
<1>1. /\ revisions' = [revisions EXCEPT ![rev_id] =
                         [id |-> rev_id, text |-> text, paragraphs |-> curr]]
      /\ UNCHANGED <<words, sentences, paragraphs, rev_id>> /\ pc = "commit" /\ pc # "idle"
      /\ pc # "paragraphs"
  BY DEF Commit
<1>2. /\ rev_id \in RevId /\ DOMAIN revisions = RevId
      /\ revision_prev.paragraphs \in Seq(Pids) /\ curr \in Seq(Pids)
  BY Kinds DEF Base, TypeOK, StoreOK, InputOK, revision_prev
<1>3. Len(curr) = Len(revision_prev.paragraphs)
  <2>1. Len(curr) = Len(split_paragraphs[text])
    BY <1>1 DEF Base, MatchInv, LoopInv, Wholes
  <2>2. Len(revision_prev.paragraphs) = Len(split_paragraphs[revision_prev.text])
    BY DEF Base, MatchInv, ArticleInv, StoredSpelled, revision_prev
  <2> QED BY <2>1, <2>2
<1>4. last_good_rev_id # 0
  <2>1. last_good_rev_id \in 1 .. rev_id
    BY DEF Base, MatchInv, StoredInOrder
  <2> QED BY <2>1
<1>5. \A i \in DOMAIN curr : curr[i] = revision_prev.paragraphs[i]
  BY <1>1, <1>4 DEF NullEdit, SameText
<1>6. curr = revision_prev.paragraphs
  BY <1>2, <1>3, <1>5, LenProperties, SeqEqual
<1>7. PICK q : q = rev_id
  OBVIOUS
<1>8. PICK r : r = last_good_rev_id
  OBVIOUS
<1>9. revisions'[q].paragraphs = revisions[r].paragraphs
  BY <1>1, <1>2, <1>6, <1>7, <1>8 DEF revision_prev
<1>10. iter_rev_tokens(q)' = iter_rev_tokens(r)
  <2>1. \A p : ParagraphList(p)' = ParagraphList(p)
    BY <1>1 DEF ParagraphList
  <2> QED BY <1>9, <2>1, ZenonT(20) DEF iter_rev_tokens, ParagraphList
<1>11. iter_rev_tokens(rev_id)' = iter_rev_tokens(q)'
  BY <1>1, <1>7 DEF iter_rev_tokens
<1> QED BY <1>8, <1>10, <1>11
-----------------------------------------------------------------------------
(* A call that commits accepts its revision. *)
LEMMA CommitAccepts ==
  ASSUME Base, Base', HistInv, HistInv', RefInv, RefInv', Commit
  PROVE  History!Accept(rev_id, text) /\ rev_id \in 1 .. MaxRevisions /\ text \in Text
<1>1. /\ pc = "commit" /\ pc' = "idle" /\ pc # "idle"
      /\ UNCHANGED <<words, spam_ids, rev_id>>
  BY DEF Commit
<1>2. rev_id \in 1 .. MaxRevisions /\ text \in Text
  BY <1>1 DEF Base, MatchInv, StoredInOrder, TypeOK, InputOK
<1>3. PICK tokens : tokens = iter_rev_tokens(rev_id)'
  OBVIOUS
<1>4. /\ Ids(tokens) = CurrT /\ IsInjective(tokens) /\ CurrT \subseteq Tids
      /\ [i \in DOMAIN tokens |-> words[tokens[i]].value] = spelling_of(text)
      /\ \A i \in DOMAIN tokens : tokens[i] \in Tids
  BY <1>3, CommittedTokens
<1>5. /\ Len(abs_accepted') = Len(abs_accepted) + 1
      /\ History!IsPrefix(abs_accepted, abs_accepted')
      /\ abs_accepted'[Len(abs_accepted')] = [id |-> rev_id, text |-> text, tokens |-> tokens]
  BY <1>3, AcceptedGrows
<1>6. OldT' = Tids /\ OldT \subseteq Tids
  <2>1. OldT' = Tids'
    BY <1>1, KnownWordsNext DEF HistInv, WordsKnown, Recording, KnownAllocated
  <2> QED BY <1>1, <2>1, Before0 DEF Tids
<1>7. /\ abs_token = [w \in OldT |-> Entry(w)]
      /\ abs_token' = [w \in Tids |-> Entry(w)']
  <2>1. abs_token = [w \in OldT |-> Entry(w)]
    BY KnownIs, AbsToken
  <2>2. abs_token' = [w \in OldT |-> Entry(w)]'
    BY KnownIsNext, AbsTokenNext
  <2> QED BY <1>6, <2>1, <2>2
<1>8. DOMAIN abs_token = OldT /\ DOMAIN abs_token' = Tids
  BY <1>7
<1>9. ASSUME NEW w \in OldT
      PROVE  /\ abs_token[w] = Entry(w)
             /\ abs_token'[w] =
                  [value |-> words[w].value,
                   came  |-> IF w \in CurrT \ PrevT THEN Append(CameOf(w), rev_id) ELSE CameOf(w),
                   went  |-> IF w \in PrevT \ CurrT THEN Append(WentOf(w), rev_id) ELSE WentOf(w)]
  BY <1>6, <1>7, EntryAtCommit
<1>10. ASSUME NEW w \in Tids \ OldT
       PROVE  /\ abs_token'[w] = [value |-> words[w].value, came |-> <<rev_id>>, went |-> << >>]
              /\ w \in CurrT
  BY <1>7, EntryOfNew
<1>11. ASSUME NEW w \in Tids PROVE abs_token'[w].value = words[w].value
  <2>1. abs_token'[w] = Entry(w)'
    BY <1>7
  <2>2. Entry(w)'.value = words'[w].value
    BY DEF Entry
  <2> QED BY <1>1, <2>1, <2>2
<1>12. Len(abs_token') >= Len(abs_token)
  <2>1. PICK k \in Nat : OldT = 1 .. k
    BY FirstWordsIs DEF RefInv, FirstWords
  <2>2. Tids = 1 .. Len(words) /\ Len(words) \in Nat
    BY LenProperties DEF Tids, Base, TypeOK, ArenasOK
  <2>3. PICK a : a = abs_token
    OBVIOUS
  <2>4. PICK b : b = abs_token'
    OBVIOUS
  <2>5. Len(a) = k
    <3>1. a = [w \in 1 .. k |-> a[w]]
      BY <1>7, <2>1, <2>3
    <3>2. a \in [1 .. k -> { a[w] : w \in 1 .. k }]
      BY <3>1
    <3> QED BY <2>1, <3>2, FunctionIsSeq
  <2>6. Len(b) = Len(words)
    <3>1. b = [w \in 1 .. Len(words) |-> b[w]]
      BY <1>7, <2>2, <2>4
    <3>2. b \in [1 .. Len(words) -> { b[w] : w \in 1 .. Len(words) }]
      BY <3>1
    <3> QED BY <2>2, <3>2, FunctionIsSeq
  <2>7. k <= Len(words)
    <3>1. k # 0 => k \in 1 .. k
      BY <2>1
    <3> QED BY <1>6, <2>1, <2>2, <3>1
  <2> QED BY <2>2, <2>3, <2>4, <2>5, <2>6, <2>7
<1>13. History!Members(tokens) = CurrT /\ History!IsInjective(tokens)
  BY <1>4 DEF History!Members, Ids, History!IsInjective, IsInjective
<1>14. /\ History!Members(History!TokensNow) = PrevT
       /\ abs_accepted # << >> =>
            /\ last_good_rev_id \in Stored
            /\ History!TokensNow = iter_rev_tokens(last_good_rev_id)
            /\ abs_accepted[Len(abs_accepted)].text = revision_prev.text
  BY TokensNowAre DEF RefInv
<1>15. ASSUME NEW w \in Tids PROVE abs_token'[w] = History!Updated(w, rev_id, tokens)
  <2>1. CASE w \in OldT
    <3>1. /\ abs_token'[w].value = words[w].value
          /\ abs_token[w].came = CameOf(w) /\ abs_token[w].went = WentOf(w)
      <4>1. Entry(w).came = CameOf(w) /\ Entry(w).went = WentOf(w)
        BY DEF Entry
      <4> QED BY <1>9, <1>11, <2>1, <4>1
    <3>2. w \in DOMAIN abs_token
      BY <1>8, <2>1
    <3>3. abs_token'[w] =
            [value |-> words[w].value,
             came  |-> IF w \in CurrT \ PrevT THEN Append(CameOf(w), rev_id) ELSE CameOf(w),
             went  |-> IF w \in PrevT \ CurrT THEN Append(WentOf(w), rev_id) ELSE WentOf(w)]
      BY <1>9, <2>1
    <3> QED BY ONLY <1>13, <1>14, <3>1, <3>2, <3>3 DEF History!Updated
  <2>2. CASE w \notin OldT
    <3>1. abs_token'[w].value = words[w].value /\ w \notin DOMAIN abs_token
      BY <1>8, <1>11, <2>2
    <3>2. abs_token'[w] = [value |-> words[w].value, came |-> <<rev_id>>, went |-> << >>]
      BY <1>10, <2>2
    <3> QED BY ONLY <3>1, <3>2 DEF History!Updated
  <2> QED BY <2>1, <2>2
<1>16. [i \in DOMAIN tokens |-> abs_token'[tokens[i]].value]
         = [t \in Text |-> spelling_of(t)][text]
  <2>1. [i \in DOMAIN tokens |-> abs_token'[tokens[i]].value]
          = [i \in DOMAIN tokens |-> words[tokens[i]].value]
    BY <1>4, <1>11
  <2>2. [t \in Text |-> spelling_of(t)][text] = spelling_of(text)
    BY <1>2
  <2> QED BY <1>4, <2>1, <2>2
<1>17. abs_accepted # << >> /\ abs_accepted[Len(abs_accepted)].text = text
         => tokens = History!TokensNow
  BY <1>3, <1>14, NullEditKeeps DEF RefInv
<1>18. History!IsNext(rev_id)
  BY <1>1, NothingNewer DEF RefInv
<1>19. ASSUME NEW w \in OldT PROVE abs_token'[w].value = abs_token[w].value
  <2>1. abs_token'[w].value = words[w].value
    BY <1>6, <1>11
  <2>2. Entry(w).value = words[w].value
    BY DEF Entry
  <2> QED BY <1>9, <2>1, <2>2
<1>20. Tids \ OldT \subseteq CurrT
  BY <1>10
<1>21. abs_accepted'[Len(abs_accepted) + 1] = [id |-> rev_id, text |-> text, tokens |-> tokens]
  BY <1>5
<1>22. History!Accept(rev_id, text)
  <2>1. abs_accepted'[Len(abs_accepted')].tokens = tokens
    BY <1>5
  <2>2. \A w \in DOMAIN abs_token' : abs_token'[w] = History!Updated(w, rev_id, tokens)
    BY <1>8, <1>15
  <2>3. \A w \in DOMAIN abs_token : abs_token'[w].value = abs_token[w].value
    BY <1>8, <1>19
  <2>4. /\ History!Members(tokens) \subseteq DOMAIN abs_token'
        /\ DOMAIN abs_token' \ DOMAIN abs_token \subseteq History!Members(tokens)
    BY <1>4, <1>8, <1>13, <1>20
  <2> QED BY ONLY <1>1, <1>5, <1>12, <1>13, <1>16, <1>17, <1>18, <2>1, <2>2, <2>3, <2>4
          DEF History!Accept
<1> QED BY <1>2, <1>22
-----------------------------------------------------------------------------
LEMMA InitShows == Init => History!Init
<1> SUFFICES ASSUME Init PROVE History!Init
  OBVIOUS
<1>1. ordered_revisions = << >> /\ words = << >> /\ spam_ids = << >>
  BY DEF Init
<1>2. Tids = {}
  <2>1. Len(<< >>) = 0 /\ 1 .. 0 = {}
    BY EmptyIds
  <2> QED BY <1>1, <2>1 DEF Tids
<1>3. abs_accepted = << >>
  BY <1>1, EmptyIds DEF abs_accepted
<1>4. abs_token = << >>
  <2>1. abs_token = [w \in {} |-> Entry(w)]
    BY <1>2 DEF abs_token
  <2>2. [w \in {} |-> Entry(w)] = << >>
    BY EmptyIds
  <2> QED BY <2>1, <2>2
<1> QED BY <1>1, <1>3, <1>4 DEF History!Init

(* Each step accepts, refuses or shows nothing. *)
LEMMA StepShows ==
  ASSUME Base, Base', HistInv, HistInv', RefInv, RefInv', [Next]_vars
  PROVE  [History!Next]_(History!vars)
<1>1. CASE Commit
  <2>1. History!Accept(rev_id, text) /\ rev_id \in 1 .. MaxRevisions /\ text \in Text
    BY <1>1, CommitAccepts
  <2> QED BY <2>1 DEF History!Next
<1>2. CASE ~ Commit
  <2>1. UNCHANGED <<abs_accepted, abs_token>>
    BY <1>2, StepHidden, HiddenShowsNothing
  <2>2. ASSUME NEW r \in 1 .. MaxRevisions, Refused(r), History!IsNext(r)
        PROVE  History!Next
    <3>1. History!Refuse(r)
      BY <2>1, <2>2 DEF Refused, History!Refuse
    <3> QED BY <2>2, <3>1 DEF History!Next
  <2>3. CASE pc = "idle" /\ rev_id < MaxRevisions /\ Refused(rev_id + 1)
    <3>1. PICK r : r = rev_id + 1
      OBVIOUS
    <3>2. r \in 1 .. MaxRevisions
      <4>1. rev_id \in 0 .. MaxRevisions /\ MaxRevisions \in Nat
        BY BoundAssumption DEF Base, TypeOK, InputOK, RevId
      <4> QED BY <2>3, <3>1, <4>1
    <3> QED BY <2>2, <2>3, <3>1, <3>2, NothingNewer DEF RefInv
  <2>4. CASE pc = "gate" /\ Refused(rev_id) /\ rev_id' = rev_id
    <3>1. PICK r : r = rev_id
      OBVIOUS
    <3>2. r \in 1 .. MaxRevisions
      BY <2>4, <3>1 DEF Base, MatchInv, StoredInOrder
    <3> QED BY <2>2, <2>4, <3>1, <3>2, NothingNewer DEF RefInv
  <2>5. CASE spam_ids' = spam_ids
    BY <2>1, <2>5 DEF History!vars
  <2> QED BY <1>2, <2>3, <2>4, <2>5, StepKinds
<1> QED BY <1>1, <1>2

(* The attribution implements the history it promises: a revision fed is   *)
(* accepted whole or refused without a trace, its tokens are distinct and  *)
(* spell its text, each token's events follow from the revisions it is in, *)
(* a null edit moves nothing, and what was told of earlier revisions stays *)
(* (add_revision of pipeline.rs and all it calls).                         *)
THEOREM TokenHistoryImplemented == Spec => ImplementsTokenHistory
<1>1. Spec => []Base
  BY TypeCorrect, MatchingCorrect, SpamLeavesNoTrace, PTL DEF Base
<1>2. Base /\ Base' /\ HistInv /\ [Next]_vars => HistInv'
  BY HistStep
<1>3. Base /\ Base' /\ HistInv /\ HistInv' /\ RefInv /\ [Next]_vars => RefInv'
  BY RefStep
<1>4. Base /\ Base' /\ HistInv /\ HistInv' /\ RefInv /\ RefInv' /\ [Next]_vars
        => [History!Next]_(History!vars)
  BY StepShows
<1>5. Init => HistInv /\ RefInv
  BY HistInit, RefInit
<1> QED BY <1>1, <1>2, <1>3, <1>4, <1>5, InitShows, PTL
        DEF Spec, ImplementsTokenHistory, History!Spec
=============================================================================
