----------------------------- MODULE Attribution -----------------------------
(***************************************************************************)
(* The authorship algorithm of crates/wikiwho-attribute: one Article fed   *)
(* with revisions through Article::analyse_revision (pipeline.rs), the     *)
(* three-level matching cascade it runs (cascade.rs) and the inbound /     *)
(* outbound recorder.                                                      *)
(*                                                                         *)
(* One call of analyse_revision is a sequence of actions, pc naming the    *)
(* loop the call is in.  The data are abstracted to what matching looks    *)
(* at: a paragraph or sentence hash is a value of ParagraphHash or         *)
(* SentenceHash (md5 is taken to be collision-free), a text is a value of  *)
(* Text, and split_paragraphs, split_sentences and split_tokens are        *)
(* functions on them.  The arenas are sequences, an id is a position.      *)
(*                                                                         *)
(* A bucket map together with its ordered list of hashes                   *)
(* (Revision.paragraphs + ordered_paragraphs, Paragraph.sentences +        *)
(* ordered_sentences) is one sequence of ids in document order: the bucket *)
(* of a hash is the subsequence with that hash, since every insertion      *)
(* pushes on both.  The same holds of paragraphs_ht and sentences_ht.      *)
(***************************************************************************)
EXTENDS Integers, Sequences, FiniteSets, SequencesExt

CONSTANTS
  Token,                \* token values
  SentenceHash,         \* hashes of normalised sentences
  ParagraphHash,        \* hashes of trimmed paragraphs
  Text,                 \* revision texts, standing for their sha1 too
  NoText,               \* the text of the default Revision
  split_tokens,         \* SentenceHash  -> its tokens
  split_sentences,      \* ParagraphHash -> its non-empty sentences
  split_paragraphs,     \* Text -> its non-empty paragraphs
  text_len,             \* Text -> its length in codepoints
  REMOVE,               \* structural tokens avg_word_freq leaves out
  TOKEN_DENSITY_LIMIT, PREVIOUS_LENGTH, CURR_LENGTH,
  Transcripts(_, _),    \* the transcripts a diff of two token lists may be
  MaxRevisions          \* bound: revisions fed to the article

ASSUME SplitAssumption ==
  /\ split_tokens \in [SentenceHash -> Seq(Token)]
  /\ \A s \in SentenceHash : split_tokens[s] # << >>
  /\ split_sentences \in [ParagraphHash -> Seq(SentenceHash)]
  /\ split_paragraphs \in [Text -> Seq(ParagraphHash)]

ASSUME BoundAssumption ==
  /\ text_len \in [Text -> Nat]
  /\ MaxRevisions \in Nat
  /\ NoText \notin Text

VARIABLES
  \* ---- the Article ----
  words, sentences, paragraphs,        \* arenas
  paragraphs_ht, sentences_ht,         \* cross-revision hash tables
  revisions, ordered_revisions, last_good_rev_id,
  spam_ids, spam_hashes,
  \* ---- the call in progress ----
  pc,                                  \* the loop analyse_revision is in
  rev_id, text,                        \* its input
  curr,                                \* revision_curr's paragraphs so far
  matchedP, matchedS, matchedT,        \* MatchedSets: paragraphs, sentences, tokens
  matched_paragraphs_prev, unmatched_paragraphs_prev, unmatched_paragraphs_curr,
  matched_sentences_prev, unmatched_sentences_prev, unmatched_sentences_curr,
  diff, consumed,                      \* transcript entries; the positions used up
  todo, pos                            \* what the current loop has left; its cursor

arenas      == <<words, sentences, paragraphs>>
store       == <<paragraphs_ht, sentences_ht, revisions, ordered_revisions,
                 last_good_rev_id>>
spam        == <<spam_ids, spam_hashes>>
input       == <<rev_id, text>>
matchedSets == <<matchedP, matchedS, matchedT>>
paraLists   == <<matched_paragraphs_prev, unmatched_paragraphs_prev,
                 unmatched_paragraphs_curr>>
sentLists   == <<matched_sentences_prev, unmatched_sentences_prev,
                 unmatched_sentences_curr>>
transcript  == <<diff, consumed>>
loop        == <<todo, pos>>

vars == <<words, sentences, paragraphs, paragraphs_ht, sentences_ht, revisions,
          ordered_revisions, last_good_rev_id, spam_ids, spam_hashes, pc,
          rev_id, text, curr, matchedP, matchedS, matchedT,
          matched_paragraphs_prev, unmatched_paragraphs_prev,
          unmatched_paragraphs_curr, matched_sentences_prev,
          unmatched_sentences_prev, unmatched_sentences_curr, diff, consumed,
          todo, pos>>

RevId == 0 .. MaxRevisions

Word      == [value : Token, origin_rev_id : RevId, last_rev_id : RevId,
              inbound : Seq(RevId), outbound : Seq(RevId)]
Sentence  == [hash_value : SentenceHash, words : Seq(Nat)]
Paragraph == [hash_value : ParagraphHash, sentences : Seq(Nat)]
Revision  == [id : RevId, text : Text \cup {NoText}, paragraphs : Seq(Nat)]
DiffEntry == [kind : {"Keep", "Delete", "Insert"}, value : Token]

DefaultRevision == [id |-> 0, text |-> NoText, paragraphs |-> << >>]

(* revision_prev: the last good revision, or the default one. *)
revision_prev == revisions[last_good_rev_id]
-----------------------------------------------------------------------------
(* The ids in use, and those a list names. *)
Ids(seq) == { seq[i] : i \in DOMAIN seq }
Pids == 1 .. Len(paragraphs)
Sids == 1 .. Len(sentences)
Tids == 1 .. Len(words)

(* The rows a bucket scan goes through, and the order of its places.       *)
Places(rows) == UNION { {i} \X DOMAIN rows[i] : i \in DOMAIN rows }
At(rows, c)  == rows[c[1]][c[2]]
Before(c, d) == c[1] < d[1] \/ (c[1] = d[1] /\ c[2] < d[2])

PlacesBefore(rows, c) == { d \in Places(rows) : Before(d, c) }

(* The first place of rows that holds a member of S. *)
IsFirst(rows, c, S) ==
  /\ At(rows, c) \in S
  /\ \A d \in PlacesBefore(rows, c) : At(rows, d) \notin S

SentenceTokens(s)  == { sentences[s].words[k] : k \in DOMAIN sentences[s].words }
ParagraphSentences(p) == { paragraphs[p].sentences[j] : j \in DOMAIN paragraphs[p].sentences }
ParagraphTokens(p) == UNION { SentenceTokens(s) : s \in ParagraphSentences(p) }

(* check_paragraph_words_status / check_sentence_words_status on the words *)
(* of a candidate: none matched yet, and all matched already.              *)
SomeUnmatched(W) == ~ (W \subseteq matchedT)      \* seeded fault of NoneMatched
NoneMatched(W) == W \cap matchedT = {}
AllMatched(W)  == W \subseteq matchedT

(* length_shrink_is_vandalism: (curr - prev) / prev <= -0.40 in integers.  *)
length_shrink_is_vandalism(prevLen, currLen, move) ==
  /\ ~ move
  /\ prevLen > PREVIOUS_LENGTH
  /\ currLen < CURR_LENGTH
  /\ 5 * (prevLen - currLen) >= 2 * prevLen

LengthOf(t) == IF t = NoText THEN 0 ELSE text_len[t]

(* The tokens of the unmatched current sentences, in document order.       *)
text_curr == FlattenSeq([i \in DOMAIN unmatched_sentences_curr |->
                split_tokens[sentences[unmatched_sentences_curr[i]].hash_value]])

(* avg_word_freq(toks) > TOKEN_DENSITY_LIMIT *)
TooDense(toks) ==
  LET counted == { i \in DOMAIN toks : toks[i] \notin REMOVE }
  IN  Cardinality(counted) >
        TOKEN_DENSITY_LIMIT * Cardinality({ toks[i] : i \in counted })

(* unmatched_words_prev as the rows of words of the unmatched previous     *)
(* sentences; text_prev, the values of those not matched.                  *)
PrevRows == [i \in DOMAIN unmatched_sentences_prev |->
               sentences[unmatched_sentences_prev[i]].words]
text_prev ==
  LET left == SelectSeq(FlattenSeq(PrevRows), LAMBDA w : w \notin matchedT)
  IN  [i \in DOMAIN left |-> words[left[i]].value]
-----------------------------------------------------------------------------
Init ==
  /\ words = << >> /\ sentences = << >> /\ paragraphs = << >>
  /\ paragraphs_ht = << >> /\ sentences_ht = << >>
  /\ revisions = [r \in RevId |-> DefaultRevision]
  /\ ordered_revisions = << >> /\ last_good_rev_id = 0
  /\ spam_ids = << >> /\ spam_hashes = {}
  /\ pc = "idle" /\ rev_id = 0 /\ text = NoText /\ curr = << >>
  /\ matchedP = {} /\ matchedS = {} /\ matchedT = {}
  /\ matched_paragraphs_prev = {} /\ unmatched_paragraphs_prev = << >>
  /\ unmatched_paragraphs_curr = << >>
  /\ matched_sentences_prev = {} /\ unmatched_sentences_prev = << >>
  /\ unmatched_sentences_curr = << >>
  /\ diff = << >> /\ consumed = {}
  /\ todo = << >> /\ pos = 1

(* A revision arrives; ids are given in the order of the feed. *)
Arrives ==
  /\ pc = "idle"
  /\ rev_id < MaxRevisions
  /\ rev_id' = rev_id + 1

(* Step 1: the text is one already flagged as spam. *)
HashMatch(t) ==
  /\ Arrives
  /\ t \in spam_hashes
  /\ spam_ids' = Append(spam_ids, rev_id')
  /\ UNCHANGED <<spam_hashes, arenas, store, pc, text, curr, matchedSets,
                 paraLists, sentLists, transcript, loop>>

(* Step 2: a long article became short. *)
LengthShrink(t, move) ==
  /\ Arrives
  /\ t \notin spam_hashes
  /\ length_shrink_is_vandalism(LengthOf(revision_prev.text), LengthOf(t), move)
  /\ spam_ids' = Append(spam_ids, rev_id')
  /\ spam_hashes' = spam_hashes \cup {t}
  /\ UNCHANGED <<arenas, store, pc, text, curr, matchedSets, paraLists,
                 sentLists, transcript, loop>>

(* Step 3: the in-flight revision and the cascade's empty matched sets. *)
BeginCascade(t, move) ==
  /\ Arrives
  /\ t \notin spam_hashes
  /\ ~ length_shrink_is_vandalism(LengthOf(revision_prev.text), LengthOf(t), move)
  /\ pc' = "paragraphs" /\ text' = t /\ curr' = << >>
  /\ matchedP' = {} /\ matchedS' = {} /\ matchedT' = {}
  /\ matched_paragraphs_prev' = {} /\ unmatched_paragraphs_prev' = << >>
  /\ unmatched_paragraphs_curr' = << >>
  /\ matched_sentences_prev' = {} /\ unmatched_sentences_prev' = << >>
  /\ unmatched_sentences_curr' = << >>
  /\ diff' = << >> /\ consumed' = {} /\ todo' = << >> /\ pos' = 1
  /\ UNCHANGED <<arenas, store, spam>>
-----------------------------------------------------------------------------
(* analyse_paragraphs_in_revision *)

NextParagraphHash == split_paragraphs[text][Len(curr) + 1]

(* The previous revision's bucket is scanned before the global one. *)
ParagraphRows == <<revision_prev.paragraphs, paragraphs_ht>>

OpenParagraphs(h) == { p \in Pids : paragraphs[p].hash_value = h } \ matchedP
FreeParagraphs(h) == { p \in OpenParagraphs(h) : NoneMatched(ParagraphTokens(p)) }

(* Of the candidates at places D, those whose words are all matched already *)
(* are consumed.                                                            *)
SpentParagraphs(h, D) ==
  { p \in OpenParagraphs(h) \ FreeParagraphs(h) :
      AllMatched(ParagraphTokens(p)) /\ \E d \in D : At(ParagraphRows, d) = p }

(* record_full_paragraph_match + add_paragraph_to_revision *)
ReuseParagraph ==
  /\ pc = "paragraphs" /\ Len(curr) < Len(split_paragraphs[text])
  /\ \E c \in Places(ParagraphRows) :
       LET h == NextParagraphHash
           p == At(ParagraphRows, c)
           passed == SpentParagraphs(h, PlacesBefore(ParagraphRows, c))
       IN  /\ IsFirst(ParagraphRows, c, FreeParagraphs(h))
           /\ matchedP' = matchedP \cup passed \cup {p}
           /\ matched_paragraphs_prev' = matched_paragraphs_prev \cup passed \cup {p}
           /\ matchedS' = matchedS \cup ParagraphSentences(p)
           /\ matchedT' = matchedT \cup ParagraphTokens(p)
           /\ curr' = Append(curr, p)
  /\ UNCHANGED <<arenas, store, spam, pc, input, unmatched_paragraphs_prev,
                 unmatched_paragraphs_curr, sentLists, transcript, loop>>

(* No candidate is free: a new paragraph is allocated. *)
AllocParagraph ==
  /\ pc = "paragraphs" /\ Len(curr) < Len(split_paragraphs[text])
  /\ LET h == NextParagraphHash
         p == Len(paragraphs) + 1
         passed == SpentParagraphs(h, Places(ParagraphRows))
     IN  /\ \A c \in Places(ParagraphRows) : At(ParagraphRows, c) \notin FreeParagraphs(h)
         /\ paragraphs' = Append(paragraphs, [hash_value |-> h, sentences |-> << >>])
         /\ matchedP' = matchedP \cup passed
         /\ matched_paragraphs_prev' = matched_paragraphs_prev \cup passed
         /\ unmatched_paragraphs_curr' = Append(unmatched_paragraphs_curr, p)
         /\ curr' = Append(curr, p)
  /\ UNCHANGED <<words, sentences, store, spam, pc, input, matchedS, matchedT,
                 unmatched_paragraphs_prev, sentLists, transcript, loop>>

EndParagraphs ==
  /\ pc = "paragraphs" /\ Len(curr) = Len(split_paragraphs[text])
  /\ pc' = "paragraphs_tail"
  /\ todo' = revision_prev.paragraphs
  /\ UNCHANGED <<arenas, store, spam, input, curr, matchedSets, paraLists,
                 sentLists, transcript, pos>>

(* The tail loop: what the previous revision has and the scan left open. *)
TailParagraph ==
  /\ pc = "paragraphs_tail" /\ todo # << >>
  /\ unmatched_paragraphs_prev' =
       IF Head(todo) \in matchedP THEN unmatched_paragraphs_prev
       ELSE Append(unmatched_paragraphs_prev, Head(todo))
  /\ todo' = Tail(todo)
  /\ UNCHANGED <<arenas, store, spam, pc, input, curr, matchedSets,
                 matched_paragraphs_prev, unmatched_paragraphs_curr, sentLists,
                 transcript, pos>>

(* Every paragraph matched: the sentence and word levels are skipped. *)
EndParagraphsTail ==
  /\ pc = "paragraphs_tail" /\ todo = << >>
  /\ pc' = IF unmatched_paragraphs_curr = << >> THEN "record" ELSE "sentences"
  /\ todo' = unmatched_paragraphs_curr
  /\ UNCHANGED <<arenas, store, spam, input, curr, matchedSets, paraLists,
                 sentLists, transcript, pos>>
-----------------------------------------------------------------------------
(* analyse_sentences_in_paragraphs *)

CurrentParagraph == paragraphs[Head(todo)]
MoreSentences == Len(CurrentParagraph.sentences) <
                   Len(split_sentences[CurrentParagraph.hash_value])
NextSentenceHash == split_sentences[CurrentParagraph.hash_value]
                      [Len(CurrentParagraph.sentences) + 1]

(* The unmatched previous paragraphs in order, then the global bucket. *)
SentenceRows ==
  [i \in 1 .. Len(unmatched_paragraphs_prev) + 1 |->
     IF i <= Len(unmatched_paragraphs_prev)
     THEN paragraphs[unmatched_paragraphs_prev[i]].sentences
     ELSE sentences_ht]

OpenSentences(h) == { s \in Sids : sentences[s].hash_value = h } \ matchedS
FreeSentences(h) == { s \in OpenSentences(h) : NoneMatched(SentenceTokens(s)) }
SpentSentences(h, D) ==
  { s \in OpenSentences(h) \ FreeSentences(h) :
      AllMatched(SentenceTokens(s)) /\ \E d \in D : At(SentenceRows, d) = s }

(* All three branches end by attaching the sentence to the paragraph. *)
Attach(s) ==
  paragraphs' = [paragraphs EXCEPT ![Head(todo)].sentences = Append(@, s)]

(* record_full_sentence_match *)
ReuseSentence ==
  /\ pc = "sentences" /\ todo # << >> /\ MoreSentences
  /\ \E c \in Places(SentenceRows) :
       LET h == NextSentenceHash
           s == At(SentenceRows, c)
           passed == SpentSentences(h, PlacesBefore(SentenceRows, c))
       IN  /\ IsFirst(SentenceRows, c, FreeSentences(h))
           /\ matchedS' = matchedS \cup passed \cup {s}
           /\ matched_sentences_prev' = matched_sentences_prev \cup passed \cup {s}
           /\ matchedT' = matchedT \cup SentenceTokens(s)
           /\ Attach(s)
  /\ UNCHANGED <<words, sentences, store, spam, pc, input, curr, matchedP,
                 paraLists, unmatched_sentences_prev, unmatched_sentences_curr,
                 transcript, loop>>

AllocSentence ==
  /\ pc = "sentences" /\ todo # << >> /\ MoreSentences
  /\ LET h == NextSentenceHash
         s == Len(sentences) + 1
         passed == SpentSentences(h, Places(SentenceRows))
     IN  /\ \A c \in Places(SentenceRows) : At(SentenceRows, c) \notin FreeSentences(h)
         /\ sentences' = Append(sentences, [hash_value |-> h, words |-> << >>])
         /\ matchedS' = matchedS \cup passed
         /\ matched_sentences_prev' = matched_sentences_prev \cup passed
         /\ unmatched_sentences_curr' = Append(unmatched_sentences_curr, s)
         /\ Attach(s)
  /\ UNCHANGED <<words, store, spam, pc, input, curr, matchedP, matchedT,
                 paraLists, unmatched_sentences_prev, transcript, loop>>

NextParagraph ==
  /\ pc = "sentences" /\ todo # << >> /\ ~ MoreSentences
  /\ todo' = Tail(todo)
  /\ UNCHANGED <<arenas, store, spam, pc, input, curr, matchedSets, paraLists,
                 sentLists, transcript, pos>>

EndSentences ==
  /\ pc = "sentences" /\ todo = << >>
  /\ pc' = "sentences_tail"
  /\ todo' = unmatched_paragraphs_prev /\ pos' = 1
  /\ UNCHANGED <<arenas, store, spam, input, curr, matchedSets, paraLists,
                 sentLists, transcript>>

(* The tail loop: a sentence left open in a previous paragraph goes on     *)
(* both lists and into the matched set.                                    *)
TailSentence ==
  /\ pc = "sentences_tail" /\ todo # << >>
  /\ pos <= Len(CurrentParagraph.sentences)
  /\ LET s == CurrentParagraph.sentences[pos]
     IN  IF s \in matchedS
         THEN UNCHANGED <<matchedS, matched_sentences_prev, unmatched_sentences_prev>>
         ELSE /\ unmatched_sentences_prev' = Append(unmatched_sentences_prev, s)
              /\ matchedS' = matchedS \cup {s}
              /\ matched_sentences_prev' = matched_sentences_prev \cup {s}
  /\ pos' = pos + 1
  /\ UNCHANGED <<arenas, store, spam, pc, input, curr, matchedP, matchedT,
                 paraLists, unmatched_sentences_curr, transcript, todo>>

NextTailParagraph ==
  /\ pc = "sentences_tail" /\ todo # << >>
  /\ pos > Len(CurrentParagraph.sentences)
  /\ todo' = Tail(todo) /\ pos' = 1
  /\ UNCHANGED <<arenas, store, spam, pc, input, curr, matchedSets, paraLists,
                 sentLists, transcript>>

(* No new sentence: the word level is not called. *)
EndSentencesTail ==
  /\ pc = "sentences_tail" /\ todo = << >>
  /\ pc' = IF unmatched_sentences_curr = << >> THEN "record" ELSE "gate"
  /\ UNCHANGED <<arenas, store, spam, input, curr, matchedSets, paraLists,
                 sentLists, transcript, loop>>
-----------------------------------------------------------------------------
(* analyse_words_in_sentences.  possible_vandalism is always set here: the *)
(* sentence level runs only when some current paragraph is unmatched.      *)

(* Seeded faults of DenseVandalism: the deletions recorded before the gate  *)
(* is looked at; the roll-back that forgets the hash tables.                *)
DenseVandalismLate ==
  /\ pc = "gate"
  /\ TooDense(text_curr)
  /\ spam_ids' = Append(spam_ids, rev_id)
  /\ spam_hashes' = spam_hashes \cup {text}
  /\ words' = [w \in DOMAIN words |->
                 IF w \in matchedT THEN words[w]
                 ELSE [words[w] EXCEPT !.outbound = Append(@, rev_id)]]
  /\ pc' = "idle"
  /\ UNCHANGED <<sentences, paragraphs, store, input, curr, matchedSets,
                 paraLists, sentLists, transcript, loop>>
DenseVandalismKeepsTables ==
  /\ pc = "gate"
  /\ TooDense(text_curr)
  /\ spam_ids' = Append(spam_ids, rev_id)
  /\ spam_hashes' = spam_hashes \cup {text}
  /\ paragraphs_ht' = paragraphs_ht \o unmatched_paragraphs_curr
  /\ pc' = "idle"
  /\ UNCHANGED <<arenas, sentences_ht, revisions, ordered_revisions,
                 last_good_rev_id, input, curr, matchedSets, paraLists,
                 sentLists, transcript, loop>>

(* The token-density gate, and the roll-back in analyse_revision. *)
DenseVandalism ==
  /\ pc = "gate"
  /\ TooDense(text_curr)
  /\ spam_ids' = Append(spam_ids, rev_id)
  /\ spam_hashes' = spam_hashes \cup {text}
  /\ pc' = "idle"
  /\ UNCHANGED <<arenas, store, input, curr, matchedSets, paraLists, sentLists,
                 transcript, loop>>

(* Insertion-only path: no previous word is left, every word is new, which *)
(* is the word loop over an empty transcript.                              *)
InsertionOnly ==
  /\ pc = "gate"
  /\ ~ TooDense(text_curr)
  /\ text_prev = << >>
  /\ pc' = "words" /\ todo' = unmatched_sentences_curr /\ pos' = 1
  /\ UNCHANGED <<arenas, store, spam, input, curr, matchedSets, paraLists,
                 sentLists, transcript>>

(* The general case: the diff of the previous and the current words. *)
StartDiff ==
  /\ pc = "gate"
  /\ ~ TooDense(text_curr)
  /\ text_prev # << >>
  /\ \E d \in Transcripts(text_prev, text_curr) :
       d \in Seq(DiffEntry) /\ diff' = d
  /\ consumed' = {}
  /\ pc' = "words" /\ todo' = unmatched_sentences_curr /\ pos' = 1
  /\ UNCHANGED <<arenas, store, spam, input, curr, matchedSets, paraLists,
                 sentLists>>

CurrentSentence == sentences[Head(todo)]
MoreWords == Len(CurrentSentence.words) < Len(split_tokens[CurrentSentence.hash_value])
NextWord  == split_tokens[CurrentSentence.hash_value][Len(CurrentSentence.words) + 1]

(* find_unmatched_prev: the first previous word of that value still free.  *)
AnyFreeWord(v) == Tids \ matchedT                 \* seeded fault of FreeWords
FreeWords(v) == { w \in Tids \ matchedT : words[w].value = v }
HasFreeWord(v) == \E c \in Places(PrevRows) : At(PrevRows, c) \in FreeWords(v)
find_unmatched_prev(v, c) == IsFirst(PrevRows, c, FreeWords(v))

(* The next transcript entry the scan for word v stops at: a keep or delete *)
(* entry with no free previous word is passed over.                         *)
IsEntryReused(i, v) ==                           \* seeded fault of IsEntry
  /\ i >= pos /\ diff[i].value = v
  /\ diff[i].kind = "Insert" \/ HasFreeWord(v)
IsEntry(i, v) ==
  /\ i >= pos /\ i \notin consumed /\ diff[i].value = v
  /\ diff[i].kind = "Insert" \/ HasFreeWord(v)
IsNextEntry(i, v) ==
  IsEntry(i, v) /\ \A j \in DOMAIN diff : j < i => ~ IsEntry(j, v)

PushWordOffByOne(w) ==                           \* seeded fault of PushWord
  sentences' = [sentences EXCEPT ![Head(todo)].words = Append(@, w + 1)]
PushWord(w) == sentences' = [sentences EXCEPT ![Head(todo)].words = Append(@, w)]

(* alloc_word in the current revision, pushed on the current sentence. *)
AllocWord(v) ==
  /\ words' = Append(words, [value |-> v, origin_rev_id |-> rev_id,
                             last_rev_id |-> rev_id, inbound |-> << >>,
                             outbound |-> << >>])
  /\ PushWord(Len(words) + 1)

InWordLoop == pc = "words" /\ todo # << >> /\ MoreWords

KeepEntry(i) ==
  /\ InWordLoop
  /\ IsNextEntry(i, NextWord) /\ diff[i].kind = "Keep"
  /\ \E c \in Places(PrevRows) :
       /\ find_unmatched_prev(NextWord, c)
       /\ matchedT' = matchedT \cup {At(PrevRows, c)}
       /\ PushWord(At(PrevRows, c))
  /\ consumed' = consumed \cup {i}
  /\ pos' = 1
  /\ UNCHANGED <<words, paragraphs, store, spam, pc, input, curr, matchedP,
                 matchedS, paraLists, sentLists, diff, todo>>

(* The deleted word is used up, and the scan goes on for the current one. *)
DeleteEntry(i) ==
  /\ InWordLoop
  /\ IsNextEntry(i, NextWord) /\ diff[i].kind = "Delete"
  /\ \E c \in Places(PrevRows) :
       /\ find_unmatched_prev(NextWord, c)
       /\ matchedT' = matchedT \cup {At(PrevRows, c)}
       /\ words' = [words EXCEPT ![At(PrevRows, c)].outbound = Append(@, rev_id)]
  /\ consumed' = consumed \cup {i}
  /\ pos' = i + 1
  /\ UNCHANGED <<sentences, paragraphs, store, spam, pc, input, curr, matchedP,
                 matchedS, paraLists, sentLists, diff, todo>>

InsertEntry(i) ==
  /\ InWordLoop
  /\ IsNextEntry(i, NextWord) /\ diff[i].kind = "Insert"
  /\ AllocWord(NextWord)
  /\ consumed' = consumed \cup {i}
  /\ pos' = 1
  /\ UNCHANGED <<paragraphs, store, spam, pc, input, curr, matchedSets,
                 paraLists, sentLists, diff, todo>>

(* No entry of the transcript served the word. *)
FallbackWord ==
  /\ InWordLoop
  /\ \A i \in DOMAIN diff : ~ IsEntry(i, NextWord)
  /\ AllocWord(NextWord)
  /\ pos' = 1
  /\ UNCHANGED <<paragraphs, store, spam, pc, input, curr, matchedSets,
                 paraLists, sentLists, transcript, todo>>

NextSentence ==
  /\ pc = "words" /\ todo # << >> /\ ~ MoreWords
  /\ todo' = Tail(todo) /\ pos' = 1
  /\ UNCHANGED <<arenas, store, spam, pc, input, curr, matchedSets, paraLists,
                 sentLists, transcript>>

EndWords ==
  /\ pc = "words" /\ todo = << >>
  /\ pc' = "record"
  /\ UNCHANGED <<arenas, store, spam, input, curr, matchedSets, paraLists,
                 sentLists, transcript, loop>>
-----------------------------------------------------------------------------
(* record_inbound_outbound *)

(* The outbound pass over one sentence: every occurrence of a word that is *)
(* not matched pushes the revision once.                                   *)
OccurrencesIn(s, w) == { k \in DOMAIN sentences[s].words : sentences[s].words[k] = w }
PushOutbound(s) ==
  words' = [w \in DOMAIN words |->
    IF w \in matchedT THEN words[w]
    ELSE [words[w] EXCEPT !.outbound =
            @ \o [n \in 1 .. Cardinality(OccurrencesIn(s, w)) |-> rev_id]]]

BeginRecord ==
  /\ pc = "record"
  /\ pc' = "outbound"
  /\ todo' = unmatched_sentences_prev
  /\ UNCHANGED <<arenas, store, spam, input, curr, matchedSets, paraLists,
                 sentLists, transcript, pos>>

OutboundSentence ==
  /\ pc = "outbound" /\ todo # << >>
  /\ PushOutbound(Head(todo))
  /\ todo' = Tail(todo)
  /\ UNCHANGED <<sentences, paragraphs, store, spam, pc, input, curr,
                 matchedSets, paraLists, sentLists, transcript, pos>>

(* The second pass walks the unmatched previous paragraphs, and only when  *)
(* the sentence level left nothing unmatched.                              *)
NoSecondPass == << >>                            \* seeded fault of SecondPass
SecondPass == IF unmatched_sentences_prev = << >> THEN unmatched_paragraphs_prev ELSE << >>

EndOutboundSentences ==
  /\ pc = "outbound" /\ todo = << >>
  /\ pc' = "outbound_paragraphs"
  /\ todo' = SecondPass /\ pos' = 1
  /\ UNCHANGED <<arenas, store, spam, input, curr, matchedSets, paraLists,
                 sentLists, transcript>>

OutboundParagraph ==
  /\ pc = "outbound_paragraphs" /\ todo # << >>
  /\ IF pos <= Len(CurrentParagraph.sentences)
     THEN /\ PushOutbound(CurrentParagraph.sentences[pos])
          /\ pos' = pos + 1 /\ UNCHANGED todo
     ELSE todo' = Tail(todo) /\ pos' = 1 /\ UNCHANGED words
  /\ UNCHANGED <<sentences, paragraphs, store, spam, pc, input, curr,
                 matchedSets, paraLists, sentLists, transcript>>

(* The inbound passes meet these words; the processed set makes each count *)
(* once, whatever the order.                                               *)
InboundTokens ==
  (UNION { ParagraphTokens(p) : p \in matched_paragraphs_prev })
    \cup (UNION { SentenceTokens(s) : s \in matched_sentences_prev })

(* update_inbound_and_last_rev_id: a word deleted in this revision is left. *)
Survives(w) ==
  /\ w \in matchedT
  /\ \/ words[w].outbound = << >>
     \/ words[w].outbound[Len(words[w].outbound)] # rev_id

UpdateInboundReattributes(w) ==                  \* seeded fault of UpdateInbound
  IF words[w].last_rev_id # revision_prev.id
  THEN [words[w] EXCEPT !.origin_rev_id = rev_id, !.last_rev_id = rev_id]
  ELSE [words[w] EXCEPT !.last_rev_id = rev_id]
UpdateInbound(w) ==
  IF words[w].last_rev_id # revision_prev.id
  THEN [words[w] EXCEPT !.inbound = Append(@, rev_id), !.last_rev_id = rev_id]
  ELSE [words[w] EXCEPT !.last_rev_id = rev_id]

RecordInbound ==
  /\ pc = "outbound_paragraphs" /\ todo = << >>
  /\ words' = [w \in DOMAIN words |->
                 IF w \in InboundTokens /\ Survives(w) THEN UpdateInbound(w)
                 ELSE words[w]]
  /\ pc' = "commit"
  /\ UNCHANGED <<sentences, paragraphs, store, spam, input, curr, matchedSets,
                 paraLists, sentLists, transcript, loop>>

(* Steps 6 and 7 of analyse_revision: the hash tables, then the commit. *)
Commit ==
  /\ pc = "commit"
  /\ paragraphs_ht' = paragraphs_ht \o unmatched_paragraphs_curr
  /\ sentences_ht' = sentences_ht \o unmatched_sentences_curr
  /\ revisions' = [revisions EXCEPT ![rev_id] =
                     [id |-> rev_id, text |-> text, paragraphs |-> curr]]
  /\ ordered_revisions' = Append(ordered_revisions, rev_id)
  /\ last_good_rev_id' = rev_id
  /\ pc' = "idle"
  /\ UNCHANGED <<arenas, spam, input, curr, matchedSets, paraLists, sentLists,
                 transcript, loop>>
-----------------------------------------------------------------------------
(* The steps of a call that is running; they need no input. *)
Step ==
  \/ ReuseParagraph \/ AllocParagraph \/ EndParagraphs
  \/ TailParagraph \/ EndParagraphsTail
  \/ ReuseSentence \/ AllocSentence \/ NextParagraph \/ EndSentences
  \/ TailSentence \/ NextTailParagraph \/ EndSentencesTail
  \/ DenseVandalism \/ InsertionOnly \/ StartDiff
  \/ \E i \in DOMAIN diff :
       KeepEntry(i) \/ DeleteEntry(i) \/ InsertEntry(i)
  \/ FallbackWord \/ NextSentence \/ EndWords
  \/ BeginRecord \/ OutboundSentence \/ EndOutboundSentences
  \/ OutboundParagraph \/ RecordInbound \/ Commit

Next ==
  \/ \E t \in Text : HashMatch(t)
  \/ \E t \in Text, move \in BOOLEAN : LengthShrink(t, move) \/ BeginCascade(t, move)
  \/ Step

Spec == Init /\ [][Next]_vars

-----------------------------------------------------------------------------
(* Properties.                                                             *)

Phases == {"idle", "paragraphs", "paragraphs_tail", "sentences",
           "sentences_tail", "gate", "words", "record", "outbound",
           "outbound_paragraphs", "commit"}

(* The type of every variable: ids point into the arena they name. *)
ArenasOK ==
  /\ words \in Seq(Word)
  /\ sentences \in Seq(Sentence)
  /\ \A s \in Sids : sentences[s].words \in Seq(Tids)
  /\ paragraphs \in Seq(Paragraph)
  /\ \A p \in Pids : paragraphs[p].sentences \in Seq(Sids)
StoreOK ==
  /\ paragraphs_ht \in Seq(Pids) /\ sentences_ht \in Seq(Sids)
  /\ revisions \in [RevId -> Revision]
  /\ \A r \in RevId : revisions[r].paragraphs \in Seq(Pids)
  /\ ordered_revisions \in Seq(RevId) /\ last_good_rev_id \in RevId
  /\ spam_ids \in Seq(RevId) /\ spam_hashes \subseteq Text
InputOK ==
  /\ pc \in Phases /\ rev_id \in RevId
  /\ text \in Text \cup {NoText} /\ (pc # "idle" => text \in Text)
  /\ curr \in Seq(Pids)
ListsOK ==
  /\ matchedP \subseteq Pids /\ matchedS \subseteq Sids /\ matchedT \subseteq Tids
  /\ matched_paragraphs_prev \subseteq Pids
  /\ unmatched_paragraphs_prev \in Seq(Pids) /\ unmatched_paragraphs_curr \in Seq(Pids)
  /\ matched_sentences_prev \subseteq Sids
  /\ unmatched_sentences_prev \in Seq(Sids) /\ unmatched_sentences_curr \in Seq(Sids)
LoopOK ==
  /\ diff \in Seq(DiffEntry) /\ consumed \subseteq DOMAIN diff
  /\ pos \in Nat \ {0}
  /\ todo \in Seq(Nat)
  /\ (pc \in {"paragraphs_tail", "sentences", "sentences_tail",
              "outbound_paragraphs"} => todo \in Seq(Pids))
  /\ (pc \in {"words", "outbound"} => todo \in Seq(Sids))
TypeOK == ArenasOK /\ StoreOK /\ InputOK /\ ListsOK /\ LoopOK

Stored == Ids(ordered_revisions)

(* The places of a revision's tokens: paragraph, sentence and word.        *)
TokenPlaces(paras) ==
  UNION { UNION { { <<i, j, k>> :
            k \in DOMAIN sentences[paragraphs[paras[i]].sentences[j]].words } :
              j \in DOMAIN paragraphs[paras[i]].sentences } :
                i \in DOMAIN paras }
TokenAt(paras, o) == sentences[paragraphs[paras[o[1]]].sentences[o[2]]].words[o[3]]

Present(w, r) == \E p \in Ids(revisions[r].paragraphs) : w \in ParagraphTokens(p)

(* iter_rev_tokens of a stored revision. *)
iter_rev_tokens(r) ==
  FlattenSeq([i \in DOMAIN revisions[r].paragraphs |->
    LET p == paragraphs[revisions[r].paragraphs[i]]
    IN  FlattenSeq([j \in DOMAIN p.sentences |-> sentences[p.sentences[j]].words])])

(* The values of a text's tokens, in order.                                *)
spelling_of(t) ==
  FlattenSeq([i \in DOMAIN split_paragraphs[t] |->
    LET h == split_paragraphs[t][i]
    IN  FlattenSeq([j \in DOMAIN split_sentences[h] |-> split_tokens[split_sentences[h][j]]])])

(* No token stands at two places of a stored revision: the matched flags   *)
(* of the three levels never let one previous word serve two current ones. *)
TokensDistinct ==
  pc = "idle" => \A r \in Stored : \A o1, o2 \in TokenPlaces(revisions[r].paragraphs) :
    TokenAt(revisions[r].paragraphs, o1) = TokenAt(revisions[r].paragraphs, o2)
      => o1 = o2

(* The tokens of a stored revision spell the text it was given, whichever  *)
(* paragraphs, sentences and words were reused.                            *)
ReconstructsText ==
  pc = "idle" => \A r \in Stored :
    LET tokens == iter_rev_tokens(r)
    IN  [i \in DOMAIN tokens |-> words[tokens[i]].value] = spelling_of(revisions[r].text)

(* A token's history: how often it came in and went out up to revision r.  *)
Ins(w, r)  == Cardinality({ n \in DOMAIN words[w].inbound : words[w].inbound[n] <= r })
                + (IF words[w].origin_rev_id <= r THEN 1 ELSE 0)
Outs(w, r) == Cardinality({ n \in DOMAIN words[w].outbound : words[w].outbound[n] <= r })

(* Between calls, origin, inbound and outbound tell for every stored       *)
(* revision whether the token is in it, and last_rev_id is the last one it *)
(* is in, although the recorder writes them from the matched sets and      *)
(* never looks at the revision's text.                                     *)
HistoryMatchesPresence ==
  pc = "idle" => \A w \in Tids :
    /\ words[w].last_rev_id \in Stored
    /\ \A r \in Stored :
         /\ Ins(w, r) - Outs(w, r) = IF Present(w, r) THEN 1 ELSE 0
         /\ Present(w, r) => r <= words[w].last_rev_id
         /\ r = words[w].last_rev_id => Present(w, r)

(* A revision rolled back as vandalism leaves no trace in any token: the   *)
(* revisions a history names are stored, or the one in progress past the   *)
(* density gate.                                                           *)
Recording == pc \in {"words", "record", "outbound", "outbound_paragraphs", "commit"}
HistoryNames(w) == {words[w].origin_rev_id, words[w].last_rev_id}
                     \cup Ids(words[w].inbound) \cup Ids(words[w].outbound)
NoSpamInHistory ==
  \A w \in Tids :
    HistoryNames(w) \subseteq Stored \cup (IF Recording THEN {rev_id} ELSE {})

(* The hash tables hold each paragraph and sentence of the stored revisions *)
(* once, and nothing that only a rolled-back revision allocated.            *)
HashTablesSound ==
  /\ IsInjective(paragraphs_ht) /\ IsInjective(sentences_ht)
  /\ Ids(paragraphs_ht) = UNION { Ids(revisions[r].paragraphs) : r \in Stored }
  /\ Ids(sentences_ht) = UNION { ParagraphSentences(p) : p \in Ids(paragraphs_ht) }

(* In the word loop, the transcript entries left match what is left to      *)
(* serve: a keep or delete entry for every free previous word, a keep or    *)
(* insert entry for every current word.  So no entry is ever passed over    *)
(* for want of a previous word, and the fallback allocation after the scan  *)
(* serves the insertion-only path alone.                                    *)
Left(kinds, v) == { i \in DOMAIN diff \ consumed : diff[i].kind \in kinds /\ diff[i].value = v }
FreePrev(v) == { c \in Places(PrevRows) : At(PrevRows, c) \in FreeWords(v) }
WordsToServe(v) ==
  { c \in UNION { {i} \X DOMAIN split_tokens[sentences[todo[i]].hash_value] : i \in DOMAIN todo } :
      LET s == sentences[todo[c[1]]]
      IN  c[2] > Len(s.words) /\ split_tokens[s.hash_value][c[2]] = v }
TranscriptServesWords ==
  pc = "words" /\ diff # << >> => \A v \in Token :
    /\ Cardinality(Left({"Keep", "Delete"}, v)) = Cardinality(FreePrev(v))
    /\ Cardinality(Left({"Keep", "Insert"}, v)) = Cardinality(WordsToServe(v))

-----------------------------------------------------------------------------
(* The refinement of TokenHistory.  A call shows when it commits: the words *)
(* it allocates are left out, and so is the event it has recorded, the last *)
(* of its list, before that.                                                *)
StoredOnly(rs) == IF rs # << >> /\ rs[Len(rs)] \notin Stored THEN Front(rs) ELSE rs

abs_accepted == [i \in DOMAIN ordered_revisions |->
                   [id |-> ordered_revisions[i],
                    text |-> revisions[ordered_revisions[i]].text,
                    tokens |-> iter_rev_tokens(ordered_revisions[i])]]
abs_token == [w \in { w \in Tids : words[w].origin_rev_id \in Stored } |->
                [value |-> words[w].value,
                 came  |-> <<words[w].origin_rev_id>> \o StoredOnly(words[w].inbound),
                 went  |-> StoredOnly(words[w].outbound)]]

History == INSTANCE TokenHistory WITH
             Text <- Text, spelling <- [t \in Text |-> spelling_of(t)],
             MaxRevisions <- MaxRevisions,
             accepted <- abs_accepted, refused <- spam_ids, token <- abs_token

(* The attribution implements the history it promises: a revision is       *)
(* accepted whole or refused without a trace, its tokens are distinct and  *)
(* spell its text, each one's events follow from its presence, a null edit *)
(* moves nothing and earlier answers stay.                                 *)
ImplementsTokenHistory == History!Spec
=============================================================================
