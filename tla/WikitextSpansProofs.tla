--------------------------- MODULE WikitextSpansProofs ---------------------------
(***************************************************************************)
(* Proofs about WikitextSpans: for every set of pieces and every length of *)
(* text, the output without its tags is the text (TextPreserved), its      *)
(* spans are balanced (SpansBalanced), and every step of the recursion     *)
(* comes closer to its end (InjectionAdvances).                            *)
(***************************************************************************)
EXTENDS WikitextSpans, DataLemmas
-----------------------------------------------------------------------------
(* Short sequences.                                                        *)
LEMMA ShortSeqs ==
  ASSUME NEW S, NEW x \in S, NEW y \in S
  PROVE  <<x>> \in Seq(S) /\ <<x, y>> \in Seq(S)
OBVIOUS
-----------------------------------------------------------------------------
(* The input.                                                              *)
LEMMA TextType ==
  ASSUME NEW pieces \in Seq(Piece)
  PROVE  TextOf(pieces) \in Seq(STRING) /\ TokensOf(pieces) \in Seq(Piece)
<1>1. DOMAIN pieces = 1 .. Len(pieces) /\ Len(pieces) \in Nat
      /\ \A i \in DOMAIN pieces : pieces[i] \in Piece
  BY LenProperties
<1>2. ASSUME NEW chars \in Seq(STRING) PROVE Substituted(chars) \in Seq(STRING)
  <2> DEFINE a == [i \in DOMAIN chars |->
                     IF chars[i] \in LineBreak THEN REGEX_HELPER_PATTERN ELSE <<chars[i]>>]
  <2>1. DOMAIN chars = 1 .. Len(chars) /\ Len(chars) \in Nat
        /\ \A i \in DOMAIN chars : chars[i] \in STRING
    BY LenProperties
  <2>2. ASSUME NEW i \in DOMAIN chars PROVE a[i] \in Seq(STRING)
    <3>1. chars[i] \in STRING /\ <<chars[i]>> \in Seq(STRING)
      BY <2>1, ShortSeqs
    <3>2. REGEX_HELPER_PATTERN \in Seq(STRING)
      BY SpansAssumption
    <3> QED BY <3>1, <3>2
  <2>3. a \in Seq(Seq(STRING))
    BY <2>1, <2>2
  <2> HIDE DEF a
  <2>4. FlattenSeq(a) \in Seq(STRING)
    BY <2>3, FlattenType
  <2> QED BY <2>4 DEF a, Substituted
<1>3. TextOf(pieces) \in Seq(STRING)
  <2> DEFINE a == [i \in DOMAIN pieces |-> Substituted(pieces[i].chars)]
  <2>1. ASSUME NEW i \in DOMAIN pieces PROVE a[i] \in Seq(STRING)
    <3>1. pieces[i].chars \in Seq(STRING)
      BY <1>1, SpansAssumption
    <3> QED BY <1>2, <3>1
  <2>2. a \in Seq(Seq(STRING))
    BY <1>1, <2>1
  <2> HIDE DEF a
  <2> QED BY <2>2, FlattenType DEF a, TextOf
<1>4. TokensOf(pieces) \in Seq(Piece)
  <2> DEFINE a == [i \in DOMAIN pieces |->
                     IF pieces[i].token # <<>> THEN <<pieces[i]>> ELSE <<>>]
  <2>1. ASSUME NEW i \in DOMAIN pieces PROVE a[i] \in Seq(Piece)
    BY <1>1
  <2>2. a \in Seq(Seq(Piece))
    BY <1>1, <2>1
  <2> HIDE DEF a
  <2> QED BY <2>2, FlattenType DEF a, TokensOf
<1> QED BY <1>3, <1>4

LEMMA ToLowerType ==
  ASSUME NEW s \in Seq(STRING)
  PROVE  Len(ToLower(s)) \in Nat
<1> DEFINE a == [i \in DOMAIN s |-> IF s[i] \in DOMAIN Lower THEN Lower[s[i]] ELSE <<s[i]>>]
           C == STRING \cup {"a", "b", "w", "l", "i", "dot"}
<1>1. DOMAIN s = 1 .. Len(s) /\ Len(s) \in Nat /\ \A i \in DOMAIN s : s[i] \in C
  BY LenProperties
<1>2. \A c \in DOMAIN Lower : Lower[c] \in Seq(C)
  <2> TAKE c \in DOMAIN Lower
  <2>1. Lower[c] \in { <<"a">>, <<"b">>, <<"w">>, <<"l">>, <<"i", "dot">> }
    BY DEF Lower
  <2>2. "a" \in C /\ "b" \in C /\ "w" \in C /\ "l" \in C /\ "i" \in C /\ "dot" \in C
    OBVIOUS
  <2> HIDE DEF C
  <2> QED BY <2>1, <2>2, ShortSeqs
<1> HIDE DEF C
<1>3. ASSUME NEW i \in DOMAIN s PROVE a[i] \in Seq(C)
  <2>1. <<s[i]>> \in Seq(C)
    BY <1>1, ShortSeqs
  <2>2. s[i] \in DOMAIN Lower => Lower[s[i]] \in Seq(C)
    BY <1>2
  <2> QED BY <2>1, <2>2
<1>4. a \in Seq(Seq(C))
  BY <1>1, <1>3
<1> HIDE DEF a
<1>5. FlattenSeq(a) \in Seq(C)
  BY <1>4, FlattenType
<1> QED BY <1>5, LenProperties DEF a, ToLower

(* The end of a token lies beyond the cursor, and there is at most one.    *)
LEMMA SearchEnd ==
  ASSUME wiki_text \in Seq(STRING), NEW from \in 0 .. End, NEW needle \in Seq(STRING)
  PROVE  \/ find_case_insensitive_end(from, needle) = {}
         \/ \E e \in from + 1 .. End : find_case_insensitive_end(from, needle) = {e}
<1> DEFINE lower   == ToLower(needle)
           ends(p) == { e \in p + 1 .. Min({p + Len(lower), End}) : ToLower(Slice(p, e)) = lower }
           starts  == { p \in from .. End - 1 : ends(p) # {} }
<1>1. End \in Nat /\ Len(lower) \in Nat
  BY ToLowerType, LenProperties DEF End
<1>2. find_case_insensitive_end(from, needle)
        = IF starts = {} THEN {} ELSE {Min(ends(Min(starts)))}
  BY DEF find_case_insensitive_end
<1>3. ASSUME starts # {} PROVE Min(ends(Min(starts))) \in from + 1 .. End
  <2>1. PICK p : p = Min(starts)
    OBVIOUS
  <2>2. p \in starts
    <3>1. starts \subseteq Nat
      BY <1>1
    <3> HIDE DEF starts
    <3> QED BY <1>3, <2>1, <3>1, MinIs
  <2>3. p \in from .. End - 1 /\ ends(p) # {}
    BY <2>2
  <2>4. PICK b : b = Min({p + Len(lower), End})
    OBVIOUS
  <2>5. b \in Nat /\ b <= End
    <3>1. p + Len(lower) \in Nat /\ End \in Nat
      BY <1>1, <2>3
    <3>2. PICK T : T = {p + Len(lower), End}
      OBVIOUS
    <3>3. T \subseteq Nat /\ T # {} /\ End \in T
      BY <3>1, <3>2
    <3>4. Min(T) \in T /\ \A m \in T : Min(T) <= m
      BY <3>3, MinIs
    <3> QED BY <2>4, <3>2, <3>3, <3>4
  <2>6. ends(p) \subseteq p + 1 .. b
    BY <2>4
  <2>7. PICK E : E = ends(p)
    OBVIOUS
  <2>8. E \subseteq from + 1 .. End /\ E \subseteq Nat /\ E # {}
    <3>1. E \subseteq p + 1 .. b /\ E # {}
      BY <2>3, <2>6, <2>7
    <3> HIDE DEF ends
    <3> QED BY <1>1, <2>3, <2>5, <3>1
  <2>9. Min(E) \in E
    BY <2>8, MinIs
  <2> HIDE DEF starts, ends
  <2> QED BY <2>1, <2>7, <2>8, <2>9
<1> HIDE DEF starts, ends
<1> QED BY <1>2, <1>3
-----------------------------------------------------------------------------
(* Places in a text of n characters, and markup found in it.               *)
Places(n)  == { m \in [start : 0 .. n, end : 0 .. n] : m.start <= m.end }
Markups(n) == { m \in [markup_idx : 1 .. 15, start : 0 .. n, end : 0 .. n] : m.start <= m.end }

(* What a regular expression finds lies between the cursor and the end of  *)
(* the text.                                                               *)
LEMMA FindPlace ==
  ASSUME wiki_text \in Seq(STRING), NEW regexes, NEW from \in 0 .. End
  PROVE  \/ Find(regexes, from) = {}
         \/ \E m \in Places(End) : m.start \in from .. End - 1 /\ Find(regexes, from) = {m}
<1>1. End \in Nat
  BY LenProperties DEF End
<1> DEFINE at      == { p \in from .. End - 1 : \E r \in regexes : MatchEnds(r, p) # {} }
           ends(p) == UNION { MatchEnds(r, p) : r \in regexes }
<1>2. Find(regexes, from) = IF at = {} THEN {} ELSE {[start |-> Min(at), end |-> Max(ends(Min(at)))]}
  BY DEF Find
<1>3. ASSUME at # {}
      PROVE  Min(at) \in from .. End - 1 /\ Max(ends(Min(at))) \in Min(at) .. End
  <2>1. PICK p : p = Min(at)
    OBVIOUS
  <2>2. p \in at
    <3>1. at \subseteq Nat
      BY <1>1
    <3> HIDE DEF at
    <3> QED BY <1>3, <2>1, <3>1, MinIs
  <2>3. p \in from .. End - 1 /\ ends(p) # {}
    BY <2>2
  <2>4. ends(p) \subseteq p .. End
    BY DEF MatchEnds
  <2>5. PICK E : E = ends(p)
    OBVIOUS
  <2>6. E \subseteq 0 .. End /\ E # {} /\ E \subseteq p .. End
    <3> HIDE DEF ends
    <3> QED BY <1>1, <2>3, <2>4, <2>5
  <2>7. Max(E) \in E
    BY <1>1, <2>6, MaxIs
  <2> HIDE DEF at, ends
  <2> QED BY <2>1, <2>3, <2>5, <2>6, <2>7
<1>4. ASSUME at # {}
      PROVE  [start |-> Min(at), end |-> Max(ends(Min(at)))] \in Places(End)
  <2> HIDE DEF at, ends
  <2> QED BY <1>1, <1>3, <1>4 DEF Places
<1> HIDE DEF at, ends
<1> QED BY <1>2, <1>3, <1>4

(* The table has 15 kinds of markup; the ones without an end are the ones  *)
(* inside of which nothing is looked for.                                  *)
LEMMA MarkupTable ==
  /\ DOMAIN SPECIAL_MARKUPS = 1 .. 15
  /\ \A k \in 1 .. 15 : /\ SPECIAL_MARKUPS[k].no_jump \in BOOLEAN
                        /\ SPECIAL_MARKUPS[k].no_spans \in BOOLEAN
                        /\ SPECIAL_MARKUPS[k].no_jump <=> SPECIAL_MARKUPS[k].end = {}
<1> DEFINE Fits(m) == /\ m.no_jump \in BOOLEAN /\ m.no_spans \in BOOLEAN
                      /\ m.no_jump <=> m.end = {}
<1>1. ASSUME NEW starts, NEW end, NEW no_spans \in BOOLEAN
      PROVE  Fits(Block(starts, end, no_spans))
  BY DEF Block
<1>2. ASSUME NEW starts PROVE Fits(Single(starts))
  BY DEF Single
<1>3. DOMAIN SPECIAL_MARKUPS = 1 .. 15
  BY DEF SPECIAL_MARKUPS
<1> HIDE DEF Fits
<1>4. Fits(SPECIAL_MARKUPS[1]) /\ Fits(SPECIAL_MARKUPS[2]) /\ Fits(SPECIAL_MARKUPS[3])
  BY <1>1, <1>2 DEF SPECIAL_MARKUPS
<1>5. Fits(SPECIAL_MARKUPS[4]) /\ Fits(SPECIAL_MARKUPS[5]) /\ Fits(SPECIAL_MARKUPS[6])
  BY <1>1, <1>2 DEF SPECIAL_MARKUPS
<1>6. Fits(SPECIAL_MARKUPS[7]) /\ Fits(SPECIAL_MARKUPS[8]) /\ Fits(SPECIAL_MARKUPS[9])
  BY <1>1, <1>2 DEF SPECIAL_MARKUPS
<1>7. Fits(SPECIAL_MARKUPS[10]) /\ Fits(SPECIAL_MARKUPS[11]) /\ Fits(SPECIAL_MARKUPS[12])
  BY <1>1, <1>2 DEF SPECIAL_MARKUPS
<1>8. Fits(SPECIAL_MARKUPS[13]) /\ Fits(SPECIAL_MARKUPS[14]) /\ Fits(SPECIAL_MARKUPS[15])
  BY <1>1, <1>2 DEF SPECIAL_MARKUPS
<1>9. \A k \in 1 .. 15 : Fits(SPECIAL_MARKUPS[k])
  BY <1>4, <1>5, <1>6, <1>7, <1>8
<1> QED BY <1>3, <1>9 DEF Fits

(* The next markup begins at the cursor or beyond it, where none was       *)
(* entered.                                                                *)
LEMMA NextMarkup ==
  ASSUME wiki_text \in Seq(STRING), NEW pos \in 0 .. End, NEW jumped
  PROVE  \/ find_next_special_markup(pos, jumped) = {}
         \/ \E m \in Markups(End) : /\ find_next_special_markup(pos, jumped) = {m}
                                    /\ m.start >= pos /\ m.start \notin jumped
<1> DEFINE candidates == { k \in DOMAIN SPECIAL_MARKUPS :
                             \E m \in Find(SPECIAL_MARKUPS[k].start, pos) : NotJumped(m, jumped) }
           match == [k \in candidates |-> CHOOSE m \in Find(SPECIAL_MARKUPS[k].start, pos) : TRUE]
           first == Min({ match[k].start : k \in candidates })
           at(p) == { k \in candidates : match[k].start = p }
           idx   == Min(at(first))
<1>1. find_next_special_markup(pos, jumped)
        = IF candidates = {} THEN {}
          ELSE {[markup_idx |-> idx, start |-> first, end |-> match[idx].end]}
  BY DEF find_next_special_markup
<1>2. End \in Nat
  BY LenProperties DEF End
<1>3. candidates \subseteq 1 .. 15
  BY MarkupTable
<1>4. ASSUME NEW k \in candidates
      PROVE  /\ match[k] \in Places(End) /\ match[k].start \in pos .. End - 1
             /\ match[k].start \notin jumped
  <2>1. PICK r : r = SPECIAL_MARKUPS[k].start
    OBVIOUS
  <2>2. Find(r, pos) = {} \/ \E m \in Places(End) :
          m.start \in pos .. End - 1 /\ Find(r, pos) = {m}
    BY FindPlace
  <2>3. \E m \in Find(r, pos) : NotJumped(m, jumped)
    BY <2>1
  <2>4. PICK m \in Places(End) : m.start \in pos .. End - 1 /\ Find(r, pos) = {m}
    BY <2>2, <2>3
  <2>5. match[k] = m
    BY <2>1, <2>4
  <2>6. m.start \notin jumped
    BY <2>3, <2>4 DEF NotJumped
  <2> QED BY <2>4, <2>5, <2>6
<1>5. ASSUME candidates # {}
      PROVE  /\ first \in pos .. End - 1 /\ first \notin jumped /\ idx \in candidates
             /\ match[idx].start = first
  <2>1. PICK F : F = { match[k].start : k \in candidates }
    OBVIOUS
  <2>2. F \subseteq Nat /\ F # {}
    <3>1. ASSUME NEW k \in candidates PROVE match[k].start \in Nat
      <4>1. match[k].start \in pos .. End - 1
        BY <1>4
      <4> HIDE DEF candidates, match
      <4> QED BY <1>2, <4>1
    <3> HIDE DEF candidates, match
    <3> QED BY <1>5, <2>1, <3>1
  <2>3. Min(F) \in F
    BY <2>2, MinIs
  <2>4. PICK k \in candidates : first = match[k].start
    <3> HIDE DEF candidates, match
    <3> QED BY <2>1, <2>3
  <2>5. PICK p : p = first
    OBVIOUS
  <2>6. PICK A : A = at(p)
    OBVIOUS
  <2>7. A \subseteq candidates /\ A \subseteq Nat /\ A # {}
    <3>1. A \subseteq candidates /\ k \in A
      <4> HIDE DEF candidates, match, first
      <4> QED BY <2>4, <2>5, <2>6
    <3> HIDE DEF candidates, match, first, at
    <3> QED BY <1>3, <3>1
  <2>8. Min(A) \in A
    BY <2>7, MinIs
  <2>9. idx \in candidates /\ match[idx].start = first
    <3> HIDE DEF candidates, match, first
    <3> QED BY <2>5, <2>6, <2>8
  <2> HIDE DEF candidates, match, first, idx
  <2> QED BY <1>4, <2>4, <2>9
<1>6. ASSUME candidates # {}
      PROVE  [markup_idx |-> idx, start |-> first, end |-> match[idx].end] \in Markups(End)
  <2>1. first \in 0 .. End /\ idx \in 1 .. 15 /\ match[idx] \in Places(End)
        /\ match[idx].start = first
    <3> HIDE DEF candidates, match, first, idx
    <3>1. /\ first \in pos .. End - 1 /\ idx \in candidates /\ match[idx].start = first
      BY <1>5, <1>6
    <3>2. match[idx] \in Places(End)
      BY <1>4, <3>1
    <3>3. first \in 0 .. End
      BY <1>2, <3>1
    <3> QED BY <1>3, <3>1, <3>2, <3>3
  <2>2. match[idx].end \in 0 .. End /\ match[idx].start <= match[idx].end
    <3> HIDE DEF match, idx
    <3> QED BY <2>1 DEF Places
  <2> HIDE DEF match, idx, first
  <2> QED BY <2>1, <2>2 DEF Markups
<1> HIDE DEF candidates, match, first, idx
<1> QED BY <1>1, <1>2, <1>5, <1>6

(* The end of markup that was entered: at the cursor or beyond it, unless  *)
(* it has no end of its own.                                               *)
LEMMA ElementEnd ==
  ASSUME wiki_text \in Seq(STRING), NEW pos \in 0 .. End, NEW se \in Markups(End)
  PROVE  /\ special_elem_end(se, pos) \in Places(End)
         /\ IF SPECIAL_MARKUPS[se.markup_idx].no_jump
            THEN special_elem_end(se, pos).end = se.end
            ELSE special_elem_end(se, pos).end >= pos
<1> DEFINE markup == SPECIAL_MARKUPS[se.markup_idx]
           found  == Find(markup.end, pos)
<1>1. End \in Nat /\ se.markup_idx \in 1 .. 15 /\ (markup.no_jump <=> markup.end = {})
  BY MarkupTable, LenProperties DEF End, Markups
<1>2. CASE markup.end = {}
  <2>1. special_elem_end(se, pos) = [start |-> se.start, end |-> se.end]
    BY <1>2 DEF special_elem_end
  <2> QED BY <1>1, <1>2, <2>1 DEF Places, Markups
<1>3. CASE markup.end # {} /\ found = {}
  <2>1. special_elem_end(se, pos) = [start |-> End, end |-> End]
    BY <1>3 DEF special_elem_end
  <2> QED BY <1>1, <1>3, <2>1 DEF Places
<1>4. CASE markup.end # {} /\ found # {}
  <2>1. PICK r : r = markup.end
    OBVIOUS
  <2>2. PICK m \in Places(End) : m.start \in pos .. End - 1 /\ Find(r, pos) = {m}
    BY <1>4, <2>1, FindPlace
  <2>3. special_elem_end(se, pos) = m
    BY <1>4, <2>1, <2>2 DEF special_elem_end
  <2>4. m.start \in Int /\ m.end \in Int /\ m.start <= m.end
    BY <1>1 DEF Places
  <2>5. m.end >= pos
    BY <1>1, <2>2, <2>4
  <2> QED BY <1>1, <1>4, <2>3, <2>5
<1> QED BY <1>2, <1>3, <1>4
-----------------------------------------------------------------------------
(* The output: the properties of a list of slices and tags.                *)
Item == [tag : {"text"}, from : Nat, to : Nat] \cup [tag : {"open"}, id : Nat]
          \cup [tag : {"close"}]

SlicesOf(o)   == { k \in DOMAIN o : o[k].tag = "text" }
TagsOf(o)     == DOMAIN o \ SlicesOf(o)
TextTo(o, k)  == LET before == { j \in SlicesOf(o) : j < k }
                 IN  IF before = {} THEN 0 ELSE o[Max(before)].to
OpenIn(o, k)  == LET before == { j \in TagsOf(o) : j < k }
                 IN  before # {} /\ o[Max(before)].tag = "open"

(* All of the text up to the position p; balanced tags, b if one is open.  *)
Whole(o, p)    == /\ \A k \in SlicesOf(o) : o[k].from = TextTo(o, k) /\ o[k].from <= o[k].to
                  /\ p = TextTo(o, Len(o) + 1)
Balanced(o, b) == /\ \A k \in TagsOf(o) : o[k].tag = IF OpenIn(o, k) THEN "close" ELSE "open"
                  /\ (b <=> OpenIn(o, Len(o) + 1))
Written(o, p, b) == o \in Seq(Item) /\ Whole(o, p) /\ Balanced(o, b)

(* One more item x, the n-th, changes nothing before it.                   *)
Grows(o, x, a, n) ==
  /\ a \in Seq(Item) /\ Len(a) = n /\ n \in Nat /\ n \in 1 .. n
  /\ DOMAIN a = 1 .. n /\ DOMAIN o = 1 .. n - 1 /\ a[n] = x
  /\ \A k \in DOMAIN o : a[k] = o[k]
  /\ \A k \in 1 .. n : TextTo(a, k) = TextTo(o, k) /\ (OpenIn(a, k) <=> OpenIn(o, k))
  /\ x.tag = "text" => TextTo(a, n + 1) = x.to /\ (OpenIn(a, n + 1) <=> OpenIn(o, n))
  /\ x.tag # "text" => TextTo(a, n + 1) = TextTo(o, n)
                         /\ (OpenIn(a, n + 1) <=> x.tag = "open")

LEMMA OneMore ==
  ASSUME NEW o \in Seq(Item), NEW x \in Item
  PROVE  Grows(o, x, Append(o, x), Len(o) + 1)
<1> SUFFICES ASSUME NEW a, a = Append(o, x), NEW n, n = Len(o) + 1 PROVE Grows(o, x, a, n)
  OBVIOUS
<1>1. /\ a \in Seq(Item) /\ Len(a) = n /\ n \in Nat /\ n \in 1 .. n
      /\ DOMAIN a = 1 .. n /\ DOMAIN o = 1 .. n - 1 /\ a[n] = x
      /\ \A k \in DOMAIN o : a[k] = o[k]
  BY AppendProperties, LenProperties
<1>2. ASSUME NEW T, NEW U, T \subseteq DOMAIN a, U \subseteq DOMAIN o, T \ {n} = U,
             NEW k \in 1 .. n
      PROVE  { j \in T : j < k } = { j \in U : j < k }
  BY <1>1, <1>2
<1>3. ASSUME NEW B, B \subseteq DOMAIN o, B # {}
      PROVE  a[Max(B)] = o[Max(B)]
  <2>1. Max(B) \in B
    BY <1>1, <1>3, MaxIs
  <2> QED BY <1>1, <1>3, <2>1
<1>4. SlicesOf(a) \ {n} = SlicesOf(o) /\ TagsOf(a) \ {n} = TagsOf(o)
      /\ SlicesOf(a) \subseteq DOMAIN a /\ SlicesOf(o) \subseteq DOMAIN o
      /\ TagsOf(a) \subseteq DOMAIN a /\ TagsOf(o) \subseteq DOMAIN o
      /\ (n \in SlicesOf(a) <=> x.tag = "text") /\ (n \in TagsOf(a) <=> x.tag # "text")
  BY <1>1 DEF SlicesOf, TagsOf
<1>5. ASSUME NEW k \in 1 .. n
      PROVE  TextTo(a, k) = TextTo(o, k) /\ (OpenIn(a, k) <=> OpenIn(o, k))
  <2>1. { j \in SlicesOf(a) : j < k } = { j \in SlicesOf(o) : j < k }
    BY <1>2, <1>4
  <2>2. { j \in TagsOf(a) : j < k } = { j \in TagsOf(o) : j < k }
    BY <1>2, <1>4
  <2>3. \A B : B \subseteq DOMAIN o /\ B # {} => a[Max(B)] = o[Max(B)]
    BY <1>3
  <2>4. { j \in SlicesOf(o) : j < k } \subseteq DOMAIN o
        /\ { j \in TagsOf(o) : j < k } \subseteq DOMAIN o
    BY <1>4
  <2>5. TextTo(a, k) = TextTo(o, k)
    BY <2>1, <2>3, <2>4 DEF TextTo
  <2>6. (OpenIn(a, k) <=> OpenIn(o, k))
    BY <2>2, <2>3, <2>4 DEF OpenIn
  <2> QED BY <2>5, <2>6
<1>6. ASSUME NEW B, B \subseteq DOMAIN a, n \in B PROVE Max(B) = n
  <2>1. B \subseteq 0 .. n /\ B # {}
    BY <1>1, <1>6
  <2>2. Max(B) \in B /\ n <= Max(B)
    BY <1>1, <1>6, <2>1, MaxIs
  <2>3. Max(B) \in 0 .. n
    BY <2>1, <2>2
  <2> QED BY <1>1, <2>2, <2>3
<1>7. /\ { j \in SlicesOf(a) : j < n + 1 } = SlicesOf(a)
      /\ { j \in TagsOf(a) : j < n + 1 } = TagsOf(a)
      /\ { j \in SlicesOf(o) : j < n } = SlicesOf(o)
      /\ { j \in TagsOf(o) : j < n } = TagsOf(o)
  BY <1>1, <1>4
<1>8. CASE x.tag = "text"
  <2>1. Max(SlicesOf(a)) = n /\ SlicesOf(a) # {} /\ TagsOf(a) = TagsOf(o)
    BY <1>4, <1>6, <1>8
  <2>2. TextTo(a, n + 1) = x.to
    BY <1>1, <1>7, <2>1 DEF TextTo
  <2>3. (OpenIn(a, n + 1) <=> OpenIn(o, n))
    BY <1>3, <1>4, <1>7, <2>1 DEF OpenIn
  <2> QED BY <1>1, <1>5, <1>8, <2>2, <2>3 DEF Grows
<1>9. CASE x.tag # "text"
  <2>1. Max(TagsOf(a)) = n /\ TagsOf(a) # {} /\ SlicesOf(a) = SlicesOf(o)
    BY <1>4, <1>6, <1>9
  <2>2. (OpenIn(a, n + 1) <=> x.tag = "open")
    BY <1>1, <1>7, <2>1 DEF OpenIn
  <2>3. TextTo(a, n + 1) = TextTo(o, n)
    BY <1>3, <1>4, <1>7, <2>1 DEF TextTo
  <2> QED BY <1>1, <1>5, <1>9, <2>2, <2>3 DEF Grows
<1> QED BY <1>8, <1>9

(* A slice from where the text ends.                                       *)
LEMMA AddText ==
  ASSUME NEW o, NEW p \in Nat, NEW q \in Nat, NEW b, Written(o, p, b), p <= q
  PROVE  Written(Append(o, Text(p, q)), q, b)
<1>1. o \in Seq(Item) /\ Whole(o, p) /\ Balanced(o, b)
  BY DEF Written
<1>2. PICK x : x = Text(p, q)
  OBVIOUS
<1>3. x \in Item /\ x.tag = "text" /\ x.from = p /\ x.to = q
  BY <1>2 DEF Item, Text
<1>4. PICK a : a = Append(o, x)
  OBVIOUS
<1>5. PICK n : n = Len(o) + 1
  OBVIOUS
<1>6. /\ a \in Seq(Item) /\ Len(a) = n /\ n \in Nat /\ n \in 1 .. n
      /\ DOMAIN a = 1 .. n /\ DOMAIN o = 1 .. n - 1 /\ a[n] = x
      /\ \A k \in DOMAIN o : a[k] = o[k]
      /\ \A k \in 1 .. n : TextTo(a, k) = TextTo(o, k) /\ (OpenIn(a, k) <=> OpenIn(o, k))
      /\ TextTo(a, n + 1) = q /\ (OpenIn(a, n + 1) <=> OpenIn(o, n))
  <2>1. o \in Seq(Item) /\ x \in Item
    BY <1>1, <1>3
  <2>2. Grows(o, x, a, n)
    BY <2>1, <1>4, <1>5, OneMore
  <2> QED BY <1>3, <2>2 DEF Grows
<1>7. Whole(a, q)
  <2>1. p = TextTo(o, n)
    BY <1>1, <1>5 DEF Whole
  <2>2. ASSUME NEW k \in SlicesOf(a) PROVE a[k].from = TextTo(a, k) /\ a[k].from <= a[k].to
    <3>1. CASE k = n
      BY <1>3, <1>6, <2>1, <3>1
    <3>2. CASE k # n
      <4>1. k \in DOMAIN o /\ k \in 1 .. n /\ k \in SlicesOf(o)
        BY <1>6, <2>2, <3>2 DEF SlicesOf
      <4> QED BY <1>1, <1>6, <4>1 DEF Whole
    <3> QED BY <3>1, <3>2
  <2> QED BY <1>6, <2>2 DEF Whole
<1>8. Balanced(a, b)
  <2>1. ASSUME NEW k \in TagsOf(a)
        PROVE  a[k].tag = IF OpenIn(a, k) THEN "close" ELSE "open"
    <3>1. k \in DOMAIN o /\ k \in 1 .. n /\ k \in TagsOf(o)
      BY <1>3, <1>6, <2>1 DEF SlicesOf, TagsOf
    <3> QED BY <1>1, <1>6, <3>1 DEF Balanced
  <2>2. b <=> OpenIn(o, n)
    BY <1>1, <1>5 DEF Balanced
  <2> QED BY <1>6, <2>1, <2>2 DEF Balanced
<1> QED BY <1>2, <1>4, <1>6, <1>7, <1>8 DEF Written

(* A tag that closes the open span or, when none is open, opens one.       *)
LEMMA AddTag ==
  ASSUME NEW o, NEW p, NEW b \in BOOLEAN, Written(o, p, b),
         NEW x \in Item, x.tag = IF b THEN "close" ELSE "open"
  PROVE  Written(Append(o, x), p, ~b)
<1>1. o \in Seq(Item) /\ Whole(o, p) /\ Balanced(o, b)
  BY DEF Written
<1>2. x.tag # "text" /\ (x.tag = "open" <=> ~b)
  OBVIOUS
<1>3. PICK a : a = Append(o, x)
  OBVIOUS
<1>4. PICK n : n = Len(o) + 1
  OBVIOUS
<1>5. /\ a \in Seq(Item) /\ Len(a) = n /\ n \in Nat /\ n \in 1 .. n
      /\ DOMAIN a = 1 .. n /\ DOMAIN o = 1 .. n - 1 /\ a[n] = x
      /\ \A k \in DOMAIN o : a[k] = o[k]
      /\ \A k \in 1 .. n : TextTo(a, k) = TextTo(o, k) /\ (OpenIn(a, k) <=> OpenIn(o, k))
      /\ TextTo(a, n + 1) = TextTo(o, n) /\ (OpenIn(a, n + 1) <=> x.tag = "open")
  <2>1. Grows(o, x, a, n)
    BY <1>1, <1>3, <1>4, OneMore
  <2> QED BY <1>2, <2>1 DEF Grows
<1>6. Whole(a, p)
  <2>1. ASSUME NEW k \in SlicesOf(a) PROVE a[k].from = TextTo(a, k) /\ a[k].from <= a[k].to
    <3>1. k \in DOMAIN o /\ k \in 1 .. n /\ k \in SlicesOf(o)
      BY <1>2, <1>5, <2>1 DEF SlicesOf
    <3> QED BY <1>1, <1>5, <3>1 DEF Whole
  <2>2. p = TextTo(o, n)
    BY <1>1, <1>4 DEF Whole
  <2> QED BY <1>5, <2>1, <2>2 DEF Whole
<1>7. Balanced(a, ~b)
  <2>1. b <=> OpenIn(o, n)
    BY <1>1, <1>4 DEF Balanced
  <2>2. ASSUME NEW k \in TagsOf(a)
        PROVE  a[k].tag = IF OpenIn(a, k) THEN "close" ELSE "open"
    <3>1. CASE k = n
      BY <1>5, <2>1, <3>1
    <3>2. CASE k # n
      <4>1. k \in DOMAIN o /\ k \in 1 .. n /\ k \in TagsOf(o)
        BY <1>5, <2>2, <3>2 DEF SlicesOf, TagsOf
      <4> QED BY <1>1, <1>5, <4>1 DEF Balanced
    <3> QED BY <3>1, <3>2
  <2>3. ~b <=> OpenIn(a, n + 1)
    BY <1>2, <1>5
  <2> QED BY <1>5, <2>2, <2>3 DEF Balanced
<1> QED BY <1>3, <1>5, <1>6, <1>7 DEF Written

(* What the closing of a span, and add_spans, append.                      *)
Closes(b)      == IF b THEN <<CloseTag>> ELSE <<>>
Opening(id, new) == IF new THEN <<OpenTag(id)>> ELSE <<>>

LEMMA TagsWritten ==
  ASSUME NEW o, NEW p, NEW b \in BOOLEAN, Written(o, p, b), NEW id \in Nat, NEW new \in BOOLEAN
  PROVE  /\ Written(o \o Closes(b), p, FALSE)
         /\ Written(o \o (Closes(b) \o Opening(id, new)), p, new)
<1>1. o \in Seq(Item) /\ CloseTag \in Item /\ OpenTag(id) \in Item
      /\ CloseTag.tag = "close" /\ OpenTag(id).tag = "open"
  BY DEF Written, Item, CloseTag, OpenTag
<1>2. Closes(b) \in Seq(Item) /\ Opening(id, new) \in Seq(Item)
  <2>1. \A x \in Item : <<x>> \in Seq(Item)
    BY ShortSeqs
  <2>2. << >> \in Seq(Item)
    BY EmptySeq
  <2> QED BY <1>1, <2>1, <2>2 DEF Closes, Opening
<1>3. PICK c : c = o \o Closes(b)
  OBVIOUS
<1>4. Written(c, p, FALSE)
  <2>1. CASE b
    <3>1. Written(Append(o, CloseTag), p, FALSE)
      BY <1>1, <2>1, AddTag
    <3>2. c = Append(o, CloseTag)
      BY <1>1, <1>3, <2>1, AppendIsConcat DEF Closes
    <3> QED BY <3>1, <3>2
  <2>2. CASE ~b
    BY <1>1, <1>3, <2>2, ConcatEmptySeq DEF Closes
  <2> QED BY <2>1, <2>2
<1>5. o \o (Closes(b) \o Opening(id, new)) = c \o Opening(id, new)
  <2>1. PICK s, t : s = Closes(b) /\ t = Opening(id, new)
    OBVIOUS
  <2>2. s \in Seq(Item) /\ t \in Seq(Item) /\ o \in Seq(Item)
    BY <1>1, <1>2, <2>1
  <2>3. (o \o s) \o t = o \o (s \o t)
    BY ONLY <2>2, ConcatAssociative
  <2> QED BY <1>3, <2>1, <2>3
<1>6. Written(c \o Opening(id, new), p, new)
  <2>1. c \in Seq(Item)
    BY <1>4 DEF Written
  <2>2. CASE new
    <3>1. Written(Append(c, OpenTag(id)), p, TRUE)
      BY <1>1, <1>4, AddTag
    <3>2. c \o Opening(id, new) = Append(c, OpenTag(id))
      BY <1>1, <2>1, <2>2, AppendIsConcat DEF Opening
    <3> QED BY <2>2, <3>1, <3>2
  <2>3. CASE ~new
    BY <1>4, <2>1, <2>3, ConcatEmptySeq DEF Opening
  <2> QED BY <2>2, <2>3
<1> QED BY <1>3, <1>4, <1>5, <1>6
-----------------------------------------------------------------------------
(* The calls of parse_wiki_text.                                           *)
AtMostOne(x) == \A a, b \in x : a = b
Jumpless(elem) == \E se \in elem : SPECIAL_MARKUPS[se.markup_idx].no_jump

CallFrames(n) ==
  { f \in [add_spans : BOOLEAN, elem : SUBSET Markups(n), no_jump : BOOLEAN,
           end : SUBSET Places(n), next : SUBSET Markups(n)] :
      /\ AtMostOne(f.elem) /\ AtMostOne(f.end) /\ AtMostOne(f.next)
      /\ f.elem = {} => f.end = {}
      /\ f.no_jump <=> Jumpless(f.elem)
      /\ f.no_jump => f.next = {} }

(* What the innermost call looks ahead to: the end of its element is not   *)
(* behind the cursor; the markup to come was not entered, and the cursor   *)
(* passes it only when it lies outside of the element.                     *)
LooksAhead(f, pos, jumped) ==
  /\ \A see \in f.end : see.end >= pos
  /\ \A nse \in f.next :
       /\ nse.start \notin jumped
       /\ nse.start >= pos \/ \E see \in f.end : see.start <= pos \/ nse.start >= see.start

(* The outermost call has no element, and markup in which nothing is       *)
(* looked for makes no calls.                                              *)
Calls(fs, pos, jumped) ==
  /\ fs \in Seq(CallFrames(End))
  /\ \A k \in 2 .. Len(fs) : ~fs[k].no_jump
  /\ fs # <<>> => LooksAhead(fs[1], pos, jumped) /\ fs[Len(fs)].elem = {}

(* What a call, and a caller after a return, derives from the cursor.      *)
LEMMA EndsOf ==
  ASSUME wiki_text \in Seq(STRING), NEW pos \in 0 .. End,
         NEW elem \in SUBSET Markups(End), AtMostOne(elem),
         \A se \in elem : SPECIAL_MARKUPS[se.markup_idx].no_jump => se.end >= pos
  PROVE  LET end == { special_elem_end(se, pos) : se \in elem }
         IN  /\ end \in SUBSET Places(End) /\ AtMostOne(end)
             /\ elem = {} => end = {}
             /\ \A see \in end : see.end >= pos
<1>1. \A se \in elem : /\ special_elem_end(se, pos) \in Places(End)
                       /\ special_elem_end(se, pos).end >= pos
  BY ElementEnd
<1> QED BY <1>1 DEF AtMostOne

LEMMA NextOf ==
  ASSUME wiki_text \in Seq(STRING), NEW pos \in 0 .. End, NEW jumped
  PROVE  LET next == find_next_special_markup(pos, jumped)
         IN  /\ next \in SUBSET Markups(End) /\ AtMostOne(next)
             /\ \A nse \in next : nse.start \notin jumped /\ nse.start >= pos
<1>1. \/ find_next_special_markup(pos, jumped) = {}
      \/ \E m \in Markups(End) : /\ find_next_special_markup(pos, jumped) = {m}
                                 /\ m.start >= pos /\ m.start \notin jumped
  BY NextMarkup
<1> QED BY <1>1 DEF AtMostOne

LEMMA Called ==
  ASSUME wiki_text \in Seq(STRING), NEW pos \in 0 .. End, NEW jumped,
         NEW elem \in SUBSET Markups(End), AtMostOne(elem),
         \A se \in elem : SPECIAL_MARKUPS[se.markup_idx].no_jump => se.end >= pos,
         NEW spans \in BOOLEAN, NEW no_jump \in BOOLEAN, no_jump <=> Jumpless(elem)
  PROVE  /\ Call(spans, elem, no_jump, pos, jumped) \in CallFrames(End)
         /\ LooksAhead(Call(spans, elem, no_jump, pos, jumped), pos, jumped)
         /\ Call(spans, elem, no_jump, pos, jumped).elem = elem
         /\ Call(spans, elem, no_jump, pos, jumped).no_jump = no_jump
<1>1. PICK end : end = { special_elem_end(se, pos) : se \in elem }
  OBVIOUS
<1>2. PICK next : next = IF no_jump THEN {} ELSE find_next_special_markup(pos, jumped)
  OBVIOUS
<1>3. /\ end \in SUBSET Places(End) /\ AtMostOne(end) /\ (elem = {} => end = {})
      /\ \A see \in end : see.end >= pos
  BY <1>1, EndsOf
<1>4. /\ next \in SUBSET Markups(End) /\ AtMostOne(next)
      /\ \A nse \in next : nse.start \notin jumped /\ nse.start >= pos
      /\ no_jump => next = {}
  BY <1>2, NextOf DEF AtMostOne
<1>5. PICK f : f = Call(spans, elem, no_jump, pos, jumped)
  OBVIOUS
<1>6. f = [add_spans |-> spans, elem |-> elem, no_jump |-> no_jump, end |-> end, next |-> next]
  BY <1>1, <1>2, <1>5 DEF Call
<1>7. f \in CallFrames(End)
  BY <1>3, <1>4, <1>6 DEF CallFrames
<1>8. LooksAhead(f, pos, jumped)
  BY <1>3, <1>4, <1>6 DEF LooksAhead
<1> QED BY <1>5, <1>6, <1>7, <1>8

LEMMA Returned ==
  ASSUME wiki_text \in Seq(STRING), NEW pos \in 0 .. End, NEW old,
         Calls(frames, old, jumped_elems), frames # <<>>
  PROVE  /\ Calls(Return(pos), pos, jumped_elems)
         /\ Len(Return(pos)) = Len(frames) - 1 /\ Len(frames) \in Nat
<1>1. PICK n : n = End
  OBVIOUS
<1>2. /\ frames \in Seq(CallFrames(n)) /\ Len(frames) \in Nat /\ Len(frames) # 0
      /\ \A k \in 2 .. Len(frames) : ~frames[k].no_jump /\ frames[k] \in CallFrames(n)
      /\ frames[Len(frames)].elem = {}
  BY <1>1, LenProperties, EmptySeq DEF Calls
<1>3. PICK callers : callers = Tail(frames)
  OBVIOUS
<1>4. /\ callers \in Seq(CallFrames(n)) /\ Len(callers) = Len(frames) - 1
      /\ \A i \in 1 .. Len(callers) : callers[i] = frames[i + 1]
  BY <1>2, <1>3, HeadTailProperties
<1>5. CASE callers = <<>>
  <2>1. Return(pos) = <<>> /\ Len(callers) = 0
    BY <1>3, <1>5 DEF Return
  <2>2. <<>> \in Seq(CallFrames(n)) /\ Len(<<>>) = 0
    OBVIOUS
  <2> QED BY <1>1, <1>2, <1>4, <1>5, <2>1, <2>2 DEF Calls
<1>6. CASE callers # <<>>
  <2>1. PICK f : f = Head(callers)
    OBVIOUS
  <2>2. Len(callers) \in Nat \ {0} /\ f = callers[1] /\ f \in CallFrames(n) /\ ~f.no_jump
    BY <1>2, <1>4, <1>6, <2>1, NonEmptySeq
  <2>3. PICK end : end = { special_elem_end(se, pos) : se \in f.elem }
    OBVIOUS
  <2>4. PICK next : next = find_next_special_markup(pos, jumped_elems)
    OBVIOUS
  <2>5. /\ end \in SUBSET Places(n) /\ AtMostOne(end) /\ (f.elem = {} => end = {})
        /\ \A see \in end : see.end >= pos
    <3>1. f.elem \in SUBSET Markups(n) /\ AtMostOne(f.elem) /\ ~Jumpless(f.elem)
      BY <2>2 DEF CallFrames
    <3>2. \A se \in f.elem : SPECIAL_MARKUPS[se.markup_idx].no_jump => se.end >= pos
      BY <3>1 DEF Jumpless
    <3>3. PICK elem : elem = f.elem
      OBVIOUS
    <3> QED BY <1>1, <2>3, <3>1, <3>2, <3>3, EndsOf
  <2>6. /\ next \in SUBSET Markups(n) /\ AtMostOne(next)
        /\ \A nse \in next : nse.start \notin jumped_elems /\ nse.start >= pos
    BY <1>1, <2>4, NextOf
  <2>7. PICK g : g = [f EXCEPT !.end = end, !.next = next]
    OBVIOUS
  <2>8. g \in CallFrames(n) /\ g.elem = f.elem /\ g.end = end /\ g.next = next
    BY <2>2, <2>5, <2>6, <2>7 DEF CallFrames
  <2>9. LooksAhead(g, pos, jumped_elems)
    BY <2>5, <2>6, <2>8 DEF LooksAhead
  <2>10. Return(pos) = <<g>> \o Tail(callers)
    BY <1>3, <1>6, <2>1, <2>3, <2>4, <2>7 DEF Return
  <2>11. PICK r : r = Return(pos)
    OBVIOUS
  <2>12. /\ r \in Seq(CallFrames(n)) /\ Len(r) = Len(callers) /\ r[1] = g
         /\ \A i \in 2 .. Len(r) : r[i] = callers[i]
    <3>1. PICK rest : rest = Tail(callers)
      OBVIOUS
    <3>2. /\ rest \in Seq(CallFrames(n)) /\ Len(rest) = Len(callers) - 1
          /\ \A i \in 1 .. Len(rest) : rest[i] = callers[i + 1]
      BY <1>4, <1>6, <3>1, HeadTailProperties
    <3>3. <<g>> \in Seq(CallFrames(n)) /\ Len(<<g>>) = 1 /\ <<g>>[1] = g
      BY <2>8
    <3>4. r = <<g>> \o rest
      BY <2>10, <2>11, <3>1
    <3>5. /\ r \in Seq(CallFrames(n)) /\ Len(r) = 1 + Len(rest)
          /\ \A i \in 1 .. 1 + Len(rest) : r[i] = IF i <= 1 THEN <<g>>[i] ELSE rest[i - 1]
      BY <3>2, <3>3, <3>4, ConcatProperties
    <3>6. Len(r) = Len(callers) /\ r[1] = g
      BY <2>2, <3>2, <3>3, <3>5
    <3>7. ASSUME NEW i \in 2 .. Len(r) PROVE r[i] = callers[i]
      <4>1. i - 1 \in 1 .. Len(rest) /\ ~(i <= 1) /\ i \in 1 .. 1 + Len(rest) /\ (i - 1) + 1 = i
        BY <2>2, <3>2, <3>6
      <4> QED BY <3>2, <3>5, <4>1
    <3> QED BY <3>5, <3>6, <3>7
  <2>13. \A k \in 2 .. Len(r) : ~r[k].no_jump
    <3> TAKE k \in 2 .. Len(r)
    <3>1. k \in 1 .. Len(callers) /\ k + 1 \in 2 .. Len(frames)
      BY <1>2, <1>4, <2>2, <2>12
    <3> QED BY <1>2, <1>4, <2>12, <3>1
  <2>14. r[Len(r)].elem = {}
    <3>1. callers[Len(callers)].elem = {}
      <4>1. Len(callers) \in 1 .. Len(callers) /\ Len(callers) + 1 = Len(frames)
        BY <1>2, <1>4, <2>2
      <4> QED BY <1>2, <1>4, <4>1
    <3>2. CASE Len(r) = 1
      BY <2>2, <2>8, <2>12, <3>1, <3>2
    <3>3. CASE Len(r) # 1
      <4>1. Len(r) \in 2 .. Len(r)
        BY <2>2, <2>12, <3>3
      <4> QED BY <2>12, <3>1, <4>1
    <3> QED BY <3>2, <3>3
  <2> QED BY <1>1, <1>2, <1>4, <2>9, <2>11, <2>12, <2>13, <2>14 DEF Calls
<1> QED BY <1>5, <1>6
-----------------------------------------------------------------------------
(* The inductive invariant.                                                *)
InputTyped == wiki_text \in Seq(STRING) /\ tokens \in Seq(Piece)
Ahead(pos) == current_token_end = {} \/ \E e \in pos + 1 .. End : current_token_end = {e}

IInv ==
  /\ InputTyped
  /\ token_index \in 0 .. Len(tokens) + 1 /\ wiki_text_pos \in 0 .. End
  /\ open_span \in BOOLEAN /\ jumped_elems \in SUBSET (0 .. End)
  /\ Ahead(wiki_text_pos)
  /\ Calls(frames, wiki_text_pos, jumped_elems)
  /\ Written(out, wiki_text_pos, open_span)
  /\ token_index = 0 => frames = <<>> /\ wiki_text_pos = 0 /\ jumped_elems = {}
  /\ Finished => wiki_text_pos = End /\ ~open_span

LEMMA Lengths ==
  ASSUME InputTyped
  PROVE  End \in Nat /\ Len(tokens) \in Nat /\ \A i \in 1 .. Len(tokens) : tokens[i].token \in Seq(STRING)
<1>1. \A i \in 1 .. Len(tokens) : tokens[i] \in Piece
  BY LenProperties DEF InputTyped
<1> QED BY <1>1, LenProperties, SpansAssumption DEF InputTyped, End

LEMMA InitWalk == Init => IInv
<1> SUFFICES ASSUME Init PROVE IInv
  OBVIOUS
<1>1. wikitext \in Seq(Piece)
  BY SpansAssumption DEF Init
<1>2. InputTyped
  BY <1>1, TextType DEF Init, InputTyped
<1>3. End \in Nat /\ Len(tokens) \in Nat
  BY <1>2, Lengths
<1>4. frames = <<>> /\ out = <<>> /\ wiki_text_pos = 0 /\ ~open_span /\ open_span \in BOOLEAN
      /\ token_index = 0 /\ current_token_end = {} /\ jumped_elems = {}
  BY DEF Init
<1>5. Len(<<>>) = 0 /\ DOMAIN <<>> = {}
  OBVIOUS
<1>6. Calls(frames, wiki_text_pos, jumped_elems)
  BY <1>4, <1>5 DEF Calls
<1>7. Written(out, wiki_text_pos, open_span)
  <2>1. SlicesOf(<<>>) = {} /\ TagsOf(<<>>) = {}
    BY <1>5 DEF SlicesOf, TagsOf
  <2>2. TextTo(<<>>, 1) = 0 /\ ~OpenIn(<<>>, 1)
    BY <2>1 DEF TextTo, OpenIn
  <2>3. <<>> \in Seq(Item)
    OBVIOUS
  <2> QED BY <1>4, <1>5, <2>1, <2>2, <2>3 DEF Written, Whole, Balanced
<1> QED BY <1>2, <1>3, <1>4, <1>6, <1>7 DEF IInv, Ahead, Finished

(* set_token finds a token that ends beyond the cursor, or none.           *)
LEMMA TokenSet ==
  ASSUME InputTyped, NEW from \in Nat \ {0}, NEW pos \in 0 .. End, set_token(from, pos)
  PROVE  /\ token_index' \in 1 .. Len(tokens) + 1
         /\ current_token_end' = {} \/ \E e \in pos + 1 .. End : current_token_end' = {e}
<1> DEFINE found == { i \in from .. Len(tokens) :
                        find_case_insensitive_end(pos, tokens[i].token) # {} }
<1>1. End \in Nat /\ Len(tokens) \in Nat
      /\ \A i \in 1 .. Len(tokens) : tokens[i].token \in Seq(STRING)
  BY Lengths
<1>2. CASE found = {}
  BY <1>1, <1>2 DEF set_token
<1>3. CASE found # {}
  <2>1. PICK i : i = Min(found)
    OBVIOUS
  <2>2. i \in found
    <3>1. found \subseteq Nat
      BY <1>1
    <3> HIDE DEF found
    <3> QED BY <1>3, <2>1, <3>1, MinIs
  <2>3. i \in 1 .. Len(tokens)
    BY <1>1, <2>2
  <2>4. /\ token_index' = i
        /\ current_token_end' = find_case_insensitive_end(pos, tokens[i].token)
    BY <1>3, <2>1 DEF set_token
  <2>5. PICK needle : needle = tokens[i].token
    OBVIOUS
  <2>6. needle \in Seq(STRING)
    BY <1>1, <2>3, <2>5
  <2>7. \/ find_case_insensitive_end(pos, needle) = {}
        \/ \E e \in pos + 1 .. End : find_case_insensitive_end(pos, needle) = {e}
    BY <2>6, SearchEnd DEF InputTyped
  <2> QED BY <1>1, <2>3, <2>4, <2>5, <2>7
<1> QED BY <1>2, <1>3
-----------------------------------------------------------------------------
(* What the steps keep, one lemma for each kind of step.                   *)
LEMMA InputKept ==
  ASSUME IInv, UNCHANGED input
  PROVE  InputTyped' /\ End' = End /\ Len(tokens') = Len(tokens) /\ End \in Nat
         /\ Len(tokens) \in Nat
<1>1. InputTyped
  BY DEF IInv
<1> QED BY <1>1, Lengths DEF input, InputTyped, End

LEMMA RunStep == IInv /\ Run => IInv'
<1> SUFFICES ASSUME IInv, Run PROVE IInv'
  OBVIOUS
<1>1. InputTyped' /\ End' = End /\ tokens' = tokens /\ End \in Nat /\ Len(tokens) \in Nat
  BY InputKept DEF Run, input
<1>2. /\ InputTyped /\ wiki_text_pos = 0 /\ jumped_elems = {} /\ open_span \in BOOLEAN
      /\ Written(out, wiki_text_pos, open_span)
  BY DEF IInv, Run
<1>3. UNCHANGED <<wiki_text_pos, open_span, jumped_elems, out>> /\ set_token(1, 0)
  BY DEF Run
<1>4. token_index' \in 1 .. Len(tokens) + 1 /\ Ahead(0)'
  <2>1. 1 \in Nat \ {0} /\ 0 \in 0 .. End
    BY <1>1
  <2>2. /\ token_index' \in 1 .. Len(tokens) + 1
        /\ current_token_end' = {} \/ \E e \in 0 + 1 .. End : current_token_end' = {e}
    BY <1>2, <1>3, <2>1, TokenSet
  <2> QED BY <1>1, <2>2 DEF Ahead
<1>5. Calls(frames, 0, {})'
  <2>1. PICK f : f = Call(TRUE, {}, FALSE, 0, {})
    OBVIOUS
  <2>2. PICK n : n = End
    OBVIOUS
  <2>3. f \in CallFrames(n) /\ LooksAhead(f, 0, {}) /\ f.elem = {}
    <3>1. PICK elem, spans, no_jump, jumped :
            elem = {} /\ spans = TRUE /\ no_jump = FALSE /\ jumped = {}
      OBVIOUS
    <3>2. /\ elem \in SUBSET Markups(End) /\ AtMostOne(elem) /\ (no_jump <=> Jumpless(elem))
          /\ \A se \in elem : SPECIAL_MARKUPS[se.markup_idx].no_jump => se.end >= 0
          /\ 0 \in 0 .. End /\ spans \in BOOLEAN /\ no_jump \in BOOLEAN
      <4>1. elem \in SUBSET Markups(End) /\ AtMostOne(elem)
        BY <3>1 DEF AtMostOne
      <4>2. spans \in BOOLEAN /\ no_jump \in BOOLEAN /\ ~no_jump /\ ~Jumpless(elem)
        BY <3>1 DEF Jumpless
      <4>3. \A se \in elem : SPECIAL_MARKUPS[se.markup_idx].no_jump => se.end >= 0
        BY <3>1
      <4> QED BY <1>1, <4>1, <4>2, <4>3
    <3>3. wiki_text \in Seq(STRING)
      BY <1>2 DEF InputTyped
    <3>4. /\ Call(spans, elem, no_jump, 0, jumped) \in CallFrames(End)
          /\ LooksAhead(Call(spans, elem, no_jump, 0, jumped), 0, jumped)
          /\ Call(spans, elem, no_jump, 0, jumped).elem = elem
      BY <3>2, <3>3, Called
    <3> QED BY <2>1, <2>2, <3>1, <3>4
  <2>4. frames' = <<f>>
    BY <2>1 DEF Run
  <2>5. <<f>> \in Seq(CallFrames(n)) /\ Len(<<f>>) = 1 /\ <<f>>[1] = f
    BY <2>3
  <2>6. End' = n
    BY <1>1, <2>2
  <2> QED BY <2>3, <2>4, <2>5, <2>6 DEF Calls
<1>6. frames' # <<>>
  BY DEF Run
<1> QED BY <1>1, <1>2, <1>3, <1>4, <1>5, <1>6 DEF IInv, Finished

LEMMA FlushRestStep == IInv /\ FlushRest => IInv'
<1> SUFFICES ASSUME IInv, FlushRest PROVE IInv'
  OBVIOUS
<1>1. InputTyped' /\ End' = End /\ tokens' = tokens /\ End \in Nat /\ Len(tokens) \in Nat
  BY InputKept DEF FlushRest, input
<1>2. /\ InputTyped /\ wiki_text_pos \in 0 .. End /\ open_span \in BOOLEAN
      /\ Written(out, wiki_text_pos, open_span)
      /\ Calls(frames, wiki_text_pos, jumped_elems) /\ token_index \in 0 .. Len(tokens) + 1
      /\ jumped_elems \in SUBSET (0 .. End)
      /\ token_index = 0 => frames = <<>>
  BY DEF IInv
<1>3. /\ frames # <<>> /\ current_token_end = {}
      /\ out' = Append(out, Text(wiki_text_pos, End)) \o Closing
      /\ open_span' = FALSE /\ wiki_text_pos' = End /\ frames' = Return(End)
      /\ UNCHANGED <<token_index, current_token_end, jumped_elems>>
  BY DEF FlushRest, Parsing
<1>4. Written(out', End, FALSE)
  <2>1. PICK o : o = Append(out, Text(wiki_text_pos, End))
    OBVIOUS
  <2>2. Written(o, End, open_span)
    BY <1>1, <1>2, <2>1, AddText
  <2>3. Written(o \o Closes(open_span), End, FALSE)
    <3>1. 0 \in Nat /\ TRUE \in BOOLEAN
      OBVIOUS
    <3> QED BY <1>2, <2>2, <3>1, TagsWritten
  <2>4. Closing = Closes(open_span)
    BY DEF Closing, Closes
  <2> QED BY <1>3, <2>1, <2>3, <2>4
<1>5. Calls(Return(End), End, jumped_elems)
  <2>1. End \in 0 .. End
    BY <1>1
  <2> QED BY <1>2, <1>3, <2>1, Returned DEF InputTyped
<1>6. Calls(frames, wiki_text_pos, jumped_elems)'
  BY <1>1, <1>3, <1>5 DEF Calls
<1>7. End' \in 0 .. End'
  BY <1>1
<1>8. Written(out', wiki_text_pos', open_span')
  BY <1>3, <1>4
<1> QED BY <1>1, <1>2, <1>3, <1>6, <1>7, <1>8 DEF IInv, Ahead, Finished

LEMMA EndOfBufferStep ==
  ASSUME IInv, EndOfBuffer
  PROVE  IInv' /\ Len(frames') < Len(frames)
<1>1. InputTyped' /\ End' = End /\ tokens' = tokens /\ End \in Nat /\ Len(tokens) \in Nat
  BY InputKept DEF EndOfBuffer, input
<1>2. /\ InputTyped /\ wiki_text_pos \in 0 .. End /\ open_span \in BOOLEAN
      /\ Written(out, wiki_text_pos, open_span)
      /\ Calls(frames, wiki_text_pos, jumped_elems) /\ token_index \in 0 .. Len(tokens) + 1
      /\ jumped_elems \in SUBSET (0 .. End) /\ Ahead(wiki_text_pos)
      /\ token_index = 0 => frames = <<>>
  BY DEF IInv
<1>3. /\ frames # <<>> /\ wiki_text_pos >= End
      /\ out' = out \o Closing
      /\ open_span' = FALSE /\ frames' = Return(wiki_text_pos)
      /\ UNCHANGED <<token_index, current_token_end, wiki_text_pos, jumped_elems>>
  BY DEF EndOfBuffer
<1>4. Written(out', wiki_text_pos, FALSE)
  <2>1. Written(out \o Closes(open_span), wiki_text_pos, FALSE)
    <3>1. 0 \in Nat /\ TRUE \in BOOLEAN
      OBVIOUS
    <3> QED BY <1>2, <3>1, TagsWritten
  <2>2. Closing = Closes(open_span)
    BY DEF Closing, Closes
  <2> QED BY <1>3, <2>1, <2>2
<1>5. /\ Calls(Return(wiki_text_pos), wiki_text_pos, jumped_elems)
      /\ Len(Return(wiki_text_pos)) = Len(frames) - 1 /\ Len(frames) \in Nat
  BY <1>2, <1>3, Returned DEF InputTyped
<1>6. Calls(frames, wiki_text_pos, jumped_elems)'
  BY <1>1, <1>3, <1>5 DEF Calls
<1>7. wiki_text_pos = End
  BY <1>1, <1>2, <1>3
<1>8. IInv'
  BY <1>1, <1>2, <1>3, <1>4, <1>6, <1>7 DEF IInv, Ahead, Finished
<1> QED BY <1>3, <1>5, <1>8

LEMMA EndOfElementStep ==
  ASSUME IInv, EndOfElement
  PROVE  IInv' /\ wiki_text_pos' >= wiki_text_pos /\ Len(frames') < Len(frames)
<1>1. InputTyped' /\ End' = End /\ tokens' = tokens /\ End \in Nat /\ Len(tokens) \in Nat
  BY InputKept DEF EndOfElement, input
<1>2. /\ InputTyped /\ wiki_text_pos \in 0 .. End /\ open_span \in BOOLEAN
      /\ Written(out, wiki_text_pos, open_span)
      /\ Calls(frames, wiki_text_pos, jumped_elems) /\ token_index \in 0 .. Len(tokens) + 1
      /\ jumped_elems \in SUBSET (0 .. End) /\ Ahead(wiki_text_pos)
      /\ token_index = 0 => frames = <<>>
  BY DEF IInv
<1>3. PICK see \in Outer :
        /\ out' = Append(out, Text(wiki_text_pos, see.end))
        /\ wiki_text_pos' = see.end
        /\ frames' = Return(see.end)
  BY DEF EndOfElement
<1>4. /\ frames # <<>> /\ current_token_end # {}
      /\ UNCHANGED <<token_index, current_token_end, open_span, jumped_elems>>
  BY DEF EndOfElement, Parsing
<1>5. /\ Len(frames) \in Nat /\ Len(frames) # 0 /\ Head(frames) = frames[1]
      /\ \A k \in 1 .. Len(frames) : frames[k] \in CallFrames(End)
      /\ frames[Len(frames)].elem = {}
      /\ LooksAhead(frames[1], wiki_text_pos, jumped_elems)
  BY <1>2, <1>4, LenProperties, EmptySeq DEF Calls
<1>6. /\ see \in frames[1].end /\ see.end \in wiki_text_pos .. End
      /\ \A token_end \in current_token_end : see.end < token_end
  <2>1. see \in frames[1].end /\ \A token_end \in current_token_end : see.end < token_end
    BY <1>3, <1>5 DEF Outer
  <2>2. see.end >= wiki_text_pos
    BY <1>5, <2>1 DEF LooksAhead
  <2>3. see \in Places(End)
    <3>1. frames[1] \in CallFrames(End)
      BY <1>5
    <3> QED BY <2>1, <3>1 DEF CallFrames
  <2>4. see.end \in 0 .. End
    BY <2>3 DEF Places
  <2> QED BY <1>1, <1>2, <2>1, <2>2, <2>4
<1>7. PICK p \in 0 .. End : p = see.end
  BY <1>1, <1>2, <1>6
<1>8. Written(out', p, open_span)
  <2>1. wiki_text_pos \in Nat /\ p \in Nat /\ wiki_text_pos <= p
    BY <1>1, <1>2, <1>6, <1>7
  <2> QED BY <1>2, <1>3, <1>7, <2>1, AddText
<1>9. Calls(Return(p), p, jumped_elems) /\ Len(Return(p)) = Len(frames) - 1
  BY <1>2, <1>4, Returned DEF InputTyped
<1>10. Calls(frames, wiki_text_pos, jumped_elems)'
  BY <1>1, <1>3, <1>4, <1>7, <1>9 DEF Calls
<1>11. frames' # <<>>
  <2>1. Len(frames) # 1
    <3>1. frames[Len(frames)] \in CallFrames(End)
      BY <1>5
    <3>2. frames[Len(frames)].end = {}
      BY <1>5, <3>1 DEF CallFrames
    <3> QED BY <1>6, <3>2
  <2>2. Len(frames') = Len(frames) - 1
    BY <1>3, <1>7, <1>9
  <2>3. Len(<<>>) = 0
    OBVIOUS
  <2> QED BY <1>5, <2>1, <2>2, <2>3
<1>12. Ahead(wiki_text_pos)'
  <2>1. PICK e \in wiki_text_pos + 1 .. End : current_token_end = {e}
    BY <1>2, <1>4 DEF Ahead
  <2>2. e \in p + 1 .. End
    BY <1>1, <1>2, <1>6, <1>7, <2>1
  <2> QED BY <1>1, <1>3, <1>4, <1>7, <2>1, <2>2 DEF Ahead
<1>13. wiki_text_pos' \in 0 .. End' /\ wiki_text_pos' >= wiki_text_pos /\ token_index # 0
  BY <1>1, <1>2, <1>3, <1>4, <1>6, <1>7
<1>14. Written(out', wiki_text_pos', open_span')
  BY <1>3, <1>4, <1>7, <1>8
<1>15. IInv'
  BY <1>1, <1>2, <1>4, <1>10, <1>11, <1>12, <1>13, <1>14 DEF IInv, Finished
<1> QED BY <1>3, <1>5, <1>7, <1>9, <1>13, <1>15

LEMMA NormalTokenStep ==
  ASSUME IInv, NormalToken
  PROVE  IInv' /\ wiki_text_pos' > wiki_text_pos
<1>1. InputTyped' /\ End' = End /\ tokens' = tokens /\ End \in Nat /\ Len(tokens) \in Nat
  BY InputKept DEF NormalToken, input
<1>2. /\ InputTyped /\ wiki_text_pos \in 0 .. End /\ open_span \in BOOLEAN
      /\ Written(out, wiki_text_pos, open_span)
      /\ Calls(frames, wiki_text_pos, jumped_elems) /\ token_index \in 0 .. Len(tokens) + 1
      /\ jumped_elems \in SUBSET (0 .. End) /\ Ahead(wiki_text_pos)
  BY DEF IInv
<1>3. PICK e \in current_token_end :
        /\ out' = Append(out \o (IF Head(frames).add_spans THEN add_spans(TRUE) ELSE <<>>),
                         Text(wiki_text_pos, e))
        /\ open_span' = (open_span \/ Head(frames).add_spans)
        /\ wiki_text_pos' = e
        /\ set_token(token_index + 1, e)
  BY DEF NormalToken
<1>4. /\ frames # <<>> /\ Descends(Head(frames)) = {} /\ Outer = {}
      /\ UNCHANGED <<jumped_elems, frames>>
  BY DEF NormalToken, Parsing
<1>5. /\ Head(frames) = frames[1] /\ frames[1] \in CallFrames(End)
      /\ LooksAhead(frames[1], wiki_text_pos, jumped_elems)
  <2>1. 1 \in 1 .. Len(frames)
    BY <1>2, <1>4, LenProperties, EmptySeq DEF Calls
  <2> QED BY <1>2, <1>4, <2>1, LenProperties DEF Calls
<1>6. e \in wiki_text_pos + 1 .. End /\ current_token_end = {e}
  BY <1>2, <1>3 DEF Ahead
<1>7. e \in 0 .. End /\ e > wiki_text_pos
  BY <1>1, <1>2, <1>6
<1>8. token_index' \in 1 .. Len(tokens) + 1 /\ Ahead(e)'
  <2>1. PICK from : from = token_index + 1
    OBVIOUS
  <2>2. from \in Nat \ {0} /\ set_token(from, e)
    BY <1>1, <1>2, <1>3, <2>1
  <2>3. /\ token_index' \in 1 .. Len(tokens) + 1
        /\ current_token_end' = {} \/ \E f \in e + 1 .. End : current_token_end' = {f}
    BY <1>2, <1>7, <2>2, TokenSet
  <2> QED BY <1>1, <2>3 DEF Ahead
<1>9. Written(out', e, open_span')
  <2>1. Head(frames).add_spans \in BOOLEAN
    BY <1>5 DEF CallFrames
  <2>2. wiki_text_pos \in Nat /\ e \in Nat /\ wiki_text_pos <= e /\ token_index \in Nat
    BY <1>1, <1>2, <1>7
  <2>3. CASE Head(frames).add_spans
    <3>1. PICK o, new, id : o = out \o add_spans(TRUE) /\ new = TRUE /\ id = token_index
      OBVIOUS
    <3>2. add_spans(TRUE) = Closes(open_span) \o Opening(id, new)
      BY <3>1 DEF add_spans, Closing, Closes, Opening
    <3>3. Written(o, wiki_text_pos, new)
      BY <1>2, <2>2, <3>1, <3>2, TagsWritten
    <3>4. Written(Append(o, Text(wiki_text_pos, e)), e, new)
      BY <2>2, <3>3, AddText
    <3>5. out' = Append(o, Text(wiki_text_pos, e)) /\ open_span' = new
      BY <1>3, <2>3, <3>1
    <3> QED BY <3>4, <3>5
  <2>4. CASE ~Head(frames).add_spans
    <3>1. out \o <<>> = out
      BY <1>2, ConcatEmptySeq DEF Written
    <3>2. out' = Append(out, Text(wiki_text_pos, e)) /\ open_span' = open_span
      BY <1>2, <1>3, <2>4, <3>1
    <3> QED BY <1>2, <2>2, <3>2, AddText
  <2> QED BY <2>1, <2>3, <2>4
<1>10. LooksAhead(frames[1], e, jumped_elems)
  <2>1. PICK f : f = frames[1]
    OBVIOUS
  <2>2. /\ f \in CallFrames(End) /\ LooksAhead(f, wiki_text_pos, jumped_elems)
        /\ \A see \in f.end : see.start \in 0 .. End /\ see.end \in 0 .. End
        /\ \A nse \in f.next : nse.start \in 0 .. End
    BY <1>5, <2>1 DEF CallFrames, Places, Markups
  <2>3. ASSUME NEW see \in f.end PROVE see.end >= e
    <3>1. ~(see.end < e)
      BY <1>4, <1>5, <1>6, <2>1 DEF Outer
    <3> QED BY <1>1, <1>7, <2>2, <3>1
  <2>4. ASSUME NEW nse \in f.next
        PROVE  /\ nse.start \notin jumped_elems
               /\ nse.start >= e \/ \E see \in f.end : see.start <= e \/ nse.start >= see.start
    <3>1. /\ nse.start \notin jumped_elems
          /\ nse.start >= wiki_text_pos
               \/ \E see \in f.end : see.start <= wiki_text_pos \/ nse.start >= see.start
      BY <2>2 DEF LooksAhead
    <3>2. \/ \E see \in f.end : ~(wiki_text_pos < see.start /\ nse.start < see.start)
          \/ ~(nse.start < e)
      <4>1. ~f.no_jump
        BY <2>2 DEF CallFrames
      <4>2. nse \notin Descends(f)
        BY <1>4, <1>5, <2>1
      <4> QED BY <1>6, <4>1, <4>2 DEF Descends
    <3>3. CASE ~(nse.start < e)
      BY <1>1, <1>7, <2>2, <3>1, <3>3
    <3>4. ASSUME NEW see \in f.end, ~(wiki_text_pos < see.start /\ nse.start < see.start)
          PROVE  see.start <= e \/ nse.start >= see.start
      <4>1. see.start \in Int /\ nse.start \in Int /\ wiki_text_pos \in Int /\ e \in Int
        BY <1>1, <1>2, <1>7, <2>2
      <4> QED BY <1>7, <3>4, <4>1
    <3> QED BY <3>1, <3>2, <3>3, <3>4
  <2> QED BY <2>1, <2>3, <2>4 DEF LooksAhead
<1>11. Calls(frames, e, jumped_elems)
  BY <1>2, <1>4, <1>10 DEF Calls
<1>12. Calls(frames, wiki_text_pos, jumped_elems)'
  BY <1>1, <1>3, <1>4, <1>11 DEF Calls
<1>13. open_span' \in BOOLEAN
  BY <1>2, <1>3, <1>5 DEF CallFrames
<1>14. Ahead(wiki_text_pos)' /\ Written(out, wiki_text_pos, open_span)'
  BY <1>3, <1>8, <1>9 DEF Ahead
<1>15. /\ token_index' \in 0 .. Len(tokens') + 1 /\ token_index' # 0 /\ frames' # <<>>
       /\ wiki_text_pos' \in 0 .. End' /\ jumped_elems' \in SUBSET (0 .. End')
  BY <1>1, <1>2, <1>3, <1>4, <1>7, <1>8
<1>16. IInv'
  BY <1>1, <1>12, <1>13, <1>14, <1>15 DEF IInv, Finished
<1> QED BY <1>3, <1>7, <1>16

LEMMA JumpInStep ==
  ASSUME IInv, JumpIn
  PROVE  /\ IInv'
         /\ wiki_text_pos' = wiki_text_pos
         /\ jumped_elems' # jumped_elems /\ jumped_elems \subseteq jumped_elems'
<1>1. InputTyped' /\ End' = End /\ tokens' = tokens /\ End \in Nat /\ Len(tokens) \in Nat
  BY InputKept DEF JumpIn, input
<1>2. /\ InputTyped /\ wiki_text_pos \in 0 .. End /\ open_span \in BOOLEAN
      /\ Written(out, wiki_text_pos, open_span)
      /\ Calls(frames, wiki_text_pos, jumped_elems) /\ token_index \in 0 .. Len(tokens) + 1
      /\ jumped_elems \in SUBSET (0 .. End) /\ Ahead(wiki_text_pos)
      /\ token_index = 0 => frames = <<>>
  BY DEF IInv
<1>0. PICK nse \in Descends(Head(frames)) : \E jumped, markup :
        /\ markup = SPECIAL_MARKUPS[nse.markup_idx]
        /\ jumped = jumped_elems \cup {nse.start}
        /\ jumped_elems' = jumped
        /\ IF Head(frames).add_spans
           THEN out' = out \o add_spans(~markup.no_spans) /\ open_span' = ~markup.no_spans
           ELSE UNCHANGED <<out, open_span>>
        /\ frames' = <<Call(FALSE, {nse}, markup.no_jump, wiki_text_pos, jumped)>> \o frames
  BY DEF JumpIn
<1>3. PICK jumped, markup :
        /\ nse \in Descends(Head(frames))
        /\ markup = SPECIAL_MARKUPS[nse.markup_idx]
        /\ jumped = jumped_elems \cup {nse.start}
        /\ jumped_elems' = jumped
        /\ IF Head(frames).add_spans
           THEN out' = out \o add_spans(~markup.no_spans) /\ open_span' = ~markup.no_spans
           ELSE UNCHANGED <<out, open_span>>
        /\ frames' = <<Call(FALSE, {nse}, markup.no_jump, wiki_text_pos, jumped)>> \o frames
  BY <1>0
<1>4. frames # <<>> /\ UNCHANGED <<token_index, current_token_end, wiki_text_pos>>
  BY DEF JumpIn, Parsing
<1>5. PICK n, f : n = End /\ f = frames[1]
  OBVIOUS
<1>6. /\ frames \in Seq(CallFrames(n)) /\ Len(frames) \in Nat \ {0}
      /\ Head(frames) = f /\ f \in CallFrames(n)
      /\ LooksAhead(f, wiki_text_pos, jumped_elems)
      /\ \A k \in 2 .. Len(frames) : ~frames[k].no_jump
      /\ frames[Len(frames)].elem = {}
  <2>1. frames \in Seq(CallFrames(n)) /\ Len(frames) \in Nat \ {0}
    BY <1>2, <1>4, <1>5, NonEmptySeq DEF Calls
  <2>2. 1 \in 1 .. Len(frames)
    BY <2>1
  <2>3. f \in CallFrames(n)
    BY <1>5, <2>1, <2>2, LenProperties
  <2> QED BY <1>2, <1>4, <1>5, <2>1, <2>3 DEF Calls
<1>7. /\ nse \in f.next /\ ~f.no_jump /\ nse \in Markups(n) /\ nse.start \notin jumped_elems
      /\ nse.start \in 0 .. n /\ nse.start <= nse.end /\ nse.end \in 0 .. n
      /\ nse.markup_idx \in 1 .. 15 /\ nse.start >= wiki_text_pos
  <2>1. /\ nse \in f.next /\ ~f.no_jump
        /\ \A see \in f.end : wiki_text_pos < see.start /\ nse.start < see.start
    BY <1>3, <1>6 DEF Descends
  <2>2. nse \in Markups(n) /\ \A see \in f.end : see.start \in 0 .. n
    BY <1>6, <2>1 DEF CallFrames, Places
  <2>3. /\ nse.start \in 0 .. n /\ nse.start <= nse.end /\ nse.end \in 0 .. n
        /\ nse.markup_idx \in 1 .. 15
    BY <2>2 DEF Markups
  <2>4. /\ nse.start \notin jumped_elems
        /\ nse.start >= wiki_text_pos
             \/ \E see \in f.end : see.start <= wiki_text_pos \/ nse.start >= see.start
    BY <1>6, <2>1 DEF LooksAhead
  <2>5. nse.start >= wiki_text_pos
    <3>1. ASSUME NEW see \in f.end
          PROVE  ~(see.start <= wiki_text_pos \/ nse.start >= see.start)
      <4>1. see.start \in Int /\ nse.start \in Int /\ wiki_text_pos \in Int
        BY <1>1, <1>2, <1>5, <2>2, <2>3
      <4> QED BY <2>1, <4>1
    <3> QED BY <2>4, <3>1
  <2> QED BY <2>1, <2>2, <2>3, <2>4, <2>5
<1>8. markup.no_jump \in BOOLEAN /\ markup.no_spans \in BOOLEAN
  BY <1>3, <1>7, MarkupTable
<1>9. PICK elem, no_jump, spans : elem = {nse} /\ no_jump = markup.no_jump /\ spans = FALSE
  OBVIOUS
<1>10. PICK g : g = Call(spans, elem, no_jump, wiki_text_pos, jumped)
  OBVIOUS
<1>11. g \in CallFrames(n) /\ LooksAhead(g, wiki_text_pos, jumped) /\ g.elem = elem
  <2>1. elem \in SUBSET Markups(End) /\ AtMostOne(elem)
    BY <1>5, <1>7, <1>9 DEF AtMostOne
  <2>2. spans \in BOOLEAN /\ no_jump \in BOOLEAN /\ (no_jump <=> Jumpless(elem))
    BY <1>3, <1>8, <1>9 DEF Jumpless
  <2>3. \A se \in elem : SPECIAL_MARKUPS[se.markup_idx].no_jump => se.end >= wiki_text_pos
    <3>1. nse.end >= wiki_text_pos
      BY <1>1, <1>2, <1>5, <1>7
    <3> QED BY <1>9, <3>1
  <2> QED BY <1>2, <1>5, <1>10, <2>1, <2>2, <2>3, Called DEF InputTyped
<1>12. Calls(frames', wiki_text_pos, jumped)
  <2>1. PICK fs : fs = <<g>> \o frames
    OBVIOUS
  <2>2. frames' = fs
    BY <1>3, <1>9, <1>10, <2>1
  <2>3. <<g>> \in Seq(CallFrames(n)) /\ Len(<<g>>) = 1 /\ <<g>>[1] = g
    BY <1>11
  <2>4. /\ fs \in Seq(CallFrames(n)) /\ Len(fs) = 1 + Len(frames)
        /\ \A i \in 1 .. 1 + Len(frames) : fs[i] = IF i <= 1 THEN <<g>>[i] ELSE frames[i - 1]
    BY <1>6, <2>1, <2>3, ConcatProperties
  <2>5. fs[1] = g /\ fs[Len(fs)] = frames[Len(frames)] /\ fs # <<>>
    <3>1. 1 \in 1 .. 1 + Len(frames) /\ Len(fs) \in 1 .. 1 + Len(frames) /\ ~(Len(fs) <= 1)
          /\ Len(fs) - 1 = Len(frames) /\ Len(fs) # 0 /\ 1 <= 1
      BY <1>6, <2>4
    <3>2. fs[1] = g
      BY <2>3, <2>4, <3>1
    <3>3. fs[Len(fs)] = frames[Len(frames)]
      BY <2>4, <3>1
    <3> QED BY <2>4, <3>1, <3>2, <3>3, EmptySeq
  <2>6. \A k \in 2 .. Len(fs) : ~fs[k].no_jump
    <3> TAKE k \in 2 .. Len(fs)
    <3>1. k \in 1 .. 1 + Len(frames) /\ ~(k <= 1) /\ k - 1 \in 1 .. Len(frames)
      BY <1>6, <2>4
    <3>2. fs[k] = frames[k - 1]
      BY <2>4, <3>1
    <3>3. CASE k = 2
      BY <1>5, <1>7, <3>2, <3>3
    <3>4. CASE k # 2
      <4>1. k - 1 \in 2 .. Len(frames)
        BY <1>6, <3>1, <3>4
      <4> QED BY <1>6, <3>2, <4>1
    <3> QED BY <3>3, <3>4
  <2> QED BY <1>5, <1>6, <1>11, <2>2, <2>4, <2>5, <2>6 DEF Calls
<1>13. Calls(frames, wiki_text_pos, jumped_elems)'
  BY <1>1, <1>3, <1>4, <1>12 DEF Calls
<1>14. Written(out', wiki_text_pos, open_span') /\ open_span' \in BOOLEAN
  <2>1. CASE Head(frames).add_spans
    <3>1. PICK new, id : new = ~markup.no_spans /\ id = token_index
      OBVIOUS
    <3>2. new \in BOOLEAN /\ id \in Nat
      BY <1>1, <1>2, <1>8, <3>1
    <3>3. add_spans(~markup.no_spans) = Closes(open_span) \o Opening(id, new)
      BY <3>1 DEF add_spans, Closing, Closes, Opening
    <3>4. out' = out \o (Closes(open_span) \o Opening(id, new)) /\ open_span' = new
      BY <1>3, <2>1, <3>1, <3>3
    <3> QED BY <1>2, <3>2, <3>4, TagsWritten
  <2>2. CASE ~Head(frames).add_spans
    BY <1>2, <1>3, <2>2
  <2> QED BY <2>1, <2>2
<1>15. /\ token_index' \in 0 .. Len(tokens') + 1 /\ token_index' # 0
       /\ wiki_text_pos' \in 0 .. End' /\ jumped_elems' \in SUBSET (0 .. End')
       /\ Ahead(wiki_text_pos)'
  BY <1>1, <1>2, <1>3, <1>4, <1>5, <1>7 DEF Ahead
<1>16. frames' # <<>>
  <2>1. Len(frames') # 0
    <3>1. <<g>> \in Seq(CallFrames(n)) /\ Len(<<g>>) = 1
      BY <1>11
    <3>2. frames' = <<g>> \o frames
      BY <1>3, <1>9, <1>10
    <3>3. Len(frames') = 1 + Len(frames)
      BY <1>6, <3>1, <3>2, ConcatProperties
    <3> QED BY <1>6, <3>3
  <2>2. Len(<<>>) = 0
    OBVIOUS
  <2> QED BY <2>1, <2>2
<1>17. IInv'
  <2>1. Written(out, wiki_text_pos, open_span)'
    BY <1>4, <1>14
  <2> QED BY <1>1, <1>13, <1>14, <1>15, <1>16, <2>1 DEF IInv, Finished
<1> QED BY <1>3, <1>4, <1>7, <1>17

(* No other step touches what the invariant is about.                      *)
LEMMA StutterStep == IInv /\ UNCHANGED vars => IInv'
<1> SUFFICES ASSUME IInv, UNCHANGED vars PROVE IInv'
  OBVIOUS
<1>1. InputTyped' /\ End' = End /\ Len(tokens') = Len(tokens) /\ UNCHANGED input
  BY InputKept DEF vars
<1>2. UNCHANGED <<token_index, current_token_end, wiki_text_pos, open_span, jumped_elems,
                  out, frames>>
  BY DEF vars
<1> QED BY <1>1, <1>2 DEF IInv, Ahead, Calls, Finished

(* The walk's invariant, in every state. *)
THEOREM WalkInvariant == Spec => []IInv
<1>1. Init => IInv
  BY InitWalk
<1>2. IInv /\ [Next]_vars => IInv'
  <2> SUFFICES ASSUME IInv, [Next]_vars PROVE IInv'
    OBVIOUS
  <2>1. CASE Run
    BY <2>1, RunStep
  <2>2. CASE FlushRest
    BY <2>2, FlushRestStep
  <2>3. CASE JumpIn
    BY <2>3, JumpInStep
  <2>4. CASE EndOfElement
    BY <2>4, EndOfElementStep
  <2>5. CASE NormalToken
    BY <2>5, NormalTokenStep
  <2>6. CASE EndOfBuffer
    BY <2>6, EndOfBufferStep
  <2>7. CASE Done \/ UNCHANGED vars
    BY <2>7, StutterStep DEF Done
  <2> QED BY <2>1, <2>2, <2>3, <2>4, <2>5, <2>6, <2>7 DEF Next
<1> QED BY <1>1, <1>2, PTL DEF Spec

(* Positions, tokens and calls stay within the text (TypeOK).              *)
THEOREM SpanTypes == Spec => []TypeOK
<1>1. IInv => TypeOK
  <2> SUFFICES ASSUME IInv PROVE TypeOK
    OBVIOUS
  <2>1. End \in Nat /\ Len(tokens) \in Nat /\ wiki_text_pos \in 0 .. End
    BY Lengths DEF IInv
  <2>2. current_token_end \in { {} } \cup { {e} : e \in 1 .. End }
    <3>1. CASE current_token_end = {}
      BY <3>1
    <3>2. ASSUME NEW e \in wiki_text_pos + 1 .. End, current_token_end = {e}
          PROVE  current_token_end \in { {d} : d \in 1 .. End }
      <4>1. e \in 1 .. End
        BY <2>1
      <4> QED BY <3>2, <4>1
    <3> QED BY <3>1, <3>2 DEF IInv, Ahead
  <2>3. ASSUME NEW x, AtMostOne(x) PROVE Cardinality(x) <= 1
    <3>1. CASE x = {}
      BY <3>1, FS_EmptySet
    <3>2. CASE x # {}
      <4>1. PICK a : x = {a}
        BY <2>3, <3>2 DEF AtMostOne
      <4> QED BY <4>1, FS_Singleton
    <3> QED BY <3>1, <3>2
  <2>4. ASSUME NEW k \in DOMAIN frames
        PROVE  /\ frames[k].add_spans \in BOOLEAN /\ frames[k].no_jump \in BOOLEAN
               /\ \A x \in {frames[k].elem, frames[k].end, frames[k].next} :
                    Cardinality(x) <= 1 /\ \A m \in x : m.start \in 0 .. m.end /\ m.end <= End
    <3>1. PICK f : f = frames[k]
      OBVIOUS
    <3>2. f \in CallFrames(End)
      BY <3>1, LenProperties DEF IInv, Calls
    <3>3. /\ f.add_spans \in BOOLEAN /\ f.no_jump \in BOOLEAN
          /\ AtMostOne(f.elem) /\ AtMostOne(f.end) /\ AtMostOne(f.next)
          /\ f.elem \in SUBSET Markups(End) /\ f.end \in SUBSET Places(End)
          /\ f.next \in SUBSET Markups(End)
      BY <3>2 DEF CallFrames
    <3>4. \A m \in Markups(End) \cup Places(End) : m.start \in 0 .. m.end /\ m.end <= End
      BY <2>1 DEF Markups, Places
    <3>5. ASSUME NEW x \in {f.elem, f.end, f.next}
          PROVE  Cardinality(x) <= 1 /\ \A m \in x : m.start \in 0 .. m.end /\ m.end <= End
      <4>1. AtMostOne(x) /\ x \subseteq Markups(End) \cup Places(End)
        BY <3>3
      <4> QED BY <2>3, <3>4, <4>1
    <3> QED BY <3>1, <3>3, <3>5
  <2> QED BY <2>1, <2>2, <2>4 DEF TypeOK, IInv
<1> QED BY <1>1, WalkInvariant, PTL

(* For every text: what the injection writes is, without its tags, the     *)
(* text itself, whatever markup nests, crosses or never ends.              *)
THEOREM TextIsPreserved == Spec => []TextPreserved
<1>1. IInv => TextPreserved
  <2> SUFFICES ASSUME IInv PROVE TextPreserved
    OBVIOUS
  <2>1. Whole(out, wiki_text_pos) /\ (Finished => wiki_text_pos = End)
    BY DEF IInv, Written
  <2>2. Slices = SlicesOf(out)
    BY DEF Slices, SlicesOf
  <2>3. ASSUME NEW k PROVE TagAt(k) = TextTo(out, k)
    BY <2>2 DEF TagAt, TextTo
  <2> QED BY <2>1, <2>2, <2>3 DEF TextPreserved, Whole
<1> QED BY <1>1, WalkInvariant, PTL

(* For every text: a span is closed before the next one opens, and the     *)
(* last one before the injection returns, on every path of the recursion.  *)
THEOREM SpansAreBalanced == Spec => []SpansBalanced
<1>1. IInv => SpansBalanced
  <2> SUFFICES ASSUME IInv PROVE SpansBalanced
    OBVIOUS
  <2>1. Balanced(out, open_span) /\ (Finished => ~open_span)
    BY DEF IInv, Written
  <2>2. Slices = SlicesOf(out) /\ Tags = TagsOf(out)
    BY DEF Slices, SlicesOf, Tags, TagsOf
  <2>3. ASSUME NEW k PROVE OpenAt(k) <=> OpenIn(out, k)
    BY <2>2 DEF OpenAt, OpenIn
  <2> QED BY <2>1, <2>2, <2>3 DEF SpansBalanced, Balanced
<1> QED BY <1>1, WalkInvariant, PTL

(* For every text: each step moves the cursor on, or descends into markup  *)
(* it has not descended into before, or returns from a call.  As there are *)
(* only so many positions and calls, the recursion ends.                   *)
THEOREM EveryStepAdvances == Spec => InjectionAdvances
<1>1. ASSUME IInv, IInv', [Next]_vars
      PROVE  [token_index > 0 =>
                \/ wiki_text_pos' > wiki_text_pos
                \/ /\ wiki_text_pos' = wiki_text_pos
                   /\ \/ jumped_elems' # jumped_elems /\ jumped_elems \subseteq jumped_elems'
                      \/ jumped_elems' = jumped_elems /\ Len(frames') < Len(frames)]_vars
  <2>1. CASE Run
    BY <2>1 DEF Run
  <2>2. CASE FlushRest
    <3>1. wiki_text_pos < End /\ wiki_text_pos' = End
      BY <2>2 DEF FlushRest, Parsing
    <3> QED BY <3>1
  <2>3. CASE JumpIn
    BY <1>1, <2>3, JumpInStep
  <2>4. CASE EndOfElement
    <3>1. wiki_text_pos' >= wiki_text_pos /\ Len(frames') < Len(frames)
      BY <1>1, <2>4, EndOfElementStep
    <3>2. jumped_elems' = jumped_elems
      BY <2>4 DEF EndOfElement
    <3>3. wiki_text_pos \in Int /\ wiki_text_pos' \in Int
      <4>1. wiki_text_pos \in 0 .. End /\ wiki_text_pos' \in 0 .. End'
        BY <1>1 DEF IInv
      <4> QED BY <4>1
    <3>4. wiki_text_pos' > wiki_text_pos \/ wiki_text_pos' = wiki_text_pos
      BY <3>1, <3>3
    <3> QED BY <3>1, <3>2, <3>4
  <2>5. CASE NormalToken
    BY <1>1, <2>5, NormalTokenStep
  <2>6. CASE EndOfBuffer
    <3>1. Len(frames') < Len(frames)
      BY <1>1, <2>6, EndOfBufferStep
    <3> QED BY <2>6, <3>1 DEF EndOfBuffer
  <2>7. CASE Done \/ UNCHANGED vars
    BY <2>7 DEF Done
  <2> QED BY <1>1, <2>1, <2>2, <2>3, <2>4, <2>5, <2>6, <2>7 DEF Next
<1> QED BY <1>1, WalkInvariant, PTL DEF Spec, InjectionAdvances
=============================================================================
