----------------------------- MODULE WikitextSpans -----------------------------
(***************************************************************************)
(* crates/wikiwho-server/src/whocolor_wikitext.rs: inject_spans_into_      *)
(* wikitext walks a page's wikitext in the order of its tokens and wraps   *)
(* each token in an editor's <span>, except where markup forbids it.  The  *)
(* recursive parse_wiki_text is a stack of frames, one action per way      *)
(* through its loop; set_token and the closing of a span belong to the     *)
(* action that calls them.                                                 *)
(*                                                                         *)
(* A text is a sequence of characters; a piece of markup that no pattern   *)
(* cuts in two, such as the start of a tag, is one character.  A position  *)
(* is the number of characters before it.  An option is a set of at most   *)
(* one element.                                                            *)
(***************************************************************************)
EXTENDS Integers, Sequences, FiniteSets, FiniteSetsExt, SequencesExt

CONSTANTS
  Piece,                \* [chars, token, editor]: what texts are made of
  MaxPieces,            \* bound: the pieces of a text
  REGEX_HELPER_PATTERN  \* what stands for a line break while parsing

ASSUME SpansAssumption ==
  /\ MaxPieces \in Nat
  /\ \A piece \in Piece : piece.chars \in Seq(STRING) /\ piece.token \in Seq(STRING)
  /\ REGEX_HELPER_PATTERN \in Seq(STRING) \ {<<>>}

VARIABLES
  wikitext,             \* the pieces of the input
  wiki_text, tokens,    \* its characters, line breaks replaced, and its tokens
  token_index,          \* the token the cursor is heading for
  current_token_end,    \* where it ends, if it is in the rest of the text
  wiki_text_pos,        \* the cursor
  open_span,
  jumped_elems,         \* where markup was entered already
  out,                  \* the output: slices of the text and tags
  present_editors,      \* in the order they were seen: [editor, count]
  frames                \* calls of parse_wiki_text, the innermost first

input == <<wikitext, wiki_text, tokens>>
vars  == <<input, token_index, current_token_end, wiki_text_pos, open_span,
           jumped_elems, out, present_editors, frames>>
-----------------------------------------------------------------------------
(* The input: the text after Parser::new, and its tokens.  A piece without *)
(* a token is white space; one without characters is a token of another    *)
(* text.                                                                   *)
LineBreak == {"\r\n", "\n", "\r"}
Substituted(chars) ==
  FlattenSeq([i \in DOMAIN chars |->
                IF chars[i] \in LineBreak THEN REGEX_HELPER_PATTERN ELSE <<chars[i]>>])
TextOf(pieces) == FlattenSeq([i \in DOMAIN pieces |-> Substituted(pieces[i].chars)])

TokensOf(pieces) ==
  FlattenSeq([i \in DOMAIN pieces |->
                IF pieces[i].token # <<>> THEN <<pieces[i]>> ELSE <<>>])

End == Len(wiki_text)

(* to_lowercase: a capital may become two characters. *)
Lower == [c \in {"A", "B", "W", "L", "I."} |->
            CASE c = "A" -> <<"a">> [] c = "B" -> <<"b">> [] c = "W" -> <<"w">>
              [] c = "L" -> <<"l">> [] OTHER -> <<"i", "dot">>]
ToLower(s) ==
  FlattenSeq([i \in DOMAIN s |-> IF s[i] \in DOMAIN Lower THEN Lower[s[i]] ELSE <<s[i]>>])

Slice(from, to) == SubSeq(wiki_text, from + 1, to)

(* find_case_insensitive_end: the end of the first match, the shortest one *)
(* from its start. *)
EndByNeedle(from, needle) ==          \* seeded fault: the needle's length is added
  LET lower  == ToLower(needle)
      starts == { p \in from .. End - 1 :
                    \E e \in p + 1 .. Min({p + Len(lower), End}) : ToLower(Slice(p, e)) = lower }
  IN  IF starts = {} THEN {} ELSE {Min(starts) + Len(needle)}
find_case_insensitive_end(from, needle) ==
  LET lower   == ToLower(needle)
      ends(p) == { e \in p + 1 .. Min({p + Len(lower), End}) : ToLower(Slice(p, e)) = lower }
      starts  == { p \in from .. End - 1 : ends(p) # {} }
  IN  IF starts = {} THEN {} ELSE {Min(ends(Min(starts)))}
-----------------------------------------------------------------------------
(* SPECIAL_MARKUPS.  A pattern is a literal, then as many characters of a  *)
(* class as there are, then a literal.                                     *)
Regex(first, many, last) == [first |-> first, many |-> many, last |-> last]
Literal(s) == Regex(s, {}, <<>>)
Runs(s, c) == Regex(s, {c}, <<>>)
Letter     == {"a", "A", "b", "B", "w", "l", "i", "dot", "I."}
NotClosing == Letter \cup Range(REGEX_HELPER_PATTERN) \cup {" ", "=", "{", "}", "|", "[", "]"}
ListPrefix == {"*", "#", ":", "\\"}

Block(starts, end, no_spans) ==
  [start |-> starts, end |-> {end}, no_spans |-> no_spans, no_jump |-> FALSE]
Single(starts) ==
  [start |-> starts, end |-> {}, no_spans |-> TRUE, no_jump |-> TRUE]

SPECIAL_MARKUPS ==
  << Block({Literal(<<"[", "[">>)}, Literal(<<"]", "]">>), FALSE),
     Block({Literal(<<"[">>)}, Literal(<<"]">>), FALSE),
     Block({Literal(<<"{", "{">>)}, Literal(<<"}", "}">>), TRUE),
     Single({Literal(<<"<nowiki/>">>)}),
     Block({Regex(<<"<math">>, NotClosing, <<">">>)}, Literal(<<"</math>">>), TRUE),
     Block({Literal(<<"<b">>), Literal(<<"</b">>)}, Literal(<<">">>), TRUE),
     Single({Runs(<<"=">>, "="), Literal(<<";">>)}),
     Block({Regex(<<>>, ListPrefix, <<";">>)}, Literal(<<"\\", ":">>), TRUE),
     Single({Regex(<<c>>, ListPrefix, <<>>) : c \in ListPrefix}),
     Single({Runs(<<"-", "-", "-", "-">>, "-")}),
     Block({Literal(<<"{", "|">>)}, Literal(<<"|", "}">>), TRUE),
     Single({Literal(FlattenSeq([i \in 1 .. n |-> REGEX_HELPER_PATTERN])) : n \in 1 .. MaxPieces}),
     Single({Literal(<<"&amp;">>)}),
     Single({Literal(<<"__TOC__">>)}),
     Single({Runs(<<"'", "'">>, "'")}) >>

IsAt(s, p) == p + Len(s) <= End /\ Slice(p, p + Len(s)) = s
MatchEnds(regex, p) ==
  { e \in p .. End :
      LET m == e - Len(regex.last)
      IN  /\ IsAt(regex.first, p) /\ p + Len(regex.first) <= m
          /\ IsAt(regex.last, m)
          /\ \A i \in p + Len(regex.first) + 1 .. m : wiki_text[i] \in regex.many }

(* Regex::find from the cursor: the first position at which one of the     *)
(* alternatives matches, and the longest match there.                      *)
Find(regexes, from) ==
  LET at   == { p \in from .. End - 1 : \E r \in regexes : MatchEnds(r, p) # {} }
      here == Min(at)
  IN  IF at = {} THEN {}
      ELSE {[start |-> here, end |-> Max(UNION { MatchEnds(r, here) : r \in regexes })]}

NoMemory(m, jumped) == TRUE           \* seeded fault of NotJumped
NotJumped(m, jumped) == m.start \notin jumped

(* find_next_special_markup: the first match of each kind; the earliest,   *)
(* in the order of the list.  A kind whose first match was entered already *)
(* has no second chance. *)
find_next_special_markup(pos, jumped) ==
  LET candidates == { k \in DOMAIN SPECIAL_MARKUPS :
                        \E m \in Find(SPECIAL_MARKUPS[k].start, pos) : NotJumped(m, jumped) }
      match == [k \in candidates |-> CHOOSE m \in Find(SPECIAL_MARKUPS[k].start, pos) : TRUE]
      first == Min({ match[k].start : k \in candidates })
      idx   == Min({ k \in candidates : match[k].start = first })
  IN  IF candidates = {} THEN {}
      ELSE {[markup_idx |-> idx, start |-> first, end |-> match[idx].end]}

(* special_elem_end: a block ends at the first end after the cursor, or    *)
(* with the text.                                                          *)
FromItsStart(se, pos) ==              \* seeded fault: not from the cursor
  LET found == Find(SPECIAL_MARKUPS[se.markup_idx].end, se.end)
  IN  IF SPECIAL_MARKUPS[se.markup_idx].end = {} THEN [start |-> se.start, end |-> se.end]
      ELSE IF found = {} THEN [start |-> End, end |-> End]
      ELSE CHOOSE m \in found : TRUE
special_elem_end(se, pos) ==
  LET markup == SPECIAL_MARKUPS[se.markup_idx]
      found  == Find(markup.end, pos)
  IN  CASE markup.end = {} -> [start |-> se.start, end |-> se.end]
        [] markup.end # {} /\ found = {} -> [start |-> End, end |-> End]
        [] OTHER -> CHOOSE m \in found : TRUE
-----------------------------------------------------------------------------
Text(from, to) == [tag |-> "text", from |-> from, to |-> to]
OpenTag(id)    == [tag |-> "open", id |-> id]
CloseTag       == [tag |-> "close"]

(* add_spans: what it writes, and whether a span is open afterwards. *)
NeverCloses == <<>>                   \* seeded fault of Closing
Closing == IF open_span THEN <<CloseTag>> ELSE <<>>
add_spans(new_span) ==
  Closing \o (IF new_span THEN <<OpenTag(token_index)>> ELSE <<>>)

(* set_token: the next token that the rest of the text contains; its       *)
(* editor is counted when it is found. *)
FirstOnly(roster, editor) ==          \* seeded fault of Counted
  IF \E i \in DOMAIN roster : roster[i].editor = editor THEN roster
  ELSE Append(roster, [editor |-> editor, count |-> 1])
Counted(roster, editor) ==
  LET seen == { i \in DOMAIN roster : roster[i].editor = editor }
  IN  IF seen = {} THEN Append(roster, [editor |-> editor, count |-> 1])
      ELSE [roster EXCEPT ![CHOOSE i \in seen : TRUE].count = @ + 1]
set_token(from, pos) ==
  LET found == { i \in from .. Len(tokens) :
                   find_case_insensitive_end(pos, tokens[i].token) # {} }
  IN  IF found = {}
      THEN /\ token_index' = Len(tokens) + 1 /\ current_token_end' = {}
           /\ UNCHANGED present_editors
      ELSE LET i == Min(found)
           IN  /\ token_index' = i
               /\ current_token_end' = find_case_insensitive_end(pos, tokens[i].token)
               /\ present_editors' = Counted(present_editors, tokens[i].editor)

(* A call of parse_wiki_text up to its loop, and what the caller           *)
(* re-derives after the return.                                            *)
SpansInside(spans, elem, no_jump, pos, jumped) ==   \* seeded fault of Call
  [add_spans |-> TRUE, elem |-> elem, no_jump |-> no_jump,
   end  |-> { special_elem_end(se, pos) : se \in elem },
   next |-> IF no_jump THEN {} ELSE find_next_special_markup(pos, jumped)]
Call(spans, elem, no_jump, pos, jumped) ==
  [add_spans |-> spans, elem |-> elem, no_jump |-> no_jump,
   end  |-> { special_elem_end(se, pos) : se \in elem },
   next |-> IF no_jump THEN {} ELSE find_next_special_markup(pos, jumped)]
Return(pos) ==
  LET callers == Tail(frames)
  IN  IF callers = <<>> THEN <<>>
      ELSE << [Head(callers) EXCEPT
                 !.end  = { special_elem_end(se, pos) : se \in Head(callers).elem },
                 !.next = find_next_special_markup(pos, jumped_elems)] >> \o Tail(callers)
-----------------------------------------------------------------------------
Init ==
  /\ wikitext \in UNION { [1 .. n -> Piece] : n \in 0 .. MaxPieces }
  /\ wiki_text = TextOf(wikitext)
  /\ tokens = TokensOf(wikitext)
  /\ token_index = 0 /\ current_token_end = {}
  /\ wiki_text_pos = 0 /\ open_span = FALSE /\ jumped_elems = {}
  /\ out = <<>> /\ present_editors = <<>> /\ frames = <<>>

(* run. *)
Run ==
  /\ token_index = 0
  /\ set_token(1, 0)
  /\ frames' = <<Call(TRUE, {}, FALSE, 0, {})>>
  /\ UNCHANGED <<input, wiki_text_pos, open_span, jumped_elems, out>>

Parsing == frames # <<>> /\ wiki_text_pos < End

(* No token left: the rest of the text. *)
FlushRest ==
  /\ Parsing /\ current_token_end = {}
  /\ out' = Append(out, Text(wiki_text_pos, End)) \o Closing
  /\ open_span' = FALSE
  /\ wiki_text_pos' = End
  /\ frames' = Return(End)
  /\ UNCHANGED <<input, token_index, current_token_end, jumped_elems, present_editors>>

(* The markup to descend into now, if there is one. *)
Descends(frame) ==
  { nse \in frame.next :
      /\ ~frame.no_jump
      /\ \A see \in frame.end : wiki_text_pos < see.start /\ nse.start < see.start
      /\ \A token_end \in current_token_end : nse.start < token_end }

JumpIn ==
  /\ Parsing /\ current_token_end # {}
  /\ \E nse \in Descends(Head(frames)) :
       LET markup == SPECIAL_MARKUPS[nse.markup_idx]
           jumped == jumped_elems \cup {nse.start}
       IN  /\ jumped_elems' = jumped
           /\ IF Head(frames).add_spans
              THEN out' = out \o add_spans(~markup.no_spans) /\ open_span' = ~markup.no_spans
              ELSE UNCHANGED <<out, open_span>>
           /\ frames' = <<Call(FALSE, {nse}, markup.no_jump, wiki_text_pos, jumped)>> \o frames
  /\ UNCHANGED <<input, token_index, current_token_end, wiki_text_pos, present_editors>>

(* The element ends before the token does: the caller takes over. *)
Outer == { see \in Head(frames).end : \A token_end \in current_token_end : see.end < token_end }
EndOfElement ==
  /\ Parsing /\ current_token_end # {} /\ Descends(Head(frames)) = {}
  /\ \E see \in Outer :
       /\ out' = Append(out, Text(wiki_text_pos, see.end))
       /\ wiki_text_pos' = see.end
       /\ frames' = Return(see.end)
  /\ UNCHANGED <<input, token_index, current_token_end, open_span, jumped_elems,
                 present_editors>>

NormalToken ==
  /\ Parsing /\ Descends(Head(frames)) = {} /\ Outer = {}
  /\ \E token_end \in current_token_end :
       LET tags == IF Head(frames).add_spans THEN add_spans(TRUE) ELSE <<>>
       IN  /\ out' = Append(out \o tags, Text(wiki_text_pos, token_end))
           /\ open_span' = (open_span \/ Head(frames).add_spans)
           /\ wiki_text_pos' = token_end
           /\ set_token(token_index + 1, token_end)
  /\ UNCHANGED <<input, jumped_elems, frames>>

EndOfBuffer ==
  /\ frames # <<>> /\ wiki_text_pos >= End
  /\ out' = out \o Closing /\ open_span' = FALSE
  /\ frames' = Return(wiki_text_pos)
  /\ UNCHANGED <<input, token_index, current_token_end, wiki_text_pos, jumped_elems,
                 present_editors>>

Finished == token_index > 0 /\ frames = <<>>

(* inject_spans_into_wikitext returns; nothing happens any more.           *)
Done == Finished /\ UNCHANGED vars

Next == Run \/ FlushRest \/ JumpIn \/ EndOfElement \/ NormalToken \/ EndOfBuffer \/ Done
Spec == Init /\ [][Next]_vars

(* finish: the roster, by count, ties in the order the editors were seen. *)
finish ==
  SortSeq([i \in DOMAIN present_editors |-> <<present_editors[i], i>>],
          LAMBDA x, y : \/ x[1].count > y[1].count
                        \/ x[1].count = y[1].count /\ x[2] < y[2])
-----------------------------------------------------------------------------
(* Properties.                                                             *)
Slices == { k \in DOMAIN out : out[k].tag = "text" }
Tags   == DOMAIN out \ Slices
Opens  == { k \in DOMAIN out : out[k].tag = "open" }

(* Where the text before out[k] ends, and whether a span is open there.    *)
TagAt(k)  == LET before == { j \in Slices : j < k }
             IN  IF before = {} THEN 0 ELSE out[Max(before)].to
OpenAt(k) == LET before == { j \in Tags : j < k }
             IN  before # {} /\ out[Max(before)].tag = "open"

PieceStart(i) == Len(TextOf(SubSeq(wikitext, 1, i - 1)))
PieceEnd(i)   == Len(TextOf(SubSeq(wikitext, 1, i)))
LineBreaks    == { i \in DOMAIN wikitext : wikitext[i].chars \in { <<c>> : c \in LineBreak } }

TypeOK ==
  /\ token_index \in 0 .. Len(tokens) + 1 /\ wiki_text_pos \in 0 .. End
  /\ current_token_end \in { {} } \cup { {e} : e \in 1 .. End }
  /\ open_span \in BOOLEAN /\ jumped_elems \subseteq 0 .. End
  /\ \A k \in DOMAIN frames :
       /\ frames[k].add_spans \in BOOLEAN /\ frames[k].no_jump \in BOOLEAN
       /\ \A x \in {frames[k].elem, frames[k].end, frames[k].next} :
            Cardinality(x) <= 1 /\ \A m \in x : m.start \in 0 .. m.end /\ m.end <= End

(* Whatever markup nests or is left unclosed, the output without its tags  *)
(* is the page's text, none of it lost, repeated or moved: the slices of   *)
(* the recursive calls follow one another, the cursor never goes back, and *)
(* no slice ends before it begins (which would panic).                     *)
TextPreserved ==
  /\ \A k \in Slices : out[k].from = TagAt(k) /\ out[k].from <= out[k].to
  /\ wiki_text_pos = TagAt(Len(out) + 1)
  /\ Finished => wiki_text_pos = End

(* Spans never nest, and are closed before the next one opens and at the   *)
(* end, through every path out of the recursion. *)
SpansBalanced ==
  /\ \A k \in Tags : out[k].tag = IF OpenAt(k) THEN "close" ELSE "open"
  /\ open_span <=> OpenAt(Len(out) + 1)
  /\ Finished => ~open_span

(* The search for a token's text from the cursor finds the token where the *)
(* tokenizer saw it, and not an earlier occurrence of its letters.  So no  *)
(* two spans have the same id, by which the page's script looks tokens up, *)
(* and no tag cuts the stand-in of a line break in two, so that finish     *)
(* restores every one.                                                     *)
TokensInPlace ==
  LET with_token == SelectSeq([i \in DOMAIN wikitext |-> i],
                              LAMBDA i : wikitext[i].token # <<>>)
  IN  /\ \A token_end \in current_token_end : token_end = PieceEnd(with_token[token_index])
      /\ \A j, k \in Opens : j < k => out[j].id < out[k].id
      /\ \A k \in Tags : \A i \in LineBreaks :
           TagAt(k) <= PieceStart(i) \/ TagAt(k) >= PieceEnd(i)

(* present_editors counts every token of the text once, those inside       *)
(* templates included, for the editor who wrote it; the most frequent      *)
(* editor is first, of two equals the one who was seen first. *)
OwnTokens(editor) ==
  { i \in DOMAIN wikitext :
      wikitext[i].token # <<>> /\ wikitext[i].chars # <<>> /\ wikitext[i].editor = editor }
RosterIsExact ==
  Finished =>
    /\ \A i \in DOMAIN finish : finish[i][1].count = Cardinality(OwnTokens(finish[i][1].editor))
    /\ { finish[i][1].editor : i \in DOMAIN finish }
         = { piece.editor : piece \in { wikitext[i] : i \in { k \in DOMAIN wikitext :
               wikitext[k].token # <<>> /\ wikitext[k].chars # <<>> } } }
    /\ \A i, j \in DOMAIN finish : i < j =>
         LET x == finish[i][1] y == finish[j][1]
         IN  \/ x.count > y.count
             \/ /\ x.count = y.count
                /\ Min(OwnTokens(x.editor)) < Min(OwnTokens(y.editor))

(* A template, from its braces to the ones that match them. *)
Braces(i, j) ==
  Cardinality({ k \in i .. j : wikitext[k].chars = <<"{", "{">> })
    - Cardinality({ k \in i .. j : wikitext[k].chars = <<"}", "}">> })
Templates ==
  { t \in (DOMAIN wikitext) \X (DOMAIN wikitext) :
      /\ t[1] < t[2] /\ wikitext[t[1]].chars = <<"{", "{">> /\ Braces(t[1], t[2]) = 0
      /\ \A k \in t[1] .. t[2] - 1 : Braces(t[1], k) > 0 }
Flat == { t \in Templates : \A k \in t[1] .. t[2] - 1 : Braces(t[1], k) = 1 }
NoSpanIn(t) ==
  \A k \in Opens : TagAt(k) <= PieceStart(t[1]) \/ TagAt(k) >= PieceEnd(t[2])

(* No span is opened inside a template that contains no other, wherever it *)
(* is: in a link, a table, another template, with markup that crosses its  *)
(* end.  A span there would break the parameters.                          *)
NoSpanInFlatTemplate == \A t \in Flat : NoSpanIn(t)

(* What the documentation says of every template, nested ones included. *)
NoSpanInTemplate == \A t \in Templates : NoSpanIn(t)

(* Every injection ends: each step moves the cursor on, or leaves it and   *)
(* descends into markup it has not descended into before, or leaves both   *)
(* and returns from a call.  (And no step gets stuck: the run looks for    *)
(* deadlocks.)                                                             *)
InjectionAdvances ==
  [][token_index > 0 =>
       \/ wiki_text_pos' > wiki_text_pos
       \/ /\ wiki_text_pos' = wiki_text_pos
          /\ \/ jumped_elems' # jumped_elems /\ jumped_elems \subseteq jumped_elems'
             \/ jumped_elems' = jumped_elems /\ Len(frames') < Len(frames)]_vars
=============================================================================
