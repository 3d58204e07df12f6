-------------------------------- MODULE Differ --------------------------------
(***************************************************************************)
(* crates/wikiwho-attribute/src/differ.rs, the port of Python's difflib:   *)
(* differ_compare turns two token lists into a transcript of Keep, Delete  *)
(* and Insert entries.  SequenceMatcher finds the matching blocks, Differ  *)
(* works through the gaps between them, looking for a pair of similar      *)
(* tokens to synch up on with a second matcher, char_cruncher, whose       *)
(* caches live from one pair to the next.                                  *)
(*                                                                         *)
(* A token is the sequence of its characters.  Positions count from 1, a   *)
(* window is two half-open ranges, and a ratio is <<matches, total>>,      *)
(* compared without floats.  The thresholds of autojunk are constants, so  *)
(* that short lists reach them.                                            *)
(***************************************************************************)
EXTENDS Integers, Sequences, FiniteSets, FiniteSetsExt, SequencesExt

CONSTANTS
  Token,                \* the tokens: sequences of characters
  MaxLen,               \* bound: tokens of a list
  AutojunkFrom,         \* length from which popular elements are dropped (200)
  AutojunkShare         \* n / AutojunkShare + 1 occurrences are not popular (100)

ASSUME DifferAssumption ==
  /\ MaxLen \in Nat /\ AutojunkFrom \in Nat /\ AutojunkShare \in Nat \ {0}
  /\ \A t \in Token : t \in Seq(Range(t))

VARIABLES
  text_prev, text_curr,
  todo,                 \* what Differ still has to write out, in order
  probe,                \* the scan of fancy_replace over a window
  char_cruncher,        \* its matcher: a, b, and the cached blocks
  out                   \* the transcript so far

input == <<text_prev, text_curr>>
vars  == <<text_prev, text_curr, todo, probe, char_cruncher, out>>

Window(alo, ahi, blo, bhi) == [alo |-> alo, ahi |-> ahi, blo |-> blo, bhi |-> bhi]
Whole(a, b) == Window(1, Len(a) + 1, 1, Len(b) + 1)
Item(kind, w) == [kind |-> kind, at |-> w]
Gap(alo, ahi, blo, bhi) == Item("gap", Window(alo, ahi, blo, bhi))

NoProbe   == [on |-> FALSE]
NotCached == {}            \* a cache is the set of what it holds
The(cache) == CHOOSE x \in cache : TRUE
Texts == UNION { [1 .. n -> Token] : n \in 0 .. MaxLen }
-----------------------------------------------------------------------------
(* SequenceMatcher.                                                        *)

(* chain_b: the elements of b that autojunk takes out of b2j. *)
Popular(b) ==
  IF Len(b) < AutojunkFrom THEN {}
  ELSE { x \in Range(b) :
           Cardinality({ j \in DOMAIN b : b[j] = x }) > Len(b) \div AutojunkShare + 1 }

(* find_longest_match.  Run is j2len: the common run that ends at (i, j).  *)
(* The first longest one in scan order wins, and is then extended.         *)
Run(a, b, popular, w) ==
  LET run[p \in (w.alo .. w.ahi - 1) \X (w.blo .. w.bhi - 1)] ==
        IF a[p[1]] # b[p[2]] \/ b[p[2]] \in popular THEN 0
        ELSE 1 + IF p[1] > w.alo /\ p[2] > w.blo THEN run[<<p[1] - 1, p[2] - 1>>] ELSE 0
  IN  run

FromTheEnd(p, q) == p[1] > q[1] \/ (p[1] = q[1] /\ p[2] > q[2])  \* seeded fault of Earlier
Earlier(p, q)    == p[1] < q[1] \/ (p[1] = q[1] /\ p[2] < q[2])

NoMatch(w) == [a_start |-> w.alo, b_start |-> w.blo, size |-> 0]
EndingAt(p, size) ==
  [a_start |-> p[1] + 1 - size, b_start |-> p[2] + 1 - size, size |-> size]

Longest(run) == Max({0} \cup { run[p] : p \in DOMAIN run })
First(ends) == CHOOSE p \in ends : \A q \in ends \ {p} : Earlier(p, q)
Seed(run, w, size) ==
  IF size = 0 THEN NoMatch(w)
  ELSE EndingAt(First({ p \in DOMAIN run : run[p] = size }), size)

Grown(m, back, on) ==
  [a_start |-> m.a_start - back, b_start |-> m.b_start - back, size |-> m.size + back + on]
Extend(a, b, w, m) ==
  Grown(m,
    Max({ n \in 0 .. Min({m.a_start - w.alo, m.b_start - w.blo}) :
            \A k \in 1 .. n : a[m.a_start - k] = b[m.b_start - k] }),
    Max({ n \in 0 .. Min({w.ahi - m.a_start, w.bhi - m.b_start}) - m.size :
            \A k \in m.size .. m.size + n - 1 : a[m.a_start + k] = b[m.b_start + k] }))

find_longest_match(a, b, popular, w) ==
  LET run == Run(a, b, popular, w)
  IN  Extend(a, b, w, Seed(run, w, Longest(run)))

(* get_matching_blocks, in the order it sorts them into.  Blocks that      *)
(* touch are left as they are: neither a ratio nor a transcript tells.     *)
Before(w, m) == [w EXCEPT !.ahi = m.a_start, !.bhi = m.b_start]
After(w, m)  == [w EXCEPT !.alo = m.a_start + m.size, !.blo = m.b_start + m.size]

Windows(a, b) ==
  { w \in [alo : 1 .. Len(a) + 1, ahi : 1 .. Len(a) + 1,
           blo : 1 .. Len(b) + 1, bhi : 1 .. Len(b) + 1] :
      w.alo <= w.ahi /\ w.blo <= w.bhi }

get_matching_blocks(a, b, popular) ==
  LET blocks[w \in Windows(a, b)] ==
        LET m == find_longest_match(a, b, popular, w)
        IN  IF m.size = 0 THEN << >>
            ELSE blocks[Before(w, m)] \o <<m>> \o blocks[After(w, m)]
  IN  blocks[Whole(a, b)]

(* Its results for every pair of lists, and of tokens. *)
Table(S) == [p \in S \X S |-> get_matching_blocks(p[1], p[2], Popular(p[2]))]
TextBlocks  == Table(Texts)
TokenBlocks == Table(Token \cup {<< >>})

(* The sum of the sizes. *)
MatchSize(blocks) == SumFunction([k \in DOMAIN blocks |-> blocks[k].size])

(* get_opcodes: the gaps before, between and after the blocks, and the     *)
(* blocks.  The sentinel block ends the last gap.                          *)
NoTail(n)   == 2 * n                                 \* seeded fault of Segments
Segments(n) == 2 * n + 1

EndOf(blocks, k) ==
  IF k = 0 THEN <<1, 1>>
  ELSE <<blocks[k].a_start + blocks[k].size, blocks[k].b_start + blocks[k].size>>
StartOf(a, b, blocks, k) ==
  IF k > Len(blocks) THEN <<Len(a) + 1, Len(b) + 1>>
  ELSE <<blocks[k].a_start, blocks[k].b_start>>
Between(kind, from, until) == Item(kind, Window(from[1], until[1], from[2], until[2]))

Opcodes(a, b, blocks) ==
  [s \in 1 .. Segments(Len(blocks)) |->
    LET k == (s + 1) \div 2
    IN  IF s % 2 = 1 THEN Between("gap", EndOf(blocks, k - 1), StartOf(a, b, blocks, k))
        ELSE Between("equal", StartOf(a, b, blocks, k), EndOf(blocks, k))]

get_opcodes(a, b) == Opcodes(a, b, TextBlocks[<<a, b>>])

(* set_seq1 and set_seq2 invalidate the cached blocks. *)
KeepsBlocks(c, x) == [c EXCEPT !.a = x]              \* seeded fault of set_seq1
set_seq1(c, x) == IF x = c.a THEN c ELSE [c EXCEPT !.a = x, !.blocks = NotCached]
set_seq2(c, x) == IF x = c.b THEN c ELSE [c EXCEPT !.b = x, !.blocks = NotCached]

(* get_matching_blocks of the cruncher, through its cache. *)
Crunched(c) ==
  IF c.blocks # NotCached THEN c ELSE [c EXCEPT !.blocks = {TokenBlocks[<<c.a, c.b>>]}]

Count(s, x) == Cardinality({ i \in DOMAIN s : s[i] = x })
Greater(r, q) == r[1] * q[2] > q[1] * r[2]

Ratio(n, a, b) == IF Len(a) + Len(b) = 0 THEN <<1, 1>> ELSE <<2 * n, Len(a) + Len(b)>>
ratio(c) == Ratio(MatchSize(The(c.blocks)), c.a, c.b)
quick_ratio(c) ==
  Ratio(SumFunction([x \in Range(c.a) |-> Min({Count(c.a, x), Count(c.b, x)})]), c.a, c.b)
real_quick_ratio(c) == Ratio(Min({Len(c.a), Len(c.b)}), c.a, c.b)
-----------------------------------------------------------------------------
(* Differ.                                                                 *)

Keep(v)   == [kind |-> "Keep", value |-> v]
Delete(v) == [kind |-> "Delete", value |-> v]
Insert(v) == [kind |-> "Insert", value |-> v]

Each(Op(_), s, lo, hi) == [k \in 1 .. hi - lo |-> Op(s[lo + k - 1])]
Deletes(w) == Each(Delete, text_prev, w.alo, w.ahi)
Inserts(w) == Each(Insert, text_curr, w.blo, w.bhi)

Replace(w) == w.alo < w.ahi /\ w.blo < w.bhi

(* differ_compare, before its loop. *)
Init ==
  /\ text_prev \in Texts /\ text_curr \in Texts
  /\ todo = get_opcodes(text_prev, text_curr)
  /\ probe = NoProbe
  /\ char_cruncher = [a |-> << >>, b |-> << >>, blocks |-> NotCached]
  /\ out = << >>

(* What needs no scan: equal blocks, synch lines, gaps with an empty side. *)
Written(t) ==
  CASE t.kind = "equal"  -> Each(Keep, text_prev, t.at.alo, t.at.ahi)
    [] t.kind = "change" -> Deletes(t.at) \o Inserts(t.at)
    [] t.kind = "gap"    -> Deletes(t.at) \o Inserts(t.at)

Write ==
  /\ ~ probe.on /\ todo # << >>
  /\ ~ (Head(todo).kind = "gap" /\ Replace(Head(todo).at))
  /\ out' = out \o Written(Head(todo))
  /\ todo' = Tail(todo)
  /\ UNCHANGED <<input, probe, char_cruncher>>

(* fancy_replace: the scan starts with b's first token of the window.      *)
FancyReplace ==
  /\ ~ probe.on /\ todo # << >>
  /\ Head(todo).kind = "gap" /\ Replace(Head(todo).at)
  /\ LET w == Head(todo).at
     IN  /\ probe' = [on |-> TRUE, w |-> w, i |-> w.alo, j |-> w.blo,
                      best_ratio |-> <<74, 100>>, best |-> <<0, 0>>, eq |-> <<0, 0>>]
         /\ char_cruncher' = set_seq2(char_cruncher, text_curr[w.blo])
  /\ UNCHANGED <<input, todo, out>>

SkipsColumn(p) ==                                    \* seeded fault of NextPair
  IF p.i + 1 < p.w.ahi THEN [p EXCEPT !.i = @ + 1]
  ELSE [p EXCEPT !.j = @ + 1]
NextPair(p) ==
  IF p.i + 1 < p.w.ahi THEN [p EXCEPT !.i = @ + 1]
  ELSE [p EXCEPT !.i = p.w.alo, !.j = @ + 1]

Scanning == probe.on /\ probe.j < probe.w.bhi

(* The next pair: the cheap bounds first, the ratio last. *)
Promising(c) ==
  /\ Greater(real_quick_ratio(c), probe.best_ratio)
  /\ Greater(quick_ratio(c), probe.best_ratio)
Looked(c) == IF Promising(c) THEN Crunched(c) ELSE c

Better(c) ==
  IF Promising(c) /\ Greater(ratio(c), probe.best_ratio)
    THEN [probe EXCEPT !.best_ratio = ratio(c), !.best = <<probe.i, probe.j>>]
    ELSE probe

(* The inner loop goes on to the next i, or the outer to b's next token.   *)
GoOn(p, c) ==
  /\ probe' = NextPair(p)
  /\ char_cruncher' = IF probe'.j = probe.j \/ ~ (probe'.j < probe.w.bhi) THEN c
                      ELSE set_seq2(c, text_curr[probe'.j])
  /\ UNCHANGED <<input, todo, out>>

Same == text_prev[probe.i] = text_curr[probe.j]

ProbeSame ==
  /\ Scanning /\ Same
  /\ GoOn(IF probe.eq = <<0, 0>> THEN [probe EXCEPT !.eq = <<probe.i, probe.j>>]
          ELSE probe, char_cruncher)

ProbeOther ==
  /\ Scanning /\ ~ Same
  /\ LET c == Looked(set_seq1(char_cruncher, text_prev[probe.i]))
     IN  GoOn(Better(c), c)

(* The end of the scan: a close pair or else an identical one splits the   *)
(* window, and both sides go through fancy_helper; without one,            *)
(* plain_replace writes the shorter side first.                            *)
Close == ~ Greater(<<75, 100>>, probe.best_ratio)

AtSynch(p) == p                                      \* seeded fault of AfterSynch
AfterSynch(p) == p + 1

Split(p, kind) ==
  LET w == probe.w
  IN  <<Gap(w.alo, p[1], w.blo, p[2]),
        Item(kind, Window(p[1], p[1] + 1, p[2], p[2] + 1)),
        Gap(AfterSynch(p[1]), w.ahi, AfterSynch(p[2]), w.bhi)>>

Synch ==
  /\ probe.on /\ ~ Scanning
  /\ probe' = NoProbe
  /\ \/ /\ Close
        /\ todo' = Split(probe.best, "change") \o Tail(todo)
        /\ UNCHANGED out
     \/ /\ ~ Close /\ probe.eq # <<0, 0>>
        /\ todo' = Split(probe.eq, "equal") \o Tail(todo)
        /\ UNCHANGED out
     \/ /\ ~ Close /\ probe.eq = <<0, 0>>
        /\ todo' = Tail(todo)
        /\ out' = out \o (LET w == probe.w
                          IN  IF w.bhi - w.blo < w.ahi - w.alo THEN Inserts(w) \o Deletes(w)
                              ELSE Deletes(w) \o Inserts(w))
  /\ UNCHANGED <<input, char_cruncher>>

Next == Write \/ FancyReplace \/ ProbeSame \/ ProbeOther \/ Synch

Spec == Init /\ [][Next]_vars
-----------------------------------------------------------------------------
TypeOK ==
  /\ text_prev \in Texts /\ text_curr \in Texts
  /\ \A k \in DOMAIN todo : todo[k].kind \in {"equal", "change", "gap"}
  /\ probe.on => /\ probe.i \in DOMAIN text_prev
                 /\ probe.j \in 1 .. Len(text_curr) + 1
  /\ \A k \in DOMAIN out : out[k].kind \in {"Keep", "Delete", "Insert"} /\ out[k].value \in Token

(* What the cascade takes the transcript for: read without its inserts it  *)
(* is the previous text, read without its deletes the current one, in      *)
(* order and complete when differ_compare returns, whatever blocks and     *)
(* synch pairs were chosen.                                                *)
Side(kinds) ==
  FlattenSeq([k \in DOMAIN out |->
                IF out[k].kind \in kinds THEN <<out[k].value>> ELSE << >>])

TranscriptIsAnEdit ==
  /\ IsPrefix(Side({"Keep", "Delete"}), text_prev)
  /\ IsPrefix(Side({"Keep", "Insert"}), text_curr)
  /\ todo = << >> => /\ Side({"Keep", "Delete"}) = text_prev
                     /\ Side({"Keep", "Insert"}) = text_curr

(* The blocks that char_cruncher keeps from pair to pair are those of the  *)
(* two tokens it holds.                                                    *)
CruncherIsFresh ==
  char_cruncher.blocks \subseteq {TokenBlocks[<<char_cruncher.a, char_cruncher.b>>]}

(* The reference of the scan: the ratios of all pairs, no bounds, no cache. *)
TrueRatio(p) ==
  LET a == text_prev[p[1]]
      b == text_curr[p[2]]
  IN  Ratio(MatchSize(TokenBlocks[<<a, b>>]), a, b)

(* The short cuts of fancy_replace (real_quick_ratio, quick_ratio and the  *)
(* caches) change nothing: the pair to synch up on is the closest one, and *)
(* of equally close ones the first in the order of the loops.              *)
ClosestPair ==
  (probe.on /\ ~ Scanning) =>
    LET w == probe.w
        pairs == { p \in (w.alo .. w.ahi - 1) \X (w.blo .. w.bhi - 1) :
                     /\ text_prev[p[1]] # text_curr[p[2]]
                     /\ Greater(TrueRatio(p), <<74, 100>>) }
        before(p, q) == p[2] < q[2] \/ (p[2] = q[2] /\ p[1] < q[1])
    IN  IF pairs = {} THEN probe.best = <<0, 0>>
        ELSE /\ probe.best \in pairs
             /\ \A p \in pairs \ {probe.best} :
                  \/ Greater(TrueRatio(probe.best), TrueRatio(p))
                  \/ /\ ~ Greater(TrueRatio(p), TrueRatio(probe.best))
                     /\ before(probe.best, p)

(* find_longest_match "returns the longest contiguous matching block, with *)
(* ties broken to favour the earliest start in a (then in b)", in every    *)
(* window: against all blocks, when no element is popular.                 *)
LongestMatch ==
  (out = << >> /\ ~ probe.on /\ Popular(text_curr) = {}) =>
    \A ahi \in 1 .. Len(text_prev) + 1, bhi \in 1 .. Len(text_curr) + 1 :
    \A alo \in 1 .. ahi, blo \in 1 .. bhi :
      LET w == Window(alo, ahi, blo, bhi)
          blocks == { m \in [a_start : alo .. ahi - 1, b_start : blo .. bhi - 1, size : 1 .. MaxLen] :
                        /\ m.a_start + m.size <= ahi /\ m.b_start + m.size <= bhi
                        /\ \A k \in 0 .. m.size - 1 :
                             text_prev[m.a_start + k] = text_curr[m.b_start + k] }
          m == find_longest_match(text_prev, text_curr, {}, w)
      IN  IF blocks = {} THEN m.size = 0
          ELSE /\ m \in blocks
               /\ \A n \in blocks \ {m} :
                    \/ n.size < m.size
                    \/ /\ n.size = m.size
                       /\ \/ m.a_start < n.a_start
                          \/ m.a_start = n.a_start /\ m.b_start < n.b_start
=============================================================================
