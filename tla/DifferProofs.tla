----------------------------- MODULE DifferProofs -----------------------------
(***************************************************************************)
(* Proofs about Differ, for every set of tokens, texts of every length and *)
(* every threshold of autojunk.  What is a recursive function in Differ    *)
(* (Run, get_matching_blocks) is first shown to exist: the one by what it  *)
(* gives each cell, the other by the width of the window.  From there:     *)
(* find_longest_match returns the longest and earliest block               *)
(* (LongestMatch); the blocks are a chain and the opcodes cover both       *)
(* texts, so that the transcript reads as both texts up to where the work  *)
(* left begins (DifferInv, for TranscriptIsAnEdit); the cruncher's cache   *)
(* is fresh (CruncherInv); and the scan has the closest of the pairs it    *)
(* has passed (ClosestInv, for ClosestPair), since the matches of two      *)
(* tokens never exceed the two cheap bounds.                               *)
(***************************************************************************)
EXTENDS Differ, DataLemmas
-----------------------------------------------------------------------------
(* Windows and the cells of a window.                                      *)
Cells(w) == (w.alo .. w.ahi - 1) \X (w.blo .. w.bhi - 1)

LEMMA WindowType ==
  ASSUME NEW E, NEW a \in Seq(E), NEW b \in Seq(E), NEW w \in Windows(a, b)
  PROVE  /\ w = Window(w.alo, w.ahi, w.blo, w.bhi)
         /\ w.alo \in Nat /\ w.ahi \in Nat /\ w.blo \in Nat /\ w.bhi \in Nat
         /\ 1 <= w.alo /\ w.alo <= w.ahi /\ w.ahi <= Len(a) + 1
         /\ 1 <= w.blo /\ w.blo <= w.bhi /\ w.bhi <= Len(b) + 1
         /\ Len(a) \in Nat /\ Len(b) \in Nat
<1>1. Len(a) \in Nat /\ Len(b) \in Nat
  BY LenProperties
<1> QED BY <1>1 DEF Windows, Window

LEMMA WindowIn ==
  ASSUME NEW E, NEW a \in Seq(E), NEW b \in Seq(E),
         NEW alo \in Nat, NEW ahi \in Nat, NEW blo \in Nat, NEW bhi \in Nat,
         1 <= alo, alo <= ahi, ahi <= Len(a) + 1,
         1 <= blo, blo <= bhi, bhi <= Len(b) + 1
  PROVE  Window(alo, ahi, blo, bhi) \in Windows(a, b)
<1>1. Len(a) \in Nat /\ Len(b) \in Nat
  BY LenProperties
<1> QED BY <1>1 DEF Windows, Window

LEMMA CellType ==
  ASSUME NEW E, NEW a \in Seq(E), NEW b \in Seq(E), NEW w \in Windows(a, b), NEW p \in Cells(w)
  PROVE  /\ p = <<p[1], p[2]>> /\ p[1] \in Nat /\ p[2] \in Nat
         /\ w.alo <= p[1] /\ p[1] < w.ahi /\ w.blo <= p[2] /\ p[2] < w.bhi
<1>1. p[1] \in w.alo .. w.ahi - 1 /\ p[2] \in w.blo .. w.bhi - 1 /\ p = <<p[1], p[2]>>
  BY DEF Cells
<1>2. w.alo \in Nat /\ w.ahi \in Nat /\ w.blo \in Nat /\ w.bhi \in Nat
  BY WindowType
<1> QED BY <1>1, <1>2, SMTT(30)
-----------------------------------------------------------------------------
(* The runs: those of n elements of the window that end at p, none popular. *)
Ends(a, b, popular, w, p, n) ==
  /\ n <= p[1] - w.alo + 1 /\ n <= p[2] - w.blo + 1
  /\ \A k \in 0 .. n - 1 : a[p[1] - k] = b[p[2] - k] /\ b[p[2] - k] \notin popular

(* By how the cell before continues.                                       *)
LEMMA EndsStep ==
  ASSUME NEW E, NEW a \in Seq(E), NEW b \in Seq(E), NEW popular,
         NEW w \in Windows(a, b), NEW p \in Cells(w), NEW n \in Nat
  PROVE  Ends(a, b, popular, w, p, n) <=>
           \/ n = 0
           \/ /\ ~ (a[p[1]] # b[p[2]] \/ b[p[2]] \in popular)
              /\ \/ n = 1
                 \/ /\ p[1] > w.alo /\ p[2] > w.blo
                    /\ Ends(a, b, popular, w, <<p[1] - 1, p[2] - 1>>, n - 1)
<1>1. /\ p[1] \in Nat /\ p[2] \in Nat /\ w.alo \in Nat /\ w.blo \in Nat
      /\ w.alo <= p[1] /\ w.blo <= p[2]
  BY CellType, WindowType
<1>n. PICK i \in Nat, j \in Nat : i = p[1] /\ j = p[2]
  BY <1>1
<1>m. PICK lo \in Nat, ro \in Nat : lo = w.alo /\ ro = w.blo
  BY <1>1
<1>2. Ends(a, b, popular, w, p, n) <=>
        /\ n <= i - lo + 1 /\ n <= j - ro + 1
        /\ \A k \in 0 .. n - 1 : a[i - k] = b[j - k] /\ b[j - k] \notin popular
  BY <1>n, <1>m DEF Ends
<1>3. Ends(a, b, popular, w, <<p[1] - 1, p[2] - 1>>, n - 1) <=>
        /\ n - 1 <= (i - 1) - lo + 1 /\ n - 1 <= (j - 1) - ro + 1
        /\ \A k \in 0 .. (n - 1) - 1 : a[(i - 1) - k] = b[(j - 1) - k] /\ b[(j - 1) - k] \notin popular
  BY <1>n, <1>m DEF Ends
<1>4. CASE n = 0
  BY <1>1, <1>2, <1>4, <1>n, <1>m, SMTT(30)
<1>5. CASE n = 1
  <2>1. \A k \in 0 .. n - 1 : k = 0 /\ i - k = i /\ j - k = j
    BY <1>5
  <2>2. 0 \in 0 .. n - 1
    BY <1>5
  <2>3. (\A k \in 0 .. n - 1 : a[i - k] = b[j - k] /\ b[j - k] \notin popular)
        <=> a[i] = b[j] /\ b[j] \notin popular
    BY <2>1, <2>2
  <2>4. n <= i - lo + 1 /\ n <= j - ro + 1
    BY <1>1, <1>5, <1>n, <1>m, SMTT(30)
  <2>5. Ends(a, b, popular, w, p, n) <=> a[i] = b[j] /\ b[j] \notin popular
    BY <1>2, <2>3, <2>4
  <2> QED BY <1>5, <1>n, <2>5
<1>6. CASE n > 1
  <2> DEFINE M(k) == a[i - k] = b[j - k] /\ b[j - k] \notin popular
             L(k) == a[(i - 1) - k] = b[(j - 1) - k] /\ b[(j - 1) - k] \notin popular
  <2>0. M(0) <=> ~ (a[p[1]] # b[p[2]] \/ b[p[2]] \in popular)
    <3>1. i - 0 = i /\ j - 0 = j
      OBVIOUS
    <3> QED BY <3>1, <1>n
  <2>1. \A k \in Int : L(k) <=> M(k + 1)
    <3>1. \A k \in Int : (i - 1) - k = i - (k + 1) /\ (j - 1) - k = j - (k + 1)
      OBVIOUS
    <3> QED BY <3>1
  <2>2. (\A k \in 0 .. n - 1 : M(k)) <=> M(0) /\ \A k \in 0 .. (n - 1) - 1 : L(k)
    <3> HIDE DEF M, L
    <3>1. ASSUME \A k \in 0 .. n - 1 : M(k)
          PROVE  M(0) /\ \A k \in 0 .. (n - 1) - 1 : L(k)
      <4>1. 0 \in 0 .. n - 1 /\ \A k \in 0 .. (n - 1) - 1 : k \in Int /\ k + 1 \in 0 .. n - 1
        BY <1>6
      <4> QED BY <2>1, <3>1, <4>1
    <3>2. ASSUME M(0), \A k \in 0 .. (n - 1) - 1 : L(k), NEW k \in 0 .. n - 1
          PROVE  M(k)
      <4>1. CASE k = 0
        BY <3>2, <4>1
      <4>2. CASE k # 0
        <5>1. k - 1 \in 0 .. (n - 1) - 1 /\ k - 1 \in Int /\ (k - 1) + 1 = k
          BY <4>2
        <5> QED BY <2>1, <3>2, <5>1
      <4> QED BY <4>1, <4>2
    <3> QED BY <3>1, <3>2
  <2>3. Ends(a, b, popular, w, p, n) <=>
          n <= i - lo + 1 /\ n <= j - ro + 1 /\ \A k \in 0 .. n - 1 : M(k)
    BY <1>2
  <2>4. Ends(a, b, popular, w, <<p[1] - 1, p[2] - 1>>, n - 1) <=>
          n <= i - lo + 1 /\ n <= j - ro + 1 /\ \A k \in 0 .. (n - 1) - 1 : L(k)
    BY <1>3
  <2>5. n <= i - lo + 1 /\ n <= j - ro + 1 => i > lo /\ j > ro
    BY <1>6
  <2> HIDE DEF M, L
  <2> QED BY <1>6, <1>n, <1>m, <2>0, <2>2, <2>3, <2>4, <2>5, SMTT(30)
<1> QED BY <1>4, <1>5, <1>6

LongestEnd(a, b, popular, w, p, n) ==
  \A m \in Nat : Ends(a, b, popular, w, p, m) <=> m <= n

(* At every cell one of them is the longest.                               *)
LEMMA LongestEndExists ==
  ASSUME NEW E, NEW a \in Seq(E), NEW b \in Seq(E), NEW popular,
         NEW w \in Windows(a, b), NEW p \in Cells(w)
  PROVE  /\ \E n \in Nat : LongestEnd(a, b, popular, w, p, n)
         /\ \A n, m \in Nat :
              LongestEnd(a, b, popular, w, p, n) /\ LongestEnd(a, b, popular, w, p, m) => n = m
<1>1. p[1] \in Nat /\ w.alo \in Nat /\ w.alo <= p[1]
  BY CellType, WindowType
<1> DEFINE Z(n) == Ends(a, b, popular, w, p, n)
           T == { n \in 0 .. p[1] - w.alo + 1 : Z(n) }
<1>2. \A n \in Nat : Z(n) => n \in 0 .. p[1] - w.alo + 1
  BY <1>1 DEF Ends
<1>3. Z(0)
  BY EndsStep
<1>4. \A n, m \in Nat : Z(n) /\ m <= n => Z(m)
  <2>1. ASSUME NEW n \in Nat, NEW m \in Nat, Z(n), m <= n PROVE Z(m)
    <3>1. \A k \in 0 .. m - 1 : k \in 0 .. n - 1
      BY <2>1
    <3>2. p[2] \in Nat /\ w.blo \in Nat
      BY CellType, WindowType
    <3> QED BY <1>1, <2>1, <3>1, <3>2, SMTT(30) DEF Ends
  <2> QED BY <2>1
<1> HIDE DEF Z
<1>5. T \subseteq 0 .. p[1] - w.alo + 1 /\ T # {} /\ p[1] - w.alo + 1 \in Nat
  BY <1>1, <1>2, <1>3
<1>6. PICK n \in T : \A m \in T : m <= n
  <2> HIDE DEF T
  <2> QED BY <1>5, GreatestNat
<1>7. n \in Nat /\ \A m \in Nat : Z(m) <=> m <= n
  BY <1>1, <1>2, <1>4, <1>6
<1>8. \E k \in Nat : LongestEnd(a, b, popular, w, p, k)
  BY <1>7 DEF Z, LongestEnd
<1>9. ASSUME NEW k \in Nat, NEW m \in Nat,
             LongestEnd(a, b, popular, w, p, k), LongestEnd(a, b, popular, w, p, m)
      PROVE  k = m
  <2>1. Z(k) /\ Z(m)
    BY <1>9 DEF LongestEnd, Z
  <2>2. k <= m /\ m <= k
    BY <1>9, <2>1 DEF LongestEnd, Z
  <2> QED BY <2>2
<1> QED BY <1>8, <1>9

(* The recursion of Run has a solution, and its only one is the longest.   *)
IsRun(a, b, popular, w, run) ==
  run = [p \in Cells(w) |->
           IF a[p[1]] # b[p[2]] \/ b[p[2]] \in popular THEN 0
           ELSE 1 + IF p[1] > w.alo /\ p[2] > w.blo THEN run[<<p[1] - 1, p[2] - 1>>] ELSE 0]

(* The cell one up and one to the left.                                    *)
LEMMA PreviousCell ==
  ASSUME NEW E, NEW a \in Seq(E), NEW b \in Seq(E), NEW w \in Windows(a, b), NEW p \in Cells(w),
         p[1] > w.alo, p[2] > w.blo
  PROVE  <<p[1] - 1, p[2] - 1>> \in Cells(w)
<1>1. /\ p[1] \in Nat /\ p[2] \in Nat
      /\ w.alo <= p[1] /\ p[1] < w.ahi /\ w.blo <= p[2] /\ p[2] < w.bhi
  BY CellType
<1>2. w.alo \in Nat /\ w.ahi \in Nat /\ w.blo \in Nat /\ w.bhi \in Nat
  BY WindowType
<1>3. p[1] - 1 \in w.alo .. w.ahi - 1 /\ p[2] - 1 \in w.blo .. w.bhi - 1
  BY <1>1, <1>2, SMTT(30)
<1> QED BY <1>3 DEF Cells

(* One step of the recursion, from the longest run at the cell before.     *)
LEMMA LongestEndStep ==
  ASSUME NEW E, NEW a \in Seq(E), NEW b \in Seq(E), NEW popular,
         NEW w \in Windows(a, b), NEW p \in Cells(w), NEW before \in Nat,
         p[1] > w.alo /\ p[2] > w.blo =>
           LongestEnd(a, b, popular, w, <<p[1] - 1, p[2] - 1>>, before)
  PROVE  LongestEnd(a, b, popular, w, p,
           IF a[p[1]] # b[p[2]] \/ b[p[2]] \in popular THEN 0
           ELSE 1 + IF p[1] > w.alo /\ p[2] > w.blo THEN before ELSE 0)
<1> DEFINE bad == a[p[1]] # b[p[2]] \/ b[p[2]] \in popular
           inner == p[1] > w.alo /\ p[2] > w.blo
           Z(n) == Ends(a, b, popular, w, p, n)
           Y(n) == Ends(a, b, popular, w, <<p[1] - 1, p[2] - 1>>, n)
<1>1. \A n \in Nat : Z(n) <=> n = 0 \/ (~ bad /\ (n = 1 \/ (inner /\ Y(n - 1))))
  BY EndsStep
<1>2. inner => \A n \in Nat : Y(n) <=> n <= before
  BY DEF LongestEnd
<1>3. \A n \in Nat : Z(n) <=> n <= (IF bad THEN 0 ELSE 1 + IF inner THEN before ELSE 0)
  <2> HIDE DEF bad, inner, Z, Y
  <2> TAKE n \in Nat
  <2>1. CASE n = 0
    BY <1>1, <2>1
  <2>2. CASE n # 0
    <3>1. n - 1 \in Nat
      BY <2>2
    <3>2. inner => (Y(n - 1) <=> n <= 1 + before)
      BY <1>2, <3>1
    <3>3. Z(n) <=> ~ bad /\ (n = 1 \/ (inner /\ Y(n - 1)))
      BY <1>1, <2>2
    <3> QED BY <2>2, <3>2, <3>3
  <2> QED BY <2>1, <2>2
<1> QED BY <1>3 DEF LongestEnd

(* The function that gives each cell its longest run solves it.            *)
LEMMA RunExists ==
  ASSUME NEW E, NEW a \in Seq(E), NEW b \in Seq(E), NEW popular, NEW w \in Windows(a, b)
  PROVE  \E run : IsRun(a, b, popular, w, run)
<1> DEFINE run == [p \in Cells(w) |-> CHOOSE n \in Nat : LongestEnd(a, b, popular, w, p, n)]
<1>1. ASSUME NEW p \in Cells(w)
      PROVE  run[p] \in Nat /\ LongestEnd(a, b, popular, w, p, run[p])
  <2>1. \E n \in Nat : LongestEnd(a, b, popular, w, p, n)
    BY LongestEndExists
  <2> QED BY <2>1
<1>d. run = [p \in Cells(w) |-> run[p]]
  OBVIOUS
<1> HIDE DEF run
<1>2. ASSUME NEW p \in Cells(w)
      PROVE  run[p] = IF a[p[1]] # b[p[2]] \/ b[p[2]] \in popular THEN 0
                      ELSE 1 + IF p[1] > w.alo /\ p[2] > w.blo THEN run[<<p[1] - 1, p[2] - 1>>] ELSE 0
  <2>1. PICK before \in Nat :
          p[1] > w.alo /\ p[2] > w.blo =>
            before = run[<<p[1] - 1, p[2] - 1>>] /\ LongestEnd(a, b, popular, w, <<p[1] - 1, p[2] - 1>>, before)
    <3>1. CASE p[1] > w.alo /\ p[2] > w.blo
      BY <1>1, <3>1, PreviousCell
    <3>2. CASE ~ (p[1] > w.alo /\ p[2] > w.blo)
      BY <3>2
    <3> QED BY <3>1, <3>2
  <2>2. PICK n : n = IF a[p[1]] # b[p[2]] \/ b[p[2]] \in popular THEN 0
                     ELSE 1 + IF p[1] > w.alo /\ p[2] > w.blo THEN before ELSE 0
    OBVIOUS
  <2>3. n \in Nat
    BY <2>2
  <2>4. LongestEnd(a, b, popular, w, p, n)
    BY <2>1, <2>2, LongestEndStep
  <2>5. run[p] = n
    BY <1>1, <2>3, <2>4, LongestEndExists
  <2> QED BY <2>1, <2>2, <2>5
<1> QED BY <1>2, <1>d DEF IsRun

(* Run is that function: at every cell it holds the longest run.           *)
LEMMA RunIs ==
  ASSUME NEW E, NEW a \in Seq(E), NEW b \in Seq(E), NEW popular, NEW w \in Windows(a, b)
  PROVE  /\ DOMAIN Run(a, b, popular, w) = Cells(w)
         /\ \A p \in Cells(w) : /\ Run(a, b, popular, w)[p] \in Nat
                                /\ LongestEnd(a, b, popular, w, p, Run(a, b, popular, w)[p])
<1> DEFINE R(f) == f = [p \in (w.alo .. w.ahi - 1) \X (w.blo .. w.bhi - 1) |->
           IF a[p[1]] # b[p[2]] \/ b[p[2]] \in popular THEN 0
           ELSE 1 + IF p[1] > w.alo /\ p[2] > w.blo THEN f[<<p[1] - 1, p[2] - 1>>] ELSE 0]
<1>1. \E f : R(f)
  <2>1. PICK f : IsRun(a, b, popular, w, f)
    BY RunExists
  <2>2. R(f)
    BY <2>1 DEF IsRun, Cells
  <2> QED BY <2>2
<1>2. Run(a, b, popular, w) = CHOOSE f : R(f)
  BY DEF Run
<1>3. PICK run : run = Run(a, b, popular, w)
  OBVIOUS
<1>4. R(run)
  <2> HIDE DEF R
  <2> QED BY <1>1, <1>2, <1>3
<1>5. /\ DOMAIN run = Cells(w)
      /\ \A p \in Cells(w) : run[p] =
           IF a[p[1]] # b[p[2]] \/ b[p[2]] \in popular THEN 0
           ELSE 1 + IF p[1] > w.alo /\ p[2] > w.blo THEN run[<<p[1] - 1, p[2] - 1>>] ELSE 0
  BY <1>4 DEF Cells
<1> HIDE DEF R
<1> DEFINE Good(p) == run[p] \in Nat /\ LongestEnd(a, b, popular, w, p, run[p])
           rows == { p[1] : p \in { q \in Cells(w) : ~ Good(q) } }
<1>6. rows = {}
  <2> SUFFICES ASSUME rows # {} PROVE FALSE
    OBVIOUS
  <2>1. PICK r \in rows : \A s \in rows : r <= s
    <3>1. rows \subseteq Nat
      BY CellType
    <3> HIDE DEF rows
    <3> QED BY <3>1, LeastNat
  <2>2. PICK p \in Cells(w) : ~ Good(p) /\ p[1] = r
    OBVIOUS
  <2>3. PICK before \in Nat :
          p[1] > w.alo /\ p[2] > w.blo =>
            before = run[<<p[1] - 1, p[2] - 1>>] /\ LongestEnd(a, b, popular, w, <<p[1] - 1, p[2] - 1>>, before)
    <3>1. CASE p[1] > w.alo /\ p[2] > w.blo
      <4>1. PICK q \in Cells(w) : q = <<p[1] - 1, p[2] - 1>>
        BY <3>1, PreviousCell
      <4>2. q[1] = p[1] - 1 /\ p[1] \in Nat
        BY <4>1, CellType
      <4>3. Good(q)
        <5>1. ~ (r <= q[1])
          BY <2>2, <4>2
        <5> HIDE DEF Good
        <5> QED BY <2>1, <5>1
      <4> QED BY <4>1, <4>3
    <3>2. CASE ~ (p[1] > w.alo /\ p[2] > w.blo)
      BY <3>2
    <3> QED BY <3>1, <3>2
  <2>4. PICK n : n = IF a[p[1]] # b[p[2]] \/ b[p[2]] \in popular THEN 0
                     ELSE 1 + IF p[1] > w.alo /\ p[2] > w.blo THEN before ELSE 0
    OBVIOUS
  <2>5. LongestEnd(a, b, popular, w, p, n)
    BY <2>3, <2>4, LongestEndStep
  <2>n. n \in Nat
    BY <2>4
  <2>6. run[p] = n
    BY <1>5, <2>3, <2>4
  <2> QED BY <2>2, <2>5, <2>6, <2>n
<1>7. \A p \in Cells(w) : Good(p)
  <2> HIDE DEF Good
  <2> QED BY <1>6
<1> QED BY <1>3, <1>5, <1>7
-----------------------------------------------------------------------------
(* find_longest_match.                                                     *)
LEMMA FirstIs ==
  ASSUME NEW ends, ends \subseteq Nat \X Nat, ends # {}
  PROVE  First(ends) \in ends /\ \A q \in ends \ {First(ends)} : Earlier(First(ends), q)
<1> DEFINE rows == { q[1] : q \in ends }
<1>1. PICK i \in rows : \A k \in rows : i <= k
  <2>1. rows \subseteq Nat /\ rows # {}
    OBVIOUS
  <2> HIDE DEF rows
  <2> QED BY <2>1, LeastNat
<1> DEFINE cols == { q[2] : q \in { r \in ends : r[1] = i } }
<1>2. PICK j \in cols : \A k \in cols : j <= k
  <2>1. cols \subseteq Nat /\ cols # {}
    OBVIOUS
  <2> HIDE DEF cols
  <2> QED BY <2>1, LeastNat
<1>3. PICK p \in ends : p[1] = i /\ p[2] = j
  OBVIOUS
<1>4. \A q \in ends \ {p} : Earlier(p, q)
  <2> TAKE q \in ends \ {p}
  <2>1. /\ p = <<i, j>> /\ q = <<q[1], q[2]>> /\ q[1] \in Nat /\ q[2] \in Nat
        /\ i \in Nat /\ j \in Nat
    BY <1>3
  <2>2. i <= q[1]
    BY <1>1
  <2>3. q[1] = i => j <= q[2]
    BY <1>2
  <2>4. ~ (q[1] = i /\ q[2] = j)
    BY <2>1
  <2> QED BY <1>3, <2>1, <2>2, <2>3, <2>4 DEF Earlier
<1>5. \E x \in ends : \A q \in ends \ {x} : Earlier(x, q)
  BY <1>4
<1> QED BY <1>5 DEF First

(* A common block of two lists within a window.                            *)
Matched(a, b, m) == \A k \in 0 .. m.size - 1 : a[m.a_start + k] = b[m.b_start + k]
BlockIn(w, m) ==
  /\ m = [a_start |-> m.a_start, b_start |-> m.b_start, size |-> m.size]
  /\ m.a_start \in Nat /\ m.b_start \in Nat /\ m.size \in Nat
  /\ w.alo <= m.a_start /\ m.a_start + m.size <= w.ahi
  /\ w.blo <= m.b_start /\ m.b_start + m.size <= w.bhi

(* The longest run of a window: a cell has it, and none has more.          *)
LEMMA LongestIs ==
  ASSUME NEW E, NEW a \in Seq(E), NEW b \in Seq(E), NEW popular, NEW w \in Windows(a, b),
         NEW run, run = Run(a, b, popular, w), NEW most, most = Longest(run)
  PROVE  /\ most \in Nat
         /\ \A p \in Cells(w) : run[p] \in Nat /\ run[p] <= most
         /\ most # 0 => \E p \in Cells(w) : run[p] = most
<1>1. /\ DOMAIN run = Cells(w)
      /\ \A p \in Cells(w) : run[p] \in Nat /\ LongestEnd(a, b, popular, w, p, run[p])
  BY RunIs
<1>2. Len(a) \in Nat /\ w.alo \in Nat /\ w.ahi \in Nat /\ w.ahi <= Len(a) + 1 /\ 1 <= w.alo
  BY WindowType
<1>3. ASSUME NEW p \in Cells(w) PROVE run[p] \in 0 .. Len(a)
  <2>1. Ends(a, b, popular, w, p, run[p])
    BY <1>1 DEF LongestEnd
  <2>2. run[p] <= p[1] - w.alo + 1
    BY <2>1 DEF Ends
  <2>3. p[1] \in Nat /\ p[1] < w.ahi
    BY CellType
  <2> QED BY <1>1, <1>2, <2>2, <2>3
<1> DEFINE T == {0} \cup { run[p] : p \in DOMAIN run }
<1>4. T \subseteq 0 .. Len(a) /\ T # {}
  BY <1>1, <1>2, <1>3
<1>5. most = Max(T)
  BY DEF Longest
<1>6. most \in T /\ \A n \in T : n <= most
  <2> HIDE DEF T
  <2> QED BY <1>2, <1>4, <1>5, MaxIs
<1>7. most # 0 => \E p \in Cells(w) : run[p] = most
  BY <1>1, <1>6
<1>8. \A p \in Cells(w) : run[p] \in Nat /\ run[p] <= most
  BY <1>1, <1>6
<1>9. most \in Nat
  BY <1>2, <1>4, <1>6
<1> QED BY <1>7, <1>8, <1>9

(* A block from its three numbers.                                         *)
LEMMA BlockFrom ==
  ASSUME NEW w, NEW m, NEW i \in Nat, NEW j \in Nat, NEW n \in Nat,
         m = [a_start |-> i, b_start |-> j, size |-> n],
         w.alo <= i, i + n <= w.ahi, w.blo <= j, j + n <= w.bhi
  PROVE  BlockIn(w, m) /\ m.a_start = i /\ m.b_start = j /\ m.size = n
<1>1. m.a_start = i /\ m.b_start = j /\ m.size = n
  OBVIOUS
<1> QED BY <1>1 DEF BlockIn

(* The run of n elements that ends at p, as a block.                       *)
LEMMA EndingBlock ==
  ASSUME NEW E, NEW a \in Seq(E), NEW b \in Seq(E), NEW popular, NEW w \in Windows(a, b),
         NEW p \in Cells(w), NEW n \in Nat, Ends(a, b, popular, w, p, n)
  PROVE  BlockIn(w, EndingAt(p, n)) /\ Matched(a, b, EndingAt(p, n))
<1>1. /\ p[1] \in Nat /\ p[2] \in Nat
      /\ w.alo <= p[1] /\ p[1] < w.ahi /\ w.blo <= p[2] /\ p[2] < w.bhi
      /\ w.alo \in Nat /\ w.ahi \in Nat /\ w.blo \in Nat /\ w.bhi \in Nat
  BY CellType, WindowType
<1>2. n <= p[1] - w.alo + 1 /\ n <= p[2] - w.blo + 1
  BY DEF Ends
<1>3. BlockIn(w, EndingAt(p, n))
  <2>1. /\ p[1] + 1 - n \in Nat /\ w.alo <= p[1] + 1 - n
        /\ (p[1] + 1 - n) + n <= w.ahi
    BY <1>1, <1>2, SMTT(30)
  <2>2. /\ p[2] + 1 - n \in Nat /\ w.blo <= p[2] + 1 - n
        /\ (p[2] + 1 - n) + n <= w.bhi
    BY <1>1, <1>2, SMTT(30)
  <2>3. PICK i \in Nat, j \in Nat : i = p[1] + 1 - n /\ j = p[2] + 1 - n
    BY <2>1, <2>2
  <2>4. EndingAt(p, n) = [a_start |-> i, b_start |-> j, size |-> n]
    BY <2>3 DEF EndingAt
  <2> QED BY <2>1, <2>2, <2>3, <2>4, BlockFrom, ZenonT(40)
<1>4. ASSUME NEW k \in 0 .. n - 1 PROVE a[(p[1] + 1 - n) + k] = b[(p[2] + 1 - n) + k]
  <2>1. (n - 1) - k \in 0 .. n - 1
    OBVIOUS
  <2>2. /\ p[1] - ((n - 1) - k) = (p[1] + 1 - n) + k
        /\ p[2] - ((n - 1) - k) = (p[2] + 1 - n) + k
    BY <1>1, SMTT(30)
  <2>3. a[p[1] - ((n - 1) - k)] = b[p[2] - ((n - 1) - k)]
    BY <2>1 DEF Ends
  <2> QED BY <2>2, <2>3
<1>5. Matched(a, b, EndingAt(p, n))
  BY <1>4 DEF Matched, EndingAt
<1> QED BY <1>3, <1>5

(* The seed of find_longest_match is one, and has the longest size.        *)
LEMMA SeedIs ==
  ASSUME NEW E, NEW a \in Seq(E), NEW b \in Seq(E), NEW popular, NEW w \in Windows(a, b),
         NEW run, run = Run(a, b, popular, w), NEW most, most = Longest(run),
         NEW m, m = Seed(run, w, most)
  PROVE  BlockIn(w, m) /\ Matched(a, b, m) /\ m.size = most
<1>1. /\ DOMAIN run = Cells(w)
      /\ \A p \in Cells(w) : run[p] \in Nat /\ LongestEnd(a, b, popular, w, p, run[p])
  BY RunIs
<1>2. most \in Nat /\ (most # 0 => \E p \in Cells(w) : run[p] = most)
  BY LongestIs
<1>3. CASE most = 0
  <2>1. m = NoMatch(w)
    BY <1>3 DEF Seed
  <2>2. BlockIn(w, m) /\ m.size = 0
    BY <2>1, WindowType DEF BlockIn, NoMatch
  <2> QED BY <1>3, <2>2 DEF Matched
<1>4. CASE most # 0
  <2> DEFINE ends == { p \in DOMAIN run : run[p] = most }
  <2>1. ends # {} /\ ends \subseteq Cells(w)
    BY <1>1, <1>2, <1>4
  <2>2. ends \subseteq Nat \X Nat
    BY <2>1, CellType
  <2>3. PICK p \in ends : p = First(ends)
    <3> HIDE DEF ends
    <3> QED BY <2>1, <2>2, FirstIs
  <2>4. m = EndingAt(p, most)
    BY <1>4, <2>3 DEF Seed
  <2>5. Ends(a, b, popular, w, p, most)
    BY <1>1, <1>2, <2>1 DEF LongestEnd
  <2>6. BlockIn(w, m) /\ Matched(a, b, m)
    BY <1>2, <2>1, <2>4, <2>5, EndingBlock
  <2> QED BY <2>4, <2>6 DEF EndingAt
<1> QED BY <1>3, <1>4

(* The smaller of two numbers.                                             *)
LEMMA MinOfTwo ==
  ASSUME NEW x \in Nat, NEW y \in Nat
  PROVE  Min({x, y}) \in Nat /\ Min({x, y}) <= x /\ Min({x, y}) <= y /\ Min({x, y}) \in {x, y}
<1>1. {x, y} \subseteq Nat /\ {x, y} # {}
  OBVIOUS
<1> QED BY <1>1, MinIs

(* Extending: how far back, and how far on.                                *)
LEMMA ExtendBy ==
  ASSUME NEW E, NEW a \in Seq(E), NEW b \in Seq(E), NEW w \in Windows(a, b),
         NEW m, BlockIn(w, m)
  PROVE  \E back \in Nat, on \in Nat :
           /\ Extend(a, b, w, m) = Grown(m, back, on)
           /\ back <= m.a_start - w.alo /\ back <= m.b_start - w.blo
           /\ m.a_start + m.size + on <= w.ahi /\ m.b_start + m.size + on <= w.bhi
           /\ \A k \in 1 .. back : a[m.a_start - k] = b[m.b_start - k]
           /\ \A k \in m.size .. m.size + on - 1 : a[m.a_start + k] = b[m.b_start + k]
<1>1. /\ w.alo \in Nat /\ w.ahi \in Nat /\ w.blo \in Nat /\ w.bhi \in Nat
      /\ m.a_start \in Nat /\ m.b_start \in Nat /\ m.size \in Nat
      /\ w.alo <= m.a_start /\ m.a_start + m.size <= w.ahi
      /\ w.blo <= m.b_start /\ m.b_start + m.size <= w.bhi
  BY WindowType DEF BlockIn
<1> DEFINE x == Min({m.a_start - w.alo, m.b_start - w.blo})
           y == Min({w.ahi - m.a_start, w.bhi - m.b_start}) - m.size
           A == { n \in 0 .. x : \A k \in 1 .. n : a[m.a_start - k] = b[m.b_start - k] }
           B == { n \in 0 .. y :
                    \A k \in m.size .. m.size + n - 1 : a[m.a_start + k] = b[m.b_start + k] }
<1>2. x \in Nat /\ x <= m.a_start - w.alo /\ x <= m.b_start - w.blo
  <2>1. m.a_start - w.alo \in Nat /\ m.b_start - w.blo \in Nat
    BY <1>1, SMTT(30)
  <2> QED BY <2>1, MinOfTwo
<1>3. /\ y \in Nat
      /\ m.a_start + m.size + y <= w.ahi /\ m.b_start + m.size + y <= w.bhi
  <2>1. w.ahi - m.a_start \in Nat /\ w.bhi - m.b_start \in Nat
    BY <1>1, SMTT(30)
  <2>2. PICK z : z = Min({w.ahi - m.a_start, w.bhi - m.b_start})
    OBVIOUS
  <2>3. /\ z \in Nat /\ z <= w.ahi - m.a_start /\ z <= w.bhi - m.b_start
        /\ (z = w.ahi - m.a_start \/ z = w.bhi - m.b_start)
    BY <2>1, <2>2, MinOfTwo
  <2>4. y = z - m.size
    BY <2>2
  <2> HIDE DEF y
  <2>5. m.size <= z
    BY <1>1, <2>3, SMTT(30)
  <2>6. y \in Nat
    BY <1>1, <2>3, <2>4, <2>5, SMTT(30)
  <2>7. m.a_start + m.size + y <= w.ahi
    BY <1>1, <2>3, <2>4, SMTT(30)
  <2>8. m.b_start + m.size + y <= w.bhi
    BY <1>1, <2>3, <2>4, SMTT(30)
  <2> QED BY <2>6, <2>7, <2>8
<1>4. Extend(a, b, w, m) = Grown(m, Max(A), Max(B))
  BY DEF Extend
<1> HIDE DEF x, y
<1>5. 0 \in A /\ A \subseteq 0 .. x
  BY <1>2
<1>6. 0 \in B /\ B \subseteq 0 .. y
  BY <1>1, <1>3, SMTT(30)
<1>7. PICK back \in A : back = Max(A)
  <2> HIDE DEF A
  <2> QED BY <1>2, <1>5, MaxIs
<1>8. PICK on \in B : on = Max(B)
  <2> HIDE DEF B
  <2> QED BY <1>3, <1>6, MaxIs
<1>9. /\ back \in 0 .. x
      /\ \A k \in 1 .. back : a[m.a_start - k] = b[m.b_start - k]
  OBVIOUS
<1>10. /\ on \in 0 .. y
       /\ \A k \in m.size .. m.size + on - 1 : a[m.a_start + k] = b[m.b_start + k]
  OBVIOUS
<1>11. Extend(a, b, w, m) = Grown(m, back, on)
  BY <1>4, <1>7, <1>8
<1> HIDE DEF A, B
<1>12. back \in Nat /\ back <= m.a_start - w.alo /\ back <= m.b_start - w.blo
  BY <1>1, <1>2, <1>9, SMTT(30)
<1>13. on \in Nat /\ m.a_start + m.size + on <= w.ahi /\ m.b_start + m.size + on <= w.bhi
  BY <1>1, <1>3, <1>10, SMTT(30)
<1> QED BY <1>9, <1>10, <1>11, <1>12, <1>13

(* What find_longest_match returns is a matching block of its window.      *)
LEMMA LongestMatchInWindow ==
  ASSUME NEW E, NEW a \in Seq(E), NEW b \in Seq(E), NEW popular, NEW w \in Windows(a, b),
         NEW m, m = find_longest_match(a, b, popular, w)
  PROVE  BlockIn(w, m) /\ Matched(a, b, m)
<1>1. PICK run : run = Run(a, b, popular, w)
  OBVIOUS
<1>2. PICK most : most = Longest(run)
  OBVIOUS
<1>3. PICK s : s = Seed(run, w, most)
  OBVIOUS
<1>4. BlockIn(w, s) /\ Matched(a, b, s)
  BY <1>1, <1>2, <1>3, SeedIs
<1>5. m = Extend(a, b, w, s)
  BY <1>1, <1>2, <1>3 DEF find_longest_match
<1>6. PICK back \in Nat, on \in Nat :
           /\ m = Grown(s, back, on)
           /\ back <= s.a_start - w.alo /\ back <= s.b_start - w.blo
           /\ s.a_start + s.size + on <= w.ahi /\ s.b_start + s.size + on <= w.bhi
           /\ \A k \in 1 .. back : a[s.a_start - k] = b[s.b_start - k]
           /\ \A k \in s.size .. s.size + on - 1 : a[s.a_start + k] = b[s.b_start + k]
  BY <1>4, <1>5, ExtendBy
<1>7. PICK i \in Nat, j \in Nat, z \in Nat : i = s.a_start /\ j = s.b_start /\ z = s.size
  BY <1>4 DEF BlockIn
<1>8. m = [a_start |-> i - back, b_start |-> j - back, size |-> z + back + on]
  BY <1>6, <1>7 DEF Grown
<1>9. BlockIn(w, m) /\ m.a_start = i - back /\ m.b_start = j - back /\ m.size = z + back + on
  <2>1. w.alo \in Nat /\ w.ahi \in Nat /\ w.blo \in Nat /\ w.bhi \in Nat
    BY WindowType
  <2>2. /\ back <= i - w.alo /\ back <= j - w.blo
        /\ i + z + on <= w.ahi /\ j + z + on <= w.bhi
    BY <1>6, <1>7
  <2>3. PICK n \in Nat, k \in Nat, l \in Nat : n = i - back /\ k = j - back /\ l = z + back + on
    BY <2>1, <2>2, SMTT(30)
  <2>4. w.alo <= n /\ n + l <= w.ahi
    BY <2>1, <2>2, <2>3
  <2>5. w.blo <= k /\ k + l <= w.bhi
    BY <2>1, <2>2, <2>3
  <2>6. m = [a_start |-> n, b_start |-> k, size |-> l]
    BY <1>8, <2>3
  <2> QED BY <2>3, <2>4, <2>5, <2>6, BlockFrom, ZenonT(40)
<1>10. ASSUME NEW k \in 0 .. (z + back + on) - 1
       PROVE  a[(i - back) + k] = b[(j - back) + k]
  <2>1. CASE k < back
    <3>1. back - k \in 1 .. back /\ i - (back - k) = (i - back) + k /\ j - (back - k) = (j - back) + k
      BY <2>1
    <3>2. a[i - (back - k)] = b[j - (back - k)]
      BY <1>6, <1>7, <3>1
    <3> QED BY <3>1, <3>2
  <2>2. CASE back <= k /\ k < back + z
    <3>1. k - back \in 0 .. z - 1 /\ i + (k - back) = (i - back) + k /\ j + (k - back) = (j - back) + k
      BY <2>2
    <3>2. a[i + (k - back)] = b[j + (k - back)]
      BY <1>4, <1>7, <3>1 DEF Matched
    <3> QED BY <3>1, <3>2
  <2>3. CASE back + z <= k
    <3>1. k - back \in z .. z + on - 1 /\ i + (k - back) = (i - back) + k /\ j + (k - back) = (j - back) + k
      BY <2>3
    <3>2. a[i + (k - back)] = b[j + (k - back)]
      BY <1>6, <1>7, <3>1
    <3> QED BY <3>1, <3>2
  <2> QED BY <2>1, <2>2, <2>3
<1>11. Matched(a, b, m)
  BY <1>9, <1>10 DEF Matched
<1> QED BY <1>9, <1>11

(* A block of the window is a run that ends at its last pair.              *)
LEMMA BlockEnds ==
  ASSUME NEW E, NEW a \in Seq(E), NEW b \in Seq(E), NEW w \in Windows(a, b),
         NEW m, BlockIn(w, m), Matched(a, b, m), m.size # 0
  PROVE  \E p \in Cells(w) : m = EndingAt(p, m.size) /\ Ends(a, b, {}, w, p, m.size)
<1>1. PICK i \in Nat, j \in Nat, n \in Nat :
        /\ i = m.a_start /\ j = m.b_start /\ n = m.size
        /\ m = [a_start |-> i, b_start |-> j, size |-> n]
  BY DEF BlockIn
<1>2. /\ w.alo \in Nat /\ w.ahi \in Nat /\ w.blo \in Nat /\ w.bhi \in Nat
      /\ w.alo <= i /\ i + n <= w.ahi /\ w.blo <= j /\ j + n <= w.bhi /\ n > 0
  BY <1>1, WindowType DEF BlockIn
<1>3. PICK k \in Nat, l \in Nat : k = i + n - 1 /\ l = j + n - 1
  BY <1>2
<1>4. k \in w.alo .. w.ahi - 1 /\ l \in w.blo .. w.bhi - 1
  BY <1>2, <1>3, SMTT(30)
<1>5. PICK p \in Cells(w) : p = <<k, l>>
  BY <1>4 DEF Cells
<1>6. i = k + 1 - n /\ j = l + 1 - n
  BY <1>3
<1>7. m = EndingAt(p, n)
  BY <1>1, <1>5, <1>6 DEF EndingAt
<1>8. ASSUME NEW h \in 0 .. n - 1 PROVE a[k - h] = b[l - h]
  <2>1. (n - 1) - h \in 0 .. n - 1 /\ i + ((n - 1) - h) = k - h /\ j + ((n - 1) - h) = l - h
    BY <1>3
  <2>2. a[i + ((n - 1) - h)] = b[j + ((n - 1) - h)]
    BY <1>1, <2>1 DEF Matched
  <2> QED BY <2>1, <2>2
<1>9. n <= k - w.alo + 1 /\ n <= l - w.blo + 1
  BY <1>2, <1>3, SMTT(30)
<1>10. Ends(a, b, {}, w, p, n)
  BY <1>5, <1>8, <1>9 DEF Ends
<1> QED BY <1>1, <1>7, <1>10

(* find_longest_match returns the longest block, the earliest of equally   *)
(* long ones, when no element is popular.                                  *)
LEMMA LongestMatchIs ==
  ASSUME NEW E, NEW a \in Seq(E), NEW b \in Seq(E), NEW w \in Windows(a, b),
         NEW m, m = find_longest_match(a, b, {}, w),
         NEW n, BlockIn(w, n), Matched(a, b, n), n.size # 0, n # m
  PROVE  \/ n.size < m.size
         \/ /\ n.size = m.size
            /\ \/ m.a_start < n.a_start
               \/ m.a_start = n.a_start /\ m.b_start < n.b_start
<1>1. PICK run : run = Run(a, b, {}, w)
  OBVIOUS
<1>2. PICK most : most = Longest(run)
  OBVIOUS
<1>3. PICK s : s = Seed(run, w, most)
  OBVIOUS
<1>4. BlockIn(w, s) /\ Matched(a, b, s) /\ s.size = most
  BY <1>1, <1>2, <1>3, SeedIs
<1>5. /\ most \in Nat
      /\ \A p \in Cells(w) : run[p] \in Nat /\ run[p] <= most
      /\ most # 0 => \E p \in Cells(w) : run[p] = most
  BY <1>1, <1>2, LongestIs
<1>6. /\ DOMAIN run = Cells(w)
      /\ \A p \in Cells(w) : run[p] \in Nat /\ LongestEnd(a, b, {}, w, p, run[p])
  BY <1>1, RunIs
<1>7. ASSUME NEW x, BlockIn(w, x), Matched(a, b, x), x.size # 0
      PROVE  x.size \in Nat /\ \E p \in Cells(w) : x = EndingAt(p, x.size) /\ x.size <= run[p]
  <2>1. PICK p \in Cells(w) : x = EndingAt(p, x.size) /\ Ends(a, b, {}, w, p, x.size)
    BY <1>7, BlockEnds
  <2>2. x.size \in Nat
    BY <1>7 DEF BlockIn
  <2> QED BY <1>6, <2>1, <2>2 DEF LongestEnd
<1>8. m = s
  <2>1. BlockIn(w, m) /\ Matched(a, b, m)
    BY LongestMatchInWindow
  <2>2. m = Extend(a, b, w, s)
    BY <1>1, <1>2, <1>3 DEF find_longest_match
  <2>3. PICK back \in Nat, on \in Nat : m = Grown(s, back, on)
    BY <1>4, <2>2, ExtendBy
  <2>4. PICK i \in Nat, j \in Nat, z \in Nat :
          s = [a_start |-> i, b_start |-> j, size |-> z] /\ z = most
    BY <1>4 DEF BlockIn
  <2>5. m = [a_start |-> i - back, b_start |-> j - back, size |-> z + back + on]
    BY <2>3, <2>4 DEF Grown
  <2>6. m.size = z + back + on
    BY <2>5
  <2>7. m.size <= most
    <3>1. CASE m.size = 0
      BY <1>5, <3>1
    <3>2. CASE m.size # 0
      <4>1. PICK p \in Cells(w) : m.size <= run[p] /\ m.size \in Nat
        BY <1>7, <2>1, <3>2
      <4> QED BY <1>5, <4>1
    <3> QED BY <3>1, <3>2
  <2>8. back = 0 /\ on = 0
    BY <2>4, <2>6, <2>7
  <2>9. i - back = i /\ j - back = j /\ z + back + on = z
    BY <2>8
  <2> QED BY <2>4, <2>5, <2>9
<1>9. n.size \in Nat /\ n.size <= most
  <2>1. PICK p \in Cells(w) : n.size <= run[p] /\ n.size \in Nat
    BY <1>7
  <2> QED BY <1>5, <2>1
<1>10. CASE n.size # most
  BY <1>4, <1>5, <1>8, <1>9, <1>10
<1>11. CASE n.size = most
  <2> DEFINE ends == { p \in DOMAIN run : run[p] = most }
  <2>0. most # 0
    BY <1>11
  <2>1. ends # {} /\ ends \subseteq Cells(w)
    BY <1>5, <1>6, <2>0
  <2>2. ends \subseteq Nat \X Nat
    BY <2>1, CellType
  <2>3. PICK p \in ends : p = First(ends) /\ \A q \in ends \ {p} : Earlier(p, q)
    <3> HIDE DEF ends
    <3> QED BY <2>1, <2>2, FirstIs
  <2>4. m = EndingAt(p, most)
    BY <1>3, <1>8, <2>0, <2>3 DEF Seed
  <2>5. PICK q \in Cells(w) : n = EndingAt(q, most) /\ most <= run[q]
    BY <1>7, <1>11
  <2>6. q \in ends
    BY <1>5, <1>6, <2>5
  <2>7. q # p
    BY <2>4, <2>5
  <2>8. Earlier(p, q)
    BY <2>3, <2>6, <2>7
  <2>9. p[1] \in Nat /\ p[2] \in Nat /\ q[1] \in Nat /\ q[2] \in Nat
    BY <2>1, <2>6, CellType
  <2>10. /\ m.a_start = p[1] + 1 - most /\ m.b_start = p[2] + 1 - most
         /\ n.a_start = q[1] + 1 - most /\ n.b_start = q[2] + 1 - most
    BY <2>4, <2>5 DEF EndingAt
  <2>11. \/ m.a_start < n.a_start
         \/ m.a_start = n.a_start /\ m.b_start < n.b_start
    BY <1>5, <2>8, <2>9, <2>10 DEF Earlier
  <2> QED BY <1>4, <1>8, <1>11, <2>11
<1> QED BY <1>10, <1>11
-----------------------------------------------------------------------------
(* The texts never change.                                                 *)
Inputs == text_prev \in Texts /\ text_curr \in Texts

(* A text is a short list of tokens.                                       *)
LEMMA TextType ==
  ASSUME NEW t \in Texts
  PROVE  t \in Seq(Token) /\ Len(t) \in Nat /\ Len(t) <= MaxLen /\ DOMAIN t = 1 .. Len(t)
<1>1. PICK n \in 0 .. MaxLen : t \in [1 .. n -> Token]
  BY DEF Texts
<1>2. n \in Nat /\ n <= MaxLen
  BY <1>1, DifferAssumption
<1>3. t \in Seq(Token)
  BY <1>1, <1>2, SeqDef
<1>4. DOMAIN t = 1 .. Len(t) /\ Len(t) \in Nat
  BY <1>3, LenProperties
<1>5. 1 .. Len(t) = 1 .. n
  BY <1>1, <1>4
<1>6. Len(t) = n
  <2>1. \A x : x \in 1 .. Len(t) <=> x \in 1 .. n
    BY <1>5
  <2>2. n # 0 => n <= Len(t)
    <3>1. n # 0 => n \in 1 .. n
      BY <1>2
    <3> QED BY <2>1, <3>1, <1>4
  <2>3. Len(t) # 0 => Len(t) <= n
    <3>1. Len(t) # 0 => Len(t) \in 1 .. Len(t)
      BY <1>4
    <3> QED BY <2>1, <3>1, <1>2
  <2>4. PICK l \in Nat : l = Len(t)
    BY <1>4
  <2>5. (n # 0 => n <= l) /\ (l # 0 => l <= n)
    BY <2>2, <2>3, <2>4
  <2>6. l = n
    BY ONLY <1>2, <2>5, l \in Nat
  <2> QED BY <2>4, <2>6
<1> QED BY <1>2, <1>3, <1>4, <1>6

(* No step changes a text.                                                 *)
LEMMA InputsInvariant == Spec => []Inputs
<1>1. Init => Inputs
  BY DEF Init, Inputs
<1>2. Inputs /\ [Next]_vars => Inputs'
  BY DEF Inputs, Next, Write, FancyReplace, ProbeSame, ProbeOther, Synch, GoOn, vars, input, Texts
<1> QED BY <1>1, <1>2, PTL DEF Spec

(* find_longest_match returns the longest block of every window, and the   *)
(* earliest of equally long ones, whatever the lists.                      *)
LEMMA LongestMatchHolds == Inputs => LongestMatch
<1> SUFFICES ASSUME Inputs, Popular(text_curr) = {},
                    NEW ahi \in 1 .. Len(text_prev) + 1, NEW bhi \in 1 .. Len(text_curr) + 1,
                    NEW alo \in 1 .. ahi, NEW blo \in 1 .. bhi
             PROVE
      LET w == Window(alo, ahi, blo, bhi)
          blocks == { m \in [a_start : alo .. ahi - 1, b_start : blo .. bhi - 1, size : 1 .. MaxLen] :
                        /\ m.a_start + m.size <= ahi /\ m.b_start + m.size <= bhi
                        /\ \A k \in 0 .. m.size - 1 :
                             text_prev[m.a_start + k] = text_curr[m.b_start + k] }
          m == find_longest_match(text_prev, text_curr, {}, w)
      IN  IF blocks = {} THEN m.size = 0
          ELSE /\ m \in blocks
               /\ \A n \in blocks \ {m} :
                    \/ n.size < m.size
                    \/ /\ n.size = m.size
                       /\ \/ m.a_start < n.a_start
                          \/ m.a_start = n.a_start /\ m.b_start < n.b_start
  BY DEF LongestMatch
<1> DEFINE blocks == { m \in [a_start : alo .. ahi - 1, b_start : blo .. bhi - 1, size : 1 .. MaxLen] :
                        /\ m.a_start + m.size <= ahi /\ m.b_start + m.size <= bhi
                        /\ \A k \in 0 .. m.size - 1 :
                             text_prev[m.a_start + k] = text_curr[m.b_start + k] }
<1>0. PICK w : w = Window(alo, ahi, blo, bhi)
  OBVIOUS
<1>1. PICK m : m = find_longest_match(text_prev, text_curr, {}, w)
  OBVIOUS
<1>2. /\ text_prev \in Seq(Token) /\ Len(text_prev) \in Nat /\ Len(text_prev) <= MaxLen
      /\ text_curr \in Seq(Token) /\ Len(text_curr) \in Nat
  BY TextType DEF Inputs
<1>3. /\ ahi \in Nat /\ bhi \in Nat /\ alo \in Nat /\ blo \in Nat
      /\ 1 <= alo /\ alo <= ahi /\ ahi <= Len(text_prev) + 1
      /\ 1 <= blo /\ blo <= bhi /\ bhi <= Len(text_curr) + 1
  BY <1>2
<1>4. w \in Windows(text_prev, text_curr)
  BY <1>0, <1>2, <1>3, WindowIn
<1>5. w.alo = alo /\ w.ahi = ahi /\ w.blo = blo /\ w.bhi = bhi
  BY <1>0 DEF Window
<1>6. \A n : n \in blocks <=> BlockIn(w, n) /\ Matched(text_prev, text_curr, n) /\ n.size # 0
  <2>1. ASSUME NEW n \in blocks
        PROVE  BlockIn(w, n) /\ Matched(text_prev, text_curr, n) /\ n.size # 0
    <3>1. /\ n = [a_start |-> n.a_start, b_start |-> n.b_start, size |-> n.size]
          /\ n.a_start \in alo .. ahi - 1 /\ n.b_start \in blo .. bhi - 1 /\ n.size \in 1 .. MaxLen
          /\ n.a_start + n.size <= ahi /\ n.b_start + n.size <= bhi
          /\ Matched(text_prev, text_curr, n)
      BY DEF Matched
    <3> HIDE DEF blocks
    <3>2. n.a_start \in Nat /\ n.b_start \in Nat /\ n.size \in Nat /\ n.size # 0
      BY <1>3, <3>1, DifferAssumption, SMTT(30)
    <3>3. alo <= n.a_start /\ blo <= n.b_start
      BY <1>3, <3>1
    <3> QED BY <1>5, <3>1, <3>2, <3>3 DEF BlockIn
  <2>2. ASSUME NEW n, BlockIn(w, n), Matched(text_prev, text_curr, n), n.size # 0
        PROVE  n \in blocks
    <3>1. /\ n = [a_start |-> n.a_start, b_start |-> n.b_start, size |-> n.size]
          /\ n.a_start \in Nat /\ n.b_start \in Nat /\ n.size \in Nat
          /\ alo <= n.a_start /\ n.a_start + n.size <= ahi
          /\ blo <= n.b_start /\ n.b_start + n.size <= bhi
      BY <1>5, <2>2 DEF BlockIn
    <3>2. n.a_start \in alo .. ahi - 1 /\ n.b_start \in blo .. bhi - 1 /\ n.size \in 1 .. MaxLen
      <4>1. MaxLen \in Nat
        BY DifferAssumption
      <4>2. n.size >= 1
        BY <2>2, <3>1
      <4>3. n.a_start <= ahi - 1 /\ n.b_start <= bhi - 1 /\ n.size <= MaxLen
        BY <1>2, <1>3, <3>1, <4>1, <4>2
      <4> QED BY <1>3, <3>1, <4>1, <4>2, <4>3
    <3>3. n \in [a_start : alo .. ahi - 1, b_start : blo .. bhi - 1, size : 1 .. MaxLen]
      BY <3>1, <3>2
    <3> QED BY <2>2, <3>1, <3>3 DEF Matched
  <2> QED BY <2>1, <2>2
<1>7. BlockIn(w, m) /\ Matched(text_prev, text_curr, m)
  BY <1>1, <1>2, <1>4, LongestMatchInWindow
<1>8. \A n \in blocks \ {m} :
                    \/ n.size < m.size
                    \/ /\ n.size = m.size
                       /\ \/ m.a_start < n.a_start
                          \/ m.a_start = n.a_start /\ m.b_start < n.b_start
  <2> HIDE DEF blocks
  <2> TAKE n \in blocks \ {m}
  <2>1. BlockIn(w, n) /\ Matched(text_prev, text_curr, n) /\ n.size # 0 /\ n # m
    BY <1>6
  <2> QED BY <1>1, <1>2, <1>4, <2>1, LongestMatchIs
<1>9. CASE blocks = {}
  <2>1. m.size = 0
    <3> HIDE DEF blocks
    <3> QED BY <1>6, <1>7, <1>9
  <2> QED BY <1>0, <1>1, <1>9, <2>1
<1>10. CASE blocks # {}
  <2>1. m \in blocks
    <3> HIDE DEF blocks
    <3>1. PICK n \in blocks : TRUE
      BY <1>10
    <3>2. n.size # 0 /\ n.size \in Nat /\ m.size \in Nat
      BY <1>6, <1>7, <3>1 DEF BlockIn
    <3>3. m.size # 0
      BY <1>8, <3>1, <3>2
    <3> QED BY <1>6, <1>7, <3>3
  <2> QED BY <1>0, <1>1, <1>8, <1>10, <2>1
<1> QED BY <1>9, <1>10

(* find_longest_match returns the longest block of every window of the two *)
(* texts, the earliest in a and then in b of equally long ones.            *)
THEOREM LongestMatchFound == Spec => []LongestMatch
BY InputsInvariant, LongestMatchHolds, PTL
-----------------------------------------------------------------------------
(* get_matching_blocks: the recursion has a solution, since the windows on *)
(* both sides of a match are narrower.                                     *)
Split2(a, b, popular, f, w) ==
  LET m == find_longest_match(a, b, popular, w)
  IN  IF m.size = 0 THEN << >>
      ELSE f[Before(w, m)] \o <<m>> \o f[After(w, m)]

Narrow(a, b, n) == { w \in Windows(a, b) : w.ahi - w.alo <= n }
SplitsUpTo(a, b, popular, n, f) ==
  f = [w \in Narrow(a, b, n) |-> Split2(a, b, popular, f, w)]

(* Both sides of a match are windows, and shorter ones.                    *)
LEMMA SidesOfMatch ==
  ASSUME NEW E, NEW a \in Seq(E), NEW b \in Seq(E), NEW w \in Windows(a, b),
         NEW m, BlockIn(w, m), m.size # 0
  PROVE  /\ Before(w, m) \in Windows(a, b) /\ After(w, m) \in Windows(a, b)
         /\ Before(w, m).alo = w.alo /\ Before(w, m).ahi = m.a_start
         /\ Before(w, m).blo = w.blo /\ Before(w, m).bhi = m.b_start
         /\ After(w, m).alo = m.a_start + m.size /\ After(w, m).ahi = w.ahi
         /\ After(w, m).blo = m.b_start + m.size /\ After(w, m).bhi = w.bhi
         /\ Before(w, m).ahi - Before(w, m).alo < w.ahi - w.alo
         /\ After(w, m).ahi - After(w, m).alo < w.ahi - w.alo
<1>1. PICK i \in Nat, j \in Nat, n \in Nat : i = m.a_start /\ j = m.b_start /\ n = m.size
  BY DEF BlockIn
<1>2. PICK alo \in Nat, ahi \in Nat, blo \in Nat, bhi \in Nat :
        /\ w.alo = alo /\ w.ahi = ahi /\ w.blo = blo /\ w.bhi = bhi
        /\ w = Window(alo, ahi, blo, bhi)
  BY WindowType, SMTT(30)
<1>3. /\ 1 <= alo /\ alo <= ahi /\ ahi <= Len(a) + 1 /\ 1 <= blo /\ blo <= bhi /\ bhi <= Len(b) + 1
      /\ Len(a) \in Nat /\ Len(b) \in Nat
  BY <1>2, WindowType
<1>4. /\ alo <= i /\ i + n <= ahi /\ blo <= j /\ j + n <= bhi /\ n > 0
  BY <1>1, <1>2 DEF BlockIn
<1>w. w = [alo |-> alo, ahi |-> ahi, blo |-> blo, bhi |-> bhi]
  BY <1>2 DEF Window
<1>5. Before(w, m) = Window(alo, i, blo, j)
  <2>1. [w EXCEPT !.ahi = i, !.bhi = j] = [[w EXCEPT !.ahi = i] EXCEPT !.bhi = j]
    BY ONLY <1>w
  <2>2. PICK v : v = [w EXCEPT !.ahi = i]
    OBVIOUS
  <2>3. v = [alo |-> alo, ahi |-> i, blo |-> blo, bhi |-> bhi]
    BY ONLY <1>w, <2>2
  <2>4. [v EXCEPT !.bhi = j] = [alo |-> alo, ahi |-> i, blo |-> blo, bhi |-> j]
    BY ONLY <2>3
  <2> QED BY <1>1, <2>1, <2>2, <2>4 DEF Before, Window
<1>6. After(w, m) = Window(i + n, ahi, j + n, bhi)
  <2>1. PICK x, y : x = i + n /\ y = j + n
    OBVIOUS
  <2>2. [w EXCEPT !.alo = x, !.blo = y] = [[w EXCEPT !.alo = x] EXCEPT !.blo = y]
    BY ONLY <1>w
  <2>3. PICK v : v = [w EXCEPT !.alo = x]
    OBVIOUS
  <2>4. v = [alo |-> x, ahi |-> ahi, blo |-> blo, bhi |-> bhi]
    BY ONLY <1>w, <2>3
  <2>5. [v EXCEPT !.blo = y] = [alo |-> x, ahi |-> ahi, blo |-> y, bhi |-> bhi]
    BY ONLY <2>4
  <2> QED BY <1>1, <2>1, <2>2, <2>3, <2>5 DEF After, Window
<1>7. Window(alo, i, blo, j) \in Windows(a, b)
  <2>1. i <= Len(a) + 1 /\ j <= Len(b) + 1
    BY <1>3, <1>4
  <2> QED BY <1>3, <1>4, <2>1, WindowIn
<1>8. Window(i + n, ahi, j + n, bhi) \in Windows(a, b)
  <2>1. PICK x \in Nat, y \in Nat : x = i + n /\ y = j + n
    OBVIOUS
  <2>2. 1 <= x /\ x <= ahi /\ 1 <= y /\ y <= bhi
    BY <1>3, <1>4, <2>1
  <2>3. Window(x, ahi, y, bhi) \in Windows(a, b)
    BY <1>3, <2>2, WindowIn
  <2> QED BY <2>1, <2>3
<1>9. i - alo < ahi - alo /\ ahi - (i + n) < ahi - alo
  BY <1>4
<1>10. Before(w, m) \in Windows(a, b) /\ After(w, m) \in Windows(a, b)
  BY <1>5, <1>6, <1>7, <1>8
<1>11. /\ Before(w, m).alo = alo /\ Before(w, m).ahi = i
       /\ Before(w, m).blo = blo /\ Before(w, m).bhi = j
  BY <1>5 DEF Window
<1>12. /\ After(w, m).alo = i + n /\ After(w, m).ahi = ahi
       /\ After(w, m).blo = j + n /\ After(w, m).bhi = bhi
  BY <1>6 DEF Window
<1> QED BY <1>1, <1>2, <1>9, <1>10, <1>11, <1>12

(* The recursion of get_matching_blocks has a solution, by the width of    *)
(* the window.                                                             *)
LEMMA SplitsExist ==
  ASSUME NEW E, NEW a \in Seq(E), NEW b \in Seq(E), NEW popular, NEW n \in Nat
  PROVE  \E f : SplitsUpTo(a, b, popular, n, f)
<1> DEFINE T == { k \in Nat : ~ \E f : SplitsUpTo(a, b, popular, k, f) }
<1>1. T = {}
  <2> SUFFICES ASSUME T # {} PROVE FALSE
    OBVIOUS
  <2>1. PICK k \in T : \A l \in T : k <= l
    <3>1. T \subseteq Nat
      OBVIOUS
    <3> HIDE DEF T
    <3> QED BY <3>1, LeastNat
  <2>2. PICK g : k # 0 => SplitsUpTo(a, b, popular, k - 1, g)
    <3>1. k # 0 => k - 1 \in Nat /\ k - 1 \notin T
      BY <2>1
    <3> QED BY <3>1
  <2>3. k \in Nat
    OBVIOUS
  <2> HIDE DEF T
  <2> DEFINE h == [w \in Narrow(a, b, k) |-> Split2(a, b, popular, g, w)]
  <2>4. ASSUME NEW w \in Narrow(a, b, k)
        PROVE  Split2(a, b, popular, g, w) = Split2(a, b, popular, h, w)
    <3>1. PICK m : m = find_longest_match(a, b, popular, w)
      OBVIOUS
    <3>2. w \in Windows(a, b) /\ w.ahi - w.alo <= k
      BY DEF Narrow
    <3>3. BlockIn(w, m)
      BY <3>1, <3>2, LongestMatchInWindow
    <3>4. CASE m.size = 0
      BY <3>1, <3>4 DEF Split2
    <3>5. CASE m.size # 0
      <4>1. /\ Before(w, m) \in Windows(a, b) /\ After(w, m) \in Windows(a, b)
            /\ Before(w, m).ahi - Before(w, m).alo < w.ahi - w.alo
            /\ After(w, m).ahi - After(w, m).alo < w.ahi - w.alo
        BY <3>2, <3>3, <3>5, SidesOfMatch
      <4>2. ASSUME NEW v \in Windows(a, b), v.ahi - v.alo < w.ahi - w.alo
            PROVE  g[v] = h[v]
        <5>1. /\ v.ahi \in Nat /\ v.alo \in Nat /\ v.alo <= v.ahi
              /\ w.ahi \in Nat /\ w.alo \in Nat
          BY <3>2, <4>2, WindowType
        <5>2. k # 0 /\ v.ahi - v.alo <= k - 1 /\ v.ahi - v.alo <= k
          BY <2>3, <3>2, <4>2, <5>1
        <5>3. v \in Narrow(a, b, k - 1) /\ v \in Narrow(a, b, k)
          BY <4>2, <5>2 DEF Narrow
        <5>4. h[v] = Split2(a, b, popular, g, v)
          BY <5>3
        <5>5. g[v] = Split2(a, b, popular, g, v)
          <6>1. g = [x \in Narrow(a, b, k - 1) |-> Split2(a, b, popular, g, x)]
            BY <2>2, <5>2 DEF SplitsUpTo
          <6> HIDE DEF h
          <6> QED BY <5>3, <6>1
        <5> QED BY <5>4, <5>5
      <4> HIDE DEF h
      <4>3. g[Before(w, m)] = h[Before(w, m)] /\ g[After(w, m)] = h[After(w, m)]
        BY <4>1, <4>2
      <4> QED BY <3>1, <3>5, <4>3 DEF Split2
    <3> QED BY <3>4, <3>5
  <2>5. h = [w \in Narrow(a, b, k) |-> Split2(a, b, popular, h, w)]
    <3>1. h = [w \in Narrow(a, b, k) |-> Split2(a, b, popular, g, w)]
      OBVIOUS
    <3> HIDE DEF h
    <3> QED BY <2>4, <3>1
  <2>6. SplitsUpTo(a, b, popular, k, h)
    <3> HIDE DEF h
    <3> QED BY <2>5 DEF SplitsUpTo
  <2> HIDE DEF h
  <2>7. k \notin T
    BY <2>3, <2>6 DEF T
  <2> QED BY <2>7
<1> QED BY <1>1

(* Matching blocks of a window: in order, none empty, none overlapping.    *)
Block == [a_start : Nat, b_start : Nat, size : Nat]
Follows(m, n) == m.a_start + m.size <= n.a_start /\ m.b_start + m.size <= n.b_start
BlockChain(a, b, w, s) ==
  /\ s \in Seq(Block)
  /\ \A k \in 1 .. Len(s) : BlockIn(w, s[k]) /\ Matched(a, b, s[k]) /\ s[k].size # 0
  /\ \A k, l \in 1 .. Len(s) : k < l => Follows(s[k], s[l])

(* A block of a window is one.                                             *)
LEMMA BlockIsBlock ==
  ASSUME NEW w, NEW m, BlockIn(w, m)
  PROVE  m \in Block
BY DEF BlockIn, Block

(* The blocks before a match, the match, and the blocks after it.          *)
LEMMA ChainAround ==
  ASSUME NEW E, NEW a \in Seq(E), NEW b \in Seq(E), NEW w \in Windows(a, b),
         NEW m, BlockIn(w, m), Matched(a, b, m), m.size # 0,
         NEW s, BlockChain(a, b, Before(w, m), s), NEW t, BlockChain(a, b, After(w, m), t)
  PROVE  BlockChain(a, b, w, s \o <<m>> \o t)
<1>1. PICK c : c = <<m>>
  OBVIOUS
<1>2. c \in Seq(Block) /\ Len(c) = 1 /\ c[1] = m
  BY <1>1, BlockIsBlock
<1>3. s \in Seq(Block) /\ t \in Seq(Block) /\ Len(s) \in Nat /\ Len(t) \in Nat
  BY LenProperties DEF BlockChain
<1>4. PICK x \in Nat, y \in Nat : x = Len(s) /\ y = Len(t)
  BY <1>3
<1>5. PICK u : u = s \o c
  OBVIOUS
<1>6. /\ u \in Seq(Block) /\ Len(u) = x + 1
      /\ \A k \in 1 .. x + 1 : u[k] = IF k <= x THEN s[k] ELSE c[k - x]
  <2>1. /\ s \o c \in Seq(Block) /\ Len(s \o c) = Len(s) + Len(c)
        /\ \A k \in 1 .. Len(s) + Len(c) :
             (s \o c)[k] = IF k <= Len(s) THEN s[k] ELSE c[k - Len(s)]
    BY <1>2, <1>3, ConcatProperties
  <2> QED BY <1>2, <1>4, <1>5, <2>1
<1>7. PICK v : v = u \o t
  OBVIOUS
<1>8. /\ v \in Seq(Block) /\ Len(v) = x + 1 + y
      /\ \A k \in 1 .. x + 1 + y : v[k] = IF k <= x + 1 THEN u[k] ELSE t[k - (x + 1)]
  <2>1. /\ u \o t \in Seq(Block) /\ Len(u \o t) = Len(u) + Len(t)
        /\ \A k \in 1 .. Len(u) + Len(t) :
             (u \o t)[k] = IF k <= Len(u) THEN u[k] ELSE t[k - Len(u)]
    BY <1>3, <1>6, ConcatProperties
  <2> QED BY <1>4, <1>6, <1>7, <2>1
<1>9. ASSUME NEW k \in 1 .. Len(v)
      PROVE  \/ k \in 1 .. x /\ v[k] = s[k]
             \/ k = x + 1 /\ v[k] = m
             \/ k - (x + 1) \in 1 .. y /\ v[k] = t[k - (x + 1)]
  <2>1. k \in 1 .. x + 1 + y
    BY <1>8
  <2>2. CASE k <= x
    <3>1. k \in 1 .. x /\ k \in 1 .. x + 1 /\ k <= x + 1
      BY <2>2, <2>1
    <3> QED BY <1>6, <1>8, <2>1, <2>2, <3>1
  <2>3. CASE k = x + 1
    <3>1. k \in 1 .. x + 1 /\ k <= x + 1 /\ ~ (k <= x) /\ k - x = 1
      BY <2>3
    <3> QED BY <1>2, <1>6, <1>8, <2>1, <2>3, <3>1
  <2>4. CASE k > x + 1
    <3>1. k - (x + 1) \in 1 .. y /\ ~ (k <= x + 1)
      BY <2>1, <2>4
    <3> QED BY <1>8, <2>1, <3>1
  <2> QED BY <2>1, <2>2, <2>3, <2>4
<1>10. PICK alo \in Nat, ahi \in Nat, blo \in Nat, bhi \in Nat :
         w.alo = alo /\ w.ahi = ahi /\ w.blo = blo /\ w.bhi = bhi
  BY WindowType
<1>11. PICK i \in Nat, j \in Nat, n \in Nat : i = m.a_start /\ j = m.b_start /\ n = m.size
  BY DEF BlockIn
<1>12. alo <= i /\ i + n <= ahi /\ blo <= j /\ j + n <= bhi /\ n > 0
  BY <1>10, <1>11 DEF BlockIn
<1>s. /\ Before(w, m).alo = w.alo /\ Before(w, m).ahi = m.a_start
      /\ Before(w, m).blo = w.blo /\ Before(w, m).bhi = m.b_start
      /\ After(w, m).alo = m.a_start + m.size /\ After(w, m).ahi = w.ahi
      /\ After(w, m).blo = m.b_start + m.size /\ After(w, m).bhi = w.bhi
  BY SidesOfMatch
<1>13. ASSUME NEW k \in 1 .. x
       PROVE  /\ BlockIn(w, s[k]) /\ Matched(a, b, s[k]) /\ s[k].size # 0
              /\ Follows(s[k], m)
  <2>1. BlockIn(Before(w, m), s[k]) /\ Matched(a, b, s[k]) /\ s[k].size # 0
    BY <1>4 DEF BlockChain
  <2>2. /\ s[k] = [a_start |-> s[k].a_start, b_start |-> s[k].b_start, size |-> s[k].size]
        /\ s[k].a_start \in Nat /\ s[k].b_start \in Nat /\ s[k].size \in Nat
        /\ alo <= s[k].a_start /\ s[k].a_start + s[k].size <= i
        /\ blo <= s[k].b_start /\ s[k].b_start + s[k].size <= j
    <3>1. PICK z : z = Before(w, m)
      OBVIOUS
    <3>2. z.alo = alo /\ z.ahi = i /\ z.blo = blo /\ z.bhi = j
      BY <1>10, <1>11, <1>s, <3>1
    <3>3. BlockIn(z, s[k])
      BY <2>1, <3>1
    <3> QED BY <3>2, <3>3 DEF BlockIn
  <2>3. s[k].a_start + s[k].size <= ahi /\ s[k].b_start + s[k].size <= bhi
    BY <1>12, <2>2, SMTT(30)
  <2>4. BlockIn(w, s[k])
    BY <1>10, <2>2, <2>3 DEF BlockIn
  <2>5. Follows(s[k], m)
    BY <1>11, <2>2 DEF Follows
  <2> QED BY <2>1, <2>4, <2>5
<1>14. ASSUME NEW k \in 1 .. y
       PROVE  /\ BlockIn(w, t[k]) /\ Matched(a, b, t[k]) /\ t[k].size # 0
              /\ Follows(m, t[k])
  <2>1. BlockIn(After(w, m), t[k]) /\ Matched(a, b, t[k]) /\ t[k].size # 0
    BY <1>4 DEF BlockChain
  <2>2. /\ t[k] = [a_start |-> t[k].a_start, b_start |-> t[k].b_start, size |-> t[k].size]
        /\ t[k].a_start \in Nat /\ t[k].b_start \in Nat /\ t[k].size \in Nat
        /\ i + n <= t[k].a_start /\ t[k].a_start + t[k].size <= ahi
        /\ j + n <= t[k].b_start /\ t[k].b_start + t[k].size <= bhi
    <3>1. PICK z : z = After(w, m)
      OBVIOUS
    <3>2. z.alo = i + n /\ z.ahi = ahi /\ z.blo = j + n /\ z.bhi = bhi
      BY <1>10, <1>11, <1>s, <3>1
    <3>3. BlockIn(z, t[k])
      BY <2>1, <3>1
    <3> QED BY <3>2, <3>3 DEF BlockIn
  <2>3. alo <= t[k].a_start /\ blo <= t[k].b_start
    <3>1. PICK x1 \in Nat, y1 \in Nat : x1 = t[k].a_start /\ y1 = t[k].b_start
      BY <2>2
    <3>2. i + n <= x1 /\ j + n <= y1
      BY <2>2, <3>1
    <3>3. alo <= x1 /\ blo <= y1
      BY <1>12, <3>2
    <3> QED BY <3>1, <3>3
  <2>4. BlockIn(w, t[k])
    BY <1>10, <2>2, <2>3 DEF BlockIn
  <2>5. Follows(m, t[k])
    BY <1>11, <2>2 DEF Follows
  <2> QED BY <2>1, <2>4, <2>5
<1>15. \A k \in 1 .. Len(v) : BlockIn(w, v[k]) /\ Matched(a, b, v[k]) /\ v[k].size # 0
  <2> TAKE k \in 1 .. Len(v)
  <2> QED BY <1>9, <1>13, <1>14
<1>16. ASSUME NEW p, NEW q, BlockIn(w, p), BlockIn(w, q), Follows(p, m), Follows(m, q)
       PROVE  Follows(p, q)
  <2>1. /\ p.a_start \in Nat /\ p.b_start \in Nat /\ p.size \in Nat
        /\ q.a_start \in Nat /\ q.b_start \in Nat
        /\ p.a_start + p.size <= i /\ i + n <= q.a_start
        /\ p.b_start + p.size <= j /\ j + n <= q.b_start
    BY <1>11, <1>16 DEF BlockIn, Follows
  <2> QED BY <1>12, <2>1, SMTT(30) DEF Follows
<1>17. ASSUME NEW k \in 1 .. Len(v), NEW l \in 1 .. Len(v), k < l
       PROVE  Follows(v[k], v[l])
  <2>1. CASE k \in 1 .. x /\ v[k] = s[k]
    <3>1. CASE l \in 1 .. x /\ v[l] = s[l]
      BY <1>4, <1>17, <2>1, <3>1 DEF BlockChain
    <3>2. CASE l = x + 1 /\ v[l] = m
      BY <1>13, <2>1, <3>2
    <3>3. CASE l - (x + 1) \in 1 .. y /\ v[l] = t[l - (x + 1)]
      BY <1>13, <1>14, <1>16, <2>1, <3>3
    <3> QED BY <1>9, <3>1, <3>2, <3>3
  <2>2. CASE k = x + 1 /\ v[k] = m
    <3>1. ~ (l \in 1 .. x) /\ l # x + 1
      BY <1>17, <2>2
    <3>2. l - (x + 1) \in 1 .. y /\ v[l] = t[l - (x + 1)]
      BY <1>9, <3>1
    <3> QED BY <1>14, <2>2, <3>2
  <2>3. CASE k - (x + 1) \in 1 .. y /\ v[k] = t[k - (x + 1)]
    <3>0. k \in Int /\ l \in Int
      OBVIOUS
    <3>1. ~ (l \in 1 .. x) /\ l # x + 1
      BY <1>17, <2>3, <3>0
    <3>2. l - (x + 1) \in 1 .. y /\ v[l] = t[l - (x + 1)]
      BY <1>9, <3>1
    <3>3. k - (x + 1) < l - (x + 1)
      BY <1>17, <3>0
    <3>4. \A g, h \in 1 .. y : g < h => Follows(t[g], t[h])
      BY <1>4 DEF BlockChain
    <3>5. Follows(t[k - (x + 1)], t[l - (x + 1)])
      BY <2>3, <3>2, <3>3, <3>4
    <3> QED BY <2>3, <3>2, <3>5
  <2> QED BY <1>9, <2>1, <2>2, <2>3
<1>18. BlockChain(a, b, w, v)
  BY <1>8, <1>15, <1>17 DEF BlockChain
<1> QED BY <1>1, <1>5, <1>7, <1>18

(* What get_matching_blocks returns is such a list.                        *)
LEMMA MatchingBlocks ==
  ASSUME NEW E, NEW a \in Seq(E), NEW b \in Seq(E), NEW popular
  PROVE  /\ Whole(a, b) \in Windows(a, b)
         /\ BlockChain(a, b, Whole(a, b), get_matching_blocks(a, b, popular))
<1> DEFINE R(f) == f = [w \in Windows(a, b) |->
        LET m == find_longest_match(a, b, popular, w)
        IN  IF m.size = 0 THEN << >>
            ELSE f[Before(w, m)] \o <<m>> \o f[After(w, m)]]
<1>1. Len(a) \in Nat /\ Len(b) \in Nat
  BY LenProperties
<1>2. Narrow(a, b, Len(a)) = Windows(a, b)
  <2>1. ASSUME NEW w \in Windows(a, b) PROVE w.ahi - w.alo <= Len(a)
    <3>1. w.alo \in Nat /\ w.ahi \in Nat /\ 1 <= w.alo /\ w.ahi <= Len(a) + 1
      BY WindowType
    <3> QED BY <1>1, <3>1
  <2> QED BY <2>1 DEF Narrow
<1>3. \E f : R(f)
  <2>1. PICK f : SplitsUpTo(a, b, popular, Len(a), f)
    BY <1>1, SplitsExist
  <2>2. R(f)
    BY <1>2, <2>1 DEF SplitsUpTo, Split2
  <2> QED BY <2>2
<1>4. PICK blocks : R(blocks) /\ get_matching_blocks(a, b, popular) = blocks[Whole(a, b)]
  <2>1. get_matching_blocks(a, b, popular) = (CHOOSE f : R(f))[Whole(a, b)]
    BY DEF get_matching_blocks
  <2> HIDE DEF R
  <2> QED BY <1>3, <2>1
<1>5. Whole(a, b) \in Windows(a, b)
  <2>1. PICK x \in Nat, y \in Nat : x = Len(a) + 1 /\ y = Len(b) + 1
    BY <1>1
  <2>2. 1 <= x /\ 1 <= y /\ x <= Len(a) + 1 /\ y <= Len(b) + 1
    BY <1>1, <2>1
  <2>3. Window(1, x, 1, y) \in Windows(a, b)
    BY <2>2, WindowIn
  <2> QED BY <2>1, <2>3 DEF Whole
<1> DEFINE T == { n \in Nat : \E w \in Windows(a, b) :
                    w.ahi - w.alo = n /\ ~ BlockChain(a, b, w, blocks[w]) }
<1>6. T = {}
  <2> SUFFICES ASSUME T # {} PROVE FALSE
    OBVIOUS
  <2>1. PICK n \in T : \A k \in T : n <= k
    <3>1. T \subseteq Nat
      OBVIOUS
    <3> HIDE DEF T
    <3> QED BY <3>1, LeastNat
  <2>2. PICK w \in Windows(a, b) : w.ahi - w.alo = n /\ ~ BlockChain(a, b, w, blocks[w])
    OBVIOUS
  <2>3. PICK m : m = find_longest_match(a, b, popular, w)
    OBVIOUS
  <2>4. BlockIn(w, m) /\ Matched(a, b, m)
    BY <2>3, LongestMatchInWindow
  <2>5. blocks[w] = IF m.size = 0 THEN << >> ELSE blocks[Before(w, m)] \o <<m>> \o blocks[After(w, m)]
    BY <1>4, <2>3
  <2>6. CASE m.size = 0
    <3>1. blocks[w] = << >> /\ << >> \in Seq(Block) /\ Len(<< >>) = 0
      BY <2>5, <2>6
    <3> QED BY <2>2, <3>1 DEF BlockChain
  <2>7. CASE m.size # 0
    <3>1. ASSUME NEW v \in Windows(a, b), v.ahi - v.alo < w.ahi - w.alo
          PROVE  BlockChain(a, b, v, blocks[v])
      <4>1. v.ahi \in Nat /\ v.alo \in Nat /\ v.alo <= v.ahi
        BY WindowType
      <4>2. v.ahi - v.alo \in Nat
        BY <4>1
      <4>3. ~ (n <= v.ahi - v.alo)
        BY <2>2, <3>1, <4>2
      <4>4. v.ahi - v.alo \notin T
        <5> HIDE DEF T
        <5> QED BY <2>1, <4>3
      <4> QED BY <4>2, <4>4
    <3> HIDE DEF T
    <3>2. /\ Before(w, m) \in Windows(a, b) /\ After(w, m) \in Windows(a, b)
          /\ Before(w, m).ahi - Before(w, m).alo < w.ahi - w.alo
          /\ After(w, m).ahi - After(w, m).alo < w.ahi - w.alo
      BY <2>4, <2>7, SidesOfMatch
    <3>3. PICK s : s = blocks[Before(w, m)]
      OBVIOUS
    <3>4. PICK t : t = blocks[After(w, m)]
      OBVIOUS
    <3>5. BlockChain(a, b, Before(w, m), s) /\ BlockChain(a, b, After(w, m), t)
      BY <3>1, <3>2, <3>3, <3>4
    <3>6. BlockChain(a, b, w, s \o <<m>> \o t)
      BY <2>4, <2>7, <3>5, ChainAround
    <3> QED BY <2>2, <2>5, <2>7, <3>3, <3>4, <3>6
  <2> QED BY <2>6, <2>7
<1>7. BlockChain(a, b, Whole(a, b), blocks[Whole(a, b)])
  <2>1. PICK w \in Windows(a, b) : w = Whole(a, b)
    BY <1>5
  <2>2. w.ahi - w.alo \in Nat
    <3>1. w.ahi \in Nat /\ w.alo \in Nat /\ w.alo <= w.ahi
      BY WindowType
    <3> QED BY <3>1
  <2> HIDE DEF R
  <2>3. w.ahi - w.alo \notin T
    BY <1>6
  <2>4. BlockChain(a, b, w, blocks[w])
    BY <2>2, <2>3
  <2> QED BY <2>1, <2>4
<1> QED BY <1>4, <1>5, <1>7
-----------------------------------------------------------------------------
(* The transcript, read without its inserts and without its deletes.       *)
Entry == [kind : {"Keep", "Delete", "Insert"}, value : Token]
KD == {"Keep", "Delete"}
KI == {"Keep", "Insert"}
Marked(o, kinds) ==
  [k \in DOMAIN o |-> IF o[k].kind \in kinds THEN <<o[k].value>> ELSE << >>]
SideOf(o, kinds) == FlattenSeq(Marked(o, kinds))

(* The lists of one and of no elements that a side is flattened from.      *)
LEMMA MarkedType ==
  ASSUME NEW o \in Seq(Entry), NEW kinds
  PROVE  /\ Marked(o, kinds) \in Seq(Seq(Token)) /\ Len(Marked(o, kinds)) = Len(o)
         /\ \A k \in 1 .. Len(o) :
              Marked(o, kinds)[k] = IF o[k].kind \in kinds THEN <<o[k].value>> ELSE << >>
<1>1. DOMAIN o = 1 .. Len(o) /\ Len(o) \in Nat /\ \A k \in 1 .. Len(o) : o[k] \in Entry
  BY LenProperties
<1>2. PICK m : m = Marked(o, kinds)
  OBVIOUS
<1>3. m \in [1 .. Len(o) -> Seq(Token)]
  <2>1. ASSUME NEW k \in 1 .. Len(o)
        PROVE  (IF o[k].kind \in kinds THEN <<o[k].value>> ELSE << >>) \in Seq(Token)
    <3>1. o[k].value \in Token
      BY <1>1 DEF Entry
    <3>2. <<o[k].value>> \in Seq(Token) /\ << >> \in Seq(Token)
      BY <3>1
    <3> QED BY <3>2
  <2> QED BY <1>1, <1>2, <2>1 DEF Marked
<1>4. m \in Seq(Seq(Token))
  BY <1>1, <1>3, SeqDef
<1>5. Len(m) = Len(o)
  BY <1>1, <1>3, <1>4, LenProperties
<1>6. \A k \in 1 .. Len(o) : m[k] = IF o[k].kind \in kinds THEN <<o[k].value>> ELSE << >>
  BY <1>1, <1>2 DEF Marked
<1> QED BY <1>2, <1>4, <1>5, <1>6

(* The side of two transcripts is the one after the other.                 *)
LEMMA SideConcat ==
  ASSUME NEW o \in Seq(Entry), NEW p \in Seq(Entry), NEW kinds
  PROVE  /\ SideOf(o \o p, kinds) = SideOf(o, kinds) \o SideOf(p, kinds)
         /\ SideOf(o, kinds) \in Seq(Token)
<1>0. PICK u : u = o \o p
  OBVIOUS
<1>1. /\ u \in Seq(Entry) /\ Len(u) = Len(o) + Len(p)
      /\ \A k \in 1 .. Len(o) + Len(p) : u[k] = IF k <= Len(o) THEN o[k] ELSE p[k - Len(o)]
  BY <1>0, ConcatProperties
<1>n. Len(o) \in Nat /\ Len(p) \in Nat
  BY LenProperties
<1>2. PICK x : x = Marked(o, kinds)
  OBVIOUS
<1>3. PICK y : y = Marked(p, kinds)
  OBVIOUS
<1>4. PICK z : z = Marked(u, kinds)
  OBVIOUS
<1>5. x \in Seq(Seq(Token)) /\ y \in Seq(Seq(Token)) /\ z \in Seq(Seq(Token))
      /\ Len(x) = Len(o) /\ Len(y) = Len(p) /\ Len(z) = Len(o) + Len(p)
  BY <1>1, <1>2, <1>3, <1>4, MarkedType
<1>x. \A k \in 1 .. Len(o) : x[k] = IF o[k].kind \in kinds THEN <<o[k].value>> ELSE << >>
  BY <1>2, MarkedType
<1>y. \A k \in 1 .. Len(p) : y[k] = IF p[k].kind \in kinds THEN <<p[k].value>> ELSE << >>
  BY <1>3, MarkedType
<1>z. \A k \in 1 .. Len(o) + Len(p) : z[k] = IF u[k].kind \in kinds THEN <<u[k].value>> ELSE << >>
  BY <1>1, <1>4, MarkedType
<1>6. /\ x \o y \in Seq(Seq(Token)) /\ Len(x \o y) = Len(o) + Len(p)
      /\ \A k \in 1 .. Len(o) + Len(p) : (x \o y)[k] = IF k <= Len(o) THEN x[k] ELSE y[k - Len(o)]
  <2>1. /\ x \o y \in Seq(Seq(Token)) /\ Len(x \o y) = Len(x) + Len(y)
        /\ \A k \in 1 .. Len(x) + Len(y) :
             (x \o y)[k] = IF k <= Len(x) THEN x[k] ELSE y[k - Len(x)]
    <3>1. PICK T : T = Seq(Token)
      OBVIOUS
    <3>2. x \in Seq(T) /\ y \in Seq(T)
      BY <1>5, <3>1
    <3>3. /\ x \o y \in Seq(T) /\ Len(x \o y) = Len(x) + Len(y)
          /\ \A k \in 1 .. Len(x) + Len(y) :
               (x \o y)[k] = IF k <= Len(x) THEN x[k] ELSE y[k - Len(x)]
      BY <3>2, ConcatProperties
    <3> QED BY <3>1, <3>3
  <2> QED BY <1>5, <2>1
<1>7. ASSUME NEW k \in 1 .. Len(z) PROVE z[k] = (x \o y)[k]
  <2>1. k \in 1 .. Len(o) + Len(p)
    BY <1>5
  <2>2. CASE k <= Len(o)
    <3>1. k \in 1 .. Len(o)
      BY <1>n, <2>1, <2>2
    <3> QED BY <1>1, <1>6, <1>x, <1>z, <2>1, <2>2, <3>1
  <2>3. CASE ~ (k <= Len(o))
    <3>1. k - Len(o) \in 1 .. Len(p)
      BY <1>n, <2>1, <2>3
    <3> QED BY <1>1, <1>6, <1>y, <1>z, <2>1, <2>3, <3>1
  <2> QED BY <2>2, <2>3
<1>8. z = x \o y
  BY <1>5, <1>6, <1>7, SeqEqual
<1>9. FlattenSeq(x \o y) = FlattenSeq(x) \o FlattenSeq(y) /\ FlattenSeq(x) \in Seq(Token)
  BY <1>5, FlattenSplit, FlattenType
<1> QED BY <1>0, <1>2, <1>3, <1>4, <1>8, <1>9 DEF SideOf

(* Entries of one kind: all of a side, or nothing of it.                   *)
EachOf(kind, s, lo, hi) == [k \in 1 .. hi - lo |-> [kind |-> kind, value |-> s[lo + k - 1]]]

(* Such entries, by whether a side reads their kind.                       *)
LEMMA SideEach ==
  ASSUME NEW s \in Seq(Token), NEW lo \in Nat, NEW hi \in Nat,
         1 <= lo, lo <= hi, hi <= Len(s) + 1,
         NEW kind \in {"Keep", "Delete", "Insert"},
         NEW kinds
  PROVE  /\ EachOf(kind, s, lo, hi) \in Seq(Entry)
         /\ kind \in kinds => SideOf(EachOf(kind, s, lo, hi), kinds) = SubSeq(s, lo, hi - 1)
         /\ kind \notin kinds => SideOf(EachOf(kind, s, lo, hi), kinds) = << >>
<1>e. PICK e : e = EachOf(kind, s, lo, hi)
  OBVIOUS
<1>0. e = [k \in 1 .. hi - lo |-> [kind |-> kind, value |-> s[lo + k - 1]]]
  BY <1>e DEF EachOf
<1>1. Len(s) \in Nat /\ \A k \in 1 .. Len(s) : s[k] \in Token
  BY LenProperties
<1>n. PICK n \in Nat : n = hi - lo
  OBVIOUS
<1>2. \A k \in 1 .. n : lo + k - 1 \in 1 .. Len(s)
  BY <1>1, <1>n
<1>3. e \in [1 .. n -> Entry]
  <2>1. \A k \in 1 .. n : [kind |-> kind, value |-> s[lo + k - 1]] \in Entry
    BY <1>1, <1>2 DEF Entry
  <2> QED BY <1>0, <1>n, <2>1
<1>4. e \in Seq(Entry) /\ DOMAIN e = 1 .. n
  <2>1. DOMAIN e = 1 .. n
    BY <1>3
  <2>2. e \in Seq(Entry)
    BY ONLY <1>3, n \in Nat, SeqDef
  <2> QED BY <2>1, <2>2
<1>5. CASE kind \notin kinds
  <2>1. PICK m : m = Marked(e, kinds)
    OBVIOUS
  <2>2. m = [k \in 1 .. n |-> << >>]
    BY <1>0, <1>4, <1>5, <1>n, <2>1 DEF Marked
  <2>3. FlattenSeq(m) = << >>
    BY <2>2, FlattenNones
  <2> QED BY <1>e, <1>4, <1>5, <2>1, <2>3 DEF SideOf
<1>6. CASE kind \in kinds
  <2>1. PICK m : m = Marked(e, kinds)
    OBVIOUS
  <2>2. PICK x : x = SubSeq(s, lo, hi - 1)
    OBVIOUS
  <2>3. /\ x \in Seq(Token) /\ Len(x) = n
        /\ \A k \in 1 .. n : x[k] = s[lo + k - 1]
    <3>1. \A k \in lo .. hi - 1 : s[k] \in Token
      BY <1>1
    <3>2. /\ x \in Seq(Token) /\ Len(x) = IF lo <= hi - 1 THEN (hi - 1) - lo + 1 ELSE 0
          /\ \A k \in 1 .. (hi - 1) - lo + 1 : x[k] = s[lo + k - 1]
      BY <2>2, <3>1, SubSeqProperties
    <3>3. (hi - 1) - lo + 1 = n /\ (IF lo <= hi - 1 THEN (hi - 1) - lo + 1 ELSE 0) = n
      BY <1>n
    <3> QED BY <3>2, <3>3
  <2>4. DOMAIN x = 1 .. n
    BY <2>3, LenProperties
  <2>5. m = [k \in DOMAIN x |-> <<x[k]>>]
    <3>1. \A k \in 1 .. n : e[k].kind = kind /\ e[k].value = x[k]
      BY <1>0, <1>n, <2>3
    <3>2. m = [k \in 1 .. n |-> <<x[k]>>]
      BY <1>4, <1>6, <2>1, <3>1 DEF Marked
    <3> QED BY <2>4, <3>2
  <2>6. FlattenSeq(m) = x
    BY <2>3, <2>5, FlattenSingles
  <2> QED BY <1>e, <1>4, <1>6, <2>1, <2>2, <2>6 DEF SideOf
<1> QED BY <1>e, <1>5, <1>6

(* What is written for a window stands for it on both sides.               *)
StandsFor(e, w) ==
  /\ e \in Seq(Entry)
  /\ SideOf(e, KD) = SubSeq(text_prev, w.alo, w.ahi - 1)
  /\ SideOf(e, KI) = SubSeq(text_curr, w.blo, w.bhi - 1)

(* Deletes and inserts stand for any window, in either order.              *)
LEMMA ReplaceStands ==
  ASSUME Inputs, NEW w \in Windows(text_prev, text_curr)
  PROVE  StandsFor(Deletes(w) \o Inserts(w), w) /\ StandsFor(Inserts(w) \o Deletes(w), w)
<1>1. text_prev \in Seq(Token) /\ text_curr \in Seq(Token)
  BY TextType DEF Inputs
<1>2. /\ w.alo \in Nat /\ w.ahi \in Nat /\ w.blo \in Nat /\ w.bhi \in Nat
      /\ 1 <= w.alo /\ w.alo <= w.ahi /\ w.ahi <= Len(text_prev) + 1
      /\ 1 <= w.blo /\ w.blo <= w.bhi /\ w.bhi <= Len(text_curr) + 1
  BY <1>1, WindowType
<1>3. PICK d : d = Deletes(w)
  OBVIOUS
<1>4. PICK i : i = Inserts(w)
  OBVIOUS
<1>5. d = [k \in 1 .. w.ahi - w.alo |-> [kind |-> "Delete", value |-> text_prev[w.alo + k - 1]]]
  BY <1>3 DEF Deletes, Each, Delete
<1>6. i = [k \in 1 .. w.bhi - w.blo |-> [kind |-> "Insert", value |-> text_curr[w.blo + k - 1]]]
  BY <1>4 DEF Inserts, Each, Insert
<1>7. /\ d \in Seq(Entry) /\ SideOf(d, KD) = SubSeq(text_prev, w.alo, w.ahi - 1)
      /\ SideOf(d, KI) = << >>
  <2>1. "Delete" \in KD /\ "Delete" \notin KI
    BY DEF KD, KI
  <2>2. PICK kind \in {"Keep", "Delete", "Insert"} : kind = "Delete"
    OBVIOUS
  <2>3. d = [k \in 1 .. w.ahi - w.alo |-> [kind |-> kind, value |-> text_prev[w.alo + k - 1]]]
    BY <1>5, <2>2
  <2>4. \A kinds : /\ d \in Seq(Entry)
                   /\ kind \in kinds => SideOf(d, kinds) = SubSeq(text_prev, w.alo, w.ahi - 1)
                   /\ kind \notin kinds => SideOf(d, kinds) = << >>
    <3>1. PICK lo \in Nat, hi \in Nat, s \in Seq(Token) : lo = w.alo /\ hi = w.ahi /\ s = text_prev
      BY <1>1, <1>2
    <3>2. 1 <= lo /\ lo <= hi /\ hi <= Len(s) + 1
      BY <1>2, <3>1
    <3>3. d = EachOf(kind, s, lo, hi)
      BY <2>3, <3>1 DEF EachOf
    <3>4. \A kinds : /\ d \in Seq(Entry)
                     /\ kind \in kinds => SideOf(d, kinds) = SubSeq(s, lo, hi - 1)
                     /\ kind \notin kinds => SideOf(d, kinds) = << >>
      <4> TAKE kinds
      <4>1. d \in Seq(Entry)
        BY <3>2, <3>3, SideEach
      <4>2. kind \in kinds => SideOf(d, kinds) = SubSeq(s, lo, hi - 1)
        BY <3>2, <3>3, SideEach
      <4>3. kind \notin kinds => SideOf(d, kinds) = << >>
        BY <3>2, <3>3, SideEach
      <4> QED BY <4>1, <4>2, <4>3
    <3> QED BY <3>1, <3>4
  <2> QED BY <2>1, <2>2, <2>4
<1>8. /\ i \in Seq(Entry) /\ SideOf(i, KI) = SubSeq(text_curr, w.blo, w.bhi - 1)
      /\ SideOf(i, KD) = << >>
  <2>1. "Insert" \in KI /\ "Insert" \notin KD
    BY DEF KD, KI
  <2>2. PICK kind \in {"Keep", "Delete", "Insert"} : kind = "Insert"
    OBVIOUS
  <2>3. i = [k \in 1 .. w.bhi - w.blo |-> [kind |-> kind, value |-> text_curr[w.blo + k - 1]]]
    BY <1>6, <2>2
  <2>4. \A kinds : /\ i \in Seq(Entry)
                   /\ kind \in kinds => SideOf(i, kinds) = SubSeq(text_curr, w.blo, w.bhi - 1)
                   /\ kind \notin kinds => SideOf(i, kinds) = << >>
    <3>1. PICK lo \in Nat, hi \in Nat, s \in Seq(Token) : lo = w.blo /\ hi = w.bhi /\ s = text_curr
      BY <1>1, <1>2
    <3>2. 1 <= lo /\ lo <= hi /\ hi <= Len(s) + 1
      BY <1>2, <3>1
    <3>3. i = EachOf(kind, s, lo, hi)
      BY <2>3, <3>1 DEF EachOf
    <3>4. \A kinds : /\ i \in Seq(Entry)
                     /\ kind \in kinds => SideOf(i, kinds) = SubSeq(s, lo, hi - 1)
                     /\ kind \notin kinds => SideOf(i, kinds) = << >>
      <4> TAKE kinds
      <4>1. i \in Seq(Entry)
        BY <3>2, <3>3, SideEach
      <4>2. kind \in kinds => SideOf(i, kinds) = SubSeq(s, lo, hi - 1)
        BY <3>2, <3>3, SideEach
      <4>3. kind \notin kinds => SideOf(i, kinds) = << >>
        BY <3>2, <3>3, SideEach
      <4> QED BY <4>1, <4>2, <4>3
    <3> QED BY <3>1, <3>4
  <2> QED BY <2>1, <2>2, <2>4
<1>9. \A kinds : /\ SideOf(d \o i, kinds) = SideOf(d, kinds) \o SideOf(i, kinds)
                 /\ SideOf(i \o d, kinds) = SideOf(i, kinds) \o SideOf(d, kinds)
                 /\ SideOf(d, kinds) \in Seq(Token) /\ SideOf(i, kinds) \in Seq(Token)
  BY <1>7, <1>8, SideConcat
<1>10. d \o i \in Seq(Entry) /\ i \o d \in Seq(Entry)
  BY <1>7, <1>8, ConcatProperties
<1>11. \A x \in Seq(Token) : x \o << >> = x /\ << >> \o x = x
  BY ConcatEmptySeq
<1>12. SideOf(d \o i, KD) = SubSeq(text_prev, w.alo, w.ahi - 1)
  BY <1>7, <1>8, <1>9, <1>11, ZenonT(40)
<1>13. SideOf(d \o i, KI) = SubSeq(text_curr, w.blo, w.bhi - 1)
  BY <1>7, <1>8, <1>9, <1>11, ZenonT(40)
<1>14. SideOf(i \o d, KD) = SubSeq(text_prev, w.alo, w.ahi - 1)
  BY <1>7, <1>8, <1>9, <1>11, ZenonT(40)
<1>15. SideOf(i \o d, KI) = SubSeq(text_curr, w.blo, w.bhi - 1)
  BY <1>7, <1>8, <1>9, <1>11, ZenonT(40)
<1> QED BY <1>3, <1>4, <1>10, <1>12, <1>13, <1>14, <1>15 DEF StandsFor

(* A window whose two sides are the same tokens.                           *)
SameSides(a, b, w) ==
  /\ w.ahi - w.alo = w.bhi - w.blo
  /\ \A k \in 0 .. w.ahi - w.alo - 1 : a[w.alo + k] = b[w.blo + k]

(* Keeps stand for it.                                                     *)
LEMMA KeepStands ==
  ASSUME Inputs, NEW w \in Windows(text_prev, text_curr), SameSides(text_prev, text_curr, w)
  PROVE  StandsFor(Each(Keep, text_prev, w.alo, w.ahi), w)
<1>1. text_prev \in Seq(Token) /\ text_curr \in Seq(Token)
  BY TextType DEF Inputs
<1>2. /\ w.alo \in Nat /\ w.ahi \in Nat /\ w.blo \in Nat /\ w.bhi \in Nat
      /\ 1 <= w.alo /\ w.alo <= w.ahi /\ w.ahi <= Len(text_prev) + 1
      /\ 1 <= w.blo /\ w.blo <= w.bhi /\ w.bhi <= Len(text_curr) + 1
  BY <1>1, WindowType
<1>3. PICK e : e = Each(Keep, text_prev, w.alo, w.ahi)
  OBVIOUS
<1>4. e = [k \in 1 .. w.ahi - w.alo |-> [kind |-> "Keep", value |-> text_prev[w.alo + k - 1]]]
  BY <1>3 DEF Each, Keep
<1>5. e = [k \in 1 .. w.bhi - w.blo |-> [kind |-> "Keep", value |-> text_curr[w.blo + k - 1]]]
  <2>1. w.ahi - w.alo = w.bhi - w.blo
    BY DEF SameSides
  <2>2. ASSUME NEW k \in 1 .. w.ahi - w.alo PROVE text_prev[w.alo + k - 1] = text_curr[w.blo + k - 1]
    <3>1. k - 1 \in 0 .. w.ahi - w.alo - 1
      BY <1>2
    <3>2. w.alo + (k - 1) = w.alo + k - 1 /\ w.blo + (k - 1) = w.blo + k - 1
      BY <1>2
    <3>3. text_prev[w.alo + (k - 1)] = text_curr[w.blo + (k - 1)]
      BY <3>1 DEF SameSides
    <3> QED BY <3>2, <3>3
  <2> QED BY <1>4, <2>1, <2>2
<1>6. PICK kind \in {"Keep", "Delete", "Insert"} : kind = "Keep"
  OBVIOUS
<1>7. kind \in KD /\ kind \in KI
  BY <1>6 DEF KD, KI
<1>8. e \in Seq(Entry) /\ SideOf(e, KD) = SubSeq(text_prev, w.alo, w.ahi - 1)
  <2>1. e = [k \in 1 .. w.ahi - w.alo |-> [kind |-> kind, value |-> text_prev[w.alo + k - 1]]]
    BY <1>4, <1>6
  <2>2. PICK lo \in Nat, hi \in Nat, s \in Seq(Token) : lo = w.alo /\ hi = w.ahi /\ s = text_prev
    BY <1>1, <1>2
  <2>3. 1 <= lo /\ lo <= hi /\ hi <= Len(s) + 1
    BY <1>2, <2>2
  <2>4. e = EachOf(kind, s, lo, hi)
    BY <2>1, <2>2 DEF EachOf
  <2>5. \A kinds : /\ e \in Seq(Entry)
                   /\ kind \in kinds => SideOf(e, kinds) = SubSeq(s, lo, hi - 1)
    BY <2>3, <2>4, SideEach
  <2> QED BY <1>7, <2>2, <2>5
<1>9. SideOf(e, KI) = SubSeq(text_curr, w.blo, w.bhi - 1)
  <2>1. e = [k \in 1 .. w.bhi - w.blo |-> [kind |-> kind, value |-> text_curr[w.blo + k - 1]]]
    BY <1>5, <1>6
  <2>2. PICK lo \in Nat, hi \in Nat, s \in Seq(Token) : lo = w.blo /\ hi = w.bhi /\ s = text_curr
    BY <1>1, <1>2
  <2>3. 1 <= lo /\ lo <= hi /\ hi <= Len(s) + 1
    BY <1>2, <2>2
  <2>4. e = EachOf(kind, s, lo, hi)
    BY <2>1, <2>2 DEF EachOf
  <2>5. \A kinds : /\ e \in Seq(Entry)
                   /\ kind \in kinds => SideOf(e, kinds) = SubSeq(s, lo, hi - 1)
    BY <2>3, <2>4, SideEach
  <2> QED BY <1>7, <2>2, <2>5
<1> QED BY <1>3, <1>8, <1>9 DEF StandsFor
-----------------------------------------------------------------------------
(* What is still to be written: windows one after the other, from a pair   *)
(* of positions to the ends of both lists.                                 *)
Items(a, b) ==
  { t \in [kind : {"equal", "change", "gap"}, at : Windows(a, b)] :
      t.kind = "equal" => SameSides(a, b, t.at) }

Starts(s, i, j) == s[1].at.alo = i /\ s[1].at.blo = j
Covers(a, b, s, i, j) ==
  /\ s \in Seq(Items(a, b))
  /\ s = << >> => i = Len(a) + 1 /\ j = Len(b) + 1
  /\ s # << >> => /\ Starts(s, i, j)
                  /\ s[Len(s)].at.ahi = Len(a) + 1 /\ s[Len(s)].at.bhi = Len(b) + 1
  /\ \A k \in 1 .. Len(s) - 1 : s[k].at.ahi = s[k + 1].at.alo /\ s[k].at.bhi = s[k + 1].at.blo

(* Without the first window, and with one before it.                       *)
LEMMA CoversTail ==
  ASSUME NEW a, NEW b, NEW s, s # << >>, NEW i, NEW j, Covers(a, b, s, i, j)
  PROVE  /\ s[1] \in Items(a, b) /\ Head(s) = s[1] /\ s[1].at.alo = i /\ s[1].at.blo = j
         /\ Covers(a, b, Tail(s), s[1].at.ahi, s[1].at.bhi)
<1>1. s \in Seq(Items(a, b))
  BY DEF Covers
<1>2. Len(s) \in Nat \ {0} /\ s[1] \in Items(a, b) /\ Head(s) = s[1]
  BY <1>1, NonEmptySeq, HeadTailProperties
<1>3. PICK t : t = Tail(s)
  OBVIOUS
<1>4. PICK n \in Nat : n = Len(s) - 1
  BY <1>2
<1>5. /\ t \in Seq(Items(a, b)) /\ Len(t) = n
      /\ \A k \in 1 .. n : t[k] = s[k + 1]
  BY <1>1, <1>3, <1>4, HeadTailProperties
<1>6. s[Len(s)].at.ahi = Len(a) + 1 /\ s[Len(s)].at.bhi = Len(b) + 1 /\ Starts(s, i, j)
      /\ \A k \in 1 .. n : s[k].at.ahi = s[k + 1].at.alo /\ s[k].at.bhi = s[k + 1].at.blo
  BY <1>4 DEF Covers
<1>7. CASE t = << >>
  <2>0. Len(t) = 0
    BY <1>5, <1>7, EmptySeq
  <2>n. n = 0
    BY <1>5, <2>0
  <2>l. Len(s) \in Nat
    BY <1>2
  <2>1. Len(s) = 1 /\ n = 0
    BY ONLY <1>4, <2>n, <2>l
  <2>2. s[1].at.ahi = Len(a) + 1 /\ s[1].at.bhi = Len(b) + 1
    BY <1>6, <2>1
  <2>3. Covers(a, b, t, s[1].at.ahi, s[1].at.bhi)
    BY <1>5, <1>7, <2>1, <2>2 DEF Covers
  <2> QED BY <1>2, <1>3, <1>6, <2>3 DEF Starts
<1>8. CASE t # << >>
  <2>1. n # 0 /\ 1 \in 1 .. n /\ n \in 1 .. n /\ Len(s) = n + 1
    BY <1>2, <1>4, <1>5, <1>8, EmptySeq
  <2>2. Starts(t, s[1].at.ahi, s[1].at.bhi)
    <3>1. t[1] = s[1 + 1] /\ s[1].at.ahi = s[1 + 1].at.alo /\ s[1].at.bhi = s[1 + 1].at.blo
      BY <1>5, <1>6, <2>1
    <3> QED BY <3>1 DEF Starts
  <2>3. t[Len(t)].at.ahi = Len(a) + 1 /\ t[Len(t)].at.bhi = Len(b) + 1
    BY <1>5, <1>6, <2>1
  <2>4. ASSUME NEW k \in 1 .. Len(t) - 1
        PROVE  t[k].at.ahi = t[k + 1].at.alo /\ t[k].at.bhi = t[k + 1].at.blo
    <3>1. k \in 1 .. n /\ k + 1 \in 1 .. n
      BY <1>5
    <3> QED BY <1>5, <1>6, <3>1
  <2>5. Covers(a, b, t, s[1].at.ahi, s[1].at.bhi)
    BY <1>5, <1>8, <2>2, <2>3, <2>4 DEF Covers
  <2> QED BY <1>2, <1>3, <1>6, <2>5 DEF Starts
<1> QED BY <1>7, <1>8

(* With a window more in front.                                            *)
LEMMA CoversCons ==
  ASSUME NEW a, NEW b, NEW s, NEW t \in Items(a, b), Covers(a, b, s, t.at.ahi, t.at.bhi)
  PROVE  Covers(a, b, <<t>> \o s, t.at.alo, t.at.blo)
<1>1. PICK I : I = Items(a, b)
  OBVIOUS
<1>2. s \in Seq(I)
  BY <1>1 DEF Covers
<1>3. PICK c : c = <<t>>
  OBVIOUS
<1>4. c \in Seq(I) /\ Len(c) = 1 /\ c[1] = t
  BY <1>1, <1>3
<1>5. PICK n \in Nat : n = Len(s)
  BY <1>2, LenProperties
<1>6. PICK u : u = c \o s
  OBVIOUS
<1>7. /\ u \in Seq(I) /\ Len(u) = 1 + n
      /\ \A k \in 1 .. 1 + n : u[k] = IF k <= 1 THEN c[k] ELSE s[k - 1]
  <2>1. /\ c \o s \in Seq(I) /\ Len(c \o s) = Len(c) + Len(s)
        /\ \A k \in 1 .. Len(c) + Len(s) :
             (c \o s)[k] = IF k <= Len(c) THEN c[k] ELSE s[k - Len(c)]
    BY <1>2, <1>4, ConcatProperties
  <2> QED BY <1>4, <1>5, <1>6, <2>1
<1>8. u[1] = t /\ \A k \in 1 .. n : u[k + 1] = s[k]
  <2>1. u[1] = t
    BY <1>4, <1>7
  <2>2. \A k \in 1 .. n : k + 1 \in 1 .. 1 + n /\ ~ (k + 1 <= 1) /\ (k + 1) - 1 = k
    OBVIOUS
  <2> QED BY <1>7, <2>1, <2>2
<1>9. Starts(u, t.at.alo, t.at.blo) /\ u # << >>
  BY <1>7, <1>8, EmptySeq DEF Starts
<1>10. CASE s = << >>
  <2>1. n = 0 /\ t.at.ahi = Len(a) + 1 /\ t.at.bhi = Len(b) + 1
    BY <1>5, <1>10, EmptySeq DEF Covers
  <2>2. u[Len(u)].at.ahi = Len(a) + 1 /\ u[Len(u)].at.bhi = Len(b) + 1
    BY <1>7, <1>8, <2>1
  <2>3. \A k \in 1 .. Len(u) - 1 : FALSE
    BY <1>7, <2>1
  <2>4. Covers(a, b, u, t.at.alo, t.at.blo)
    BY <1>1, <1>7, <1>9, <2>2, <2>3 DEF Covers
  <2> QED BY <1>3, <1>6, <2>4
<1>11. CASE s # << >>
  <2>1. n # 0 /\ n \in 1 .. n /\ 1 \in 1 .. n
    BY <1>2, <1>5, <1>11, EmptySeq
  <2>2. /\ s[1].at.alo = t.at.ahi /\ s[1].at.blo = t.at.bhi
        /\ s[n].at.ahi = Len(a) + 1 /\ s[n].at.bhi = Len(b) + 1
        /\ \A k \in 1 .. n - 1 : s[k].at.ahi = s[k + 1].at.alo /\ s[k].at.bhi = s[k + 1].at.blo
    BY <1>5, <1>11 DEF Covers, Starts
  <2>3. u[Len(u)].at.ahi = Len(a) + 1 /\ u[Len(u)].at.bhi = Len(b) + 1
    <3>1. Len(u) = n + 1
      BY <1>7
    <3> QED BY <1>8, <2>1, <2>2, <3>1
  <2>4. ASSUME NEW k \in 1 .. Len(u) - 1
        PROVE  u[k].at.ahi = u[k + 1].at.alo /\ u[k].at.bhi = u[k + 1].at.blo
    <3>1. k \in 1 .. n
      BY <1>7
    <3>2. u[k + 1] = s[k]
      BY <1>8, <3>1
    <3>3. CASE k = 1
      BY <1>8, <2>2, <3>2, <3>3
    <3>4. CASE k # 1
      <4>1. k - 1 \in 1 .. n - 1 /\ k - 1 \in 1 .. n /\ (k - 1) + 1 = k
        BY <3>1, <3>4
      <4>2. u[k] = s[k - 1]
        BY <1>8, <4>1
      <4>3. s[k - 1].at.ahi = s[k].at.alo /\ s[k - 1].at.bhi = s[k].at.blo
        BY <2>2, <4>1
      <4> QED BY <3>2, <4>2, <4>3
    <3> QED BY <3>3, <3>4
  <2>5. Covers(a, b, u, t.at.alo, t.at.blo)
    BY <1>1, <1>7, <1>9, <2>3, <2>4 DEF Covers
  <2> QED BY <1>3, <1>6, <2>5
<1> QED BY <1>10, <1>11

(* The opcodes cover both lists from their first elements on.              *)
LEMMA OpcodesCover ==
  ASSUME NEW E, NEW a \in Seq(E), NEW b \in Seq(E),
         NEW s, BlockChain(a, b, Whole(a, b), s)
  PROVE  Covers(a, b, Opcodes(a, b, s), 1, 1)
<1>1. PICK la \in Nat, lb \in Nat : la = Len(a) + 1 /\ lb = Len(b) + 1
  <2>1. Len(a) \in Nat /\ Len(b) \in Nat
    BY LenProperties
  <2> QED BY <2>1
<1>2. PICK n \in Nat : n = Len(s)
  BY LenProperties DEF BlockChain
<1>b. ASSUME NEW k \in 1 .. n
      PROVE  /\ s[k].a_start \in Nat /\ s[k].b_start \in Nat /\ s[k].size \in Nat
             /\ 1 <= s[k].a_start /\ s[k].a_start + s[k].size <= la
             /\ 1 <= s[k].b_start /\ s[k].b_start + s[k].size <= lb
             /\ Matched(a, b, s[k])
  <2>1. BlockIn(Whole(a, b), s[k]) /\ Matched(a, b, s[k])
    BY <1>2 DEF BlockChain
  <2> QED BY <1>1, <2>1 DEF BlockIn, Whole, Window
<1> DEFINE from(k) == EndOf(s, k)
           until(k) == StartOf(a, b, s, k)
<1>3. ASSUME NEW k \in 0 .. n
      PROVE  /\ from(k)[1] \in Nat /\ from(k)[2] \in Nat
             /\ 1 <= from(k)[1] /\ from(k)[1] <= la /\ 1 <= from(k)[2] /\ from(k)[2] <= lb
  <2>1. CASE k = 0
    <3>1. from(k) = <<1, 1>>
      BY <2>1 DEF EndOf
    <3>2. 1 <= la /\ 1 <= lb
      <4>1. Len(a) \in Nat /\ Len(b) \in Nat
        BY LenProperties
      <4> QED BY <1>1, <4>1
    <3> QED BY <3>1, <3>2
  <2>2. CASE k # 0
    <3>1. from(k) = <<s[k].a_start + s[k].size, s[k].b_start + s[k].size>> /\ k \in 1 .. n
      BY <2>2 DEF EndOf
    <3>2. PICK x \in Nat, y \in Nat, z \in Nat : x = s[k].a_start /\ y = s[k].b_start /\ z = s[k].size
      BY <1>b, <3>1
    <3>3. 1 <= x /\ x + z <= la /\ 1 <= y /\ y + z <= lb
      BY <1>b, <3>1, <3>2
    <3>4. from(k)[1] = x + z /\ from(k)[2] = y + z
      BY <3>1, <3>2
    <3> HIDE DEF from
    <3> QED BY <3>3, <3>4
  <2> QED BY <2>1, <2>2
<1>4. ASSUME NEW k \in 1 .. n + 1
      PROVE  /\ until(k)[1] \in Nat /\ until(k)[2] \in Nat
             /\ 1 <= until(k)[1] /\ until(k)[1] <= la /\ 1 <= until(k)[2] /\ until(k)[2] <= lb
             /\ from(k - 1)[1] <= until(k)[1] /\ from(k - 1)[2] <= until(k)[2]
  <2>0. k - 1 \in 0 .. n
    OBVIOUS
  <2>1. CASE k = n + 1
    <3>1. k > Len(s)
      BY <1>2, <2>1
    <3>2. until(k) = <<la, lb>>
      BY <1>1, <3>1 DEF StartOf
    <3>3. 1 <= from(k - 1)[1] /\ from(k - 1)[1] <= la /\ 1 <= from(k - 1)[2] /\ from(k - 1)[2] <= lb
          /\ from(k - 1)[1] \in Nat /\ from(k - 1)[2] \in Nat
      BY <1>3, <2>0
    <3> HIDE DEF from
    <3> QED BY <3>2, <3>3
  <2>2. CASE k # n + 1
    <3>1. k \in 1 .. n /\ ~ (k > Len(s))
      BY <1>2, <2>2
    <3>2. until(k) = <<s[k].a_start, s[k].b_start>>
      BY <3>1 DEF StartOf
    <3>3. until(k)[1] = s[k].a_start /\ until(k)[2] = s[k].b_start
      BY <3>2
    <3>4. PICK x \in Nat, y \in Nat, z \in Nat : x = s[k].a_start /\ y = s[k].b_start /\ z = s[k].size
      BY <1>b, <3>1
    <3>5. 1 <= x /\ x + z <= la /\ 1 <= y /\ y + z <= lb
      BY <1>b, <3>1, <3>4
    <3>6. from(k - 1)[1] <= x /\ from(k - 1)[2] <= y
      <4>1. CASE k = 1
        <5>1. from(k - 1) = <<1, 1>>
          BY <4>1 DEF EndOf
        <5> QED BY <3>5, <5>1
      <4>2. CASE k # 1
        <5>1. k - 1 \in 1 .. n /\ k - 1 # 0 /\ k - 1 < k
          BY <3>1, <4>2
        <5>2. from(k - 1) = <<s[k - 1].a_start + s[k - 1].size, s[k - 1].b_start + s[k - 1].size>>
          BY <5>1 DEF EndOf
        <5>3. Follows(s[k - 1], s[k])
          BY <1>2, <3>1, <5>1 DEF BlockChain
        <5> QED BY <3>4, <5>2, <5>3 DEF Follows
      <4> QED BY <4>1, <4>2
    <3> HIDE DEF from, until
    <3>7. until(k)[1] \in Nat /\ until(k)[2] \in Nat
      BY <3>3, <3>4
    <3>8. 1 <= until(k)[1] /\ until(k)[1] <= la
      BY <3>3, <3>4, <3>5, SMTT(30)
    <3>9. 1 <= until(k)[2] /\ until(k)[2] <= lb
      BY <3>3, <3>4, <3>5, SMTT(30)
    <3> QED BY <3>3, <3>4, <3>6, <3>7, <3>8, <3>9
  <2> QED BY <2>1, <2>2
<1>5. PICK o : o = Opcodes(a, b, s)
  OBVIOUS
<1>6. ASSUME NEW x \in 1 .. 2 * n + 1
      PROVE  \/ \E k \in 1 .. n + 1 : x = 2 * k - 1 /\ x % 2 = 1 /\ (x + 1) \div 2 = k
             \/ \E k \in 1 .. n : x = 2 * k /\ x % 2 # 1 /\ (x + 1) \div 2 = k
  <2>1. PICK k \in Nat : k = (x + 1) \div 2
    OBVIOUS
  <2>2. (x = 2 * k - 1 /\ x % 2 = 1) \/ (x = 2 * k /\ x % 2 # 1)
    BY <2>1
  <2>3. k >= 1
    BY <2>1
  <2>4. CASE x = 2 * k - 1 /\ x % 2 = 1
    <3>1. k \in 1 .. n + 1
      BY <2>3, <2>4
    <3> QED BY <2>1, <2>4, <3>1
  <2>5. CASE x = 2 * k /\ x % 2 # 1
    <3>1. k \in 1 .. n
      BY <2>3, <2>5
    <3> QED BY <2>1, <2>5, <3>1
  <2> QED BY <2>2, <2>4, <2>5
<1>7. /\ DOMAIN o = 1 .. 2 * n + 1
      /\ \A x \in 1 .. 2 * n + 1 :
           o[x] = IF x % 2 = 1 THEN Between("gap", from((x + 1) \div 2 - 1), until((x + 1) \div 2))
                  ELSE Between("equal", until((x + 1) \div 2), from((x + 1) \div 2))
  BY <1>2, <1>5 DEF Opcodes, Segments
<1>8. ASSUME NEW k \in 1 .. n + 1
      PROVE  /\ o[2 * k - 1].kind = "gap" /\ o[2 * k - 1] \in Items(a, b)
             /\ o[2 * k - 1].at.alo = from(k - 1)[1] /\ o[2 * k - 1].at.blo = from(k - 1)[2]
             /\ o[2 * k - 1].at.ahi = until(k)[1] /\ o[2 * k - 1].at.bhi = until(k)[2]
  <2>1. 2 * k - 1 \in 1 .. 2 * n + 1 /\ (2 * k - 1) % 2 = 1 /\ ((2 * k - 1) + 1) \div 2 = k
    OBVIOUS
  <2>2. k - 1 \in 0 .. n
    OBVIOUS
  <2>3. PICK p : p = from(k - 1)
    OBVIOUS
  <2>4. PICK q : q = until(k)
    OBVIOUS
  <2>5. /\ p[1] \in Nat /\ p[2] \in Nat /\ 1 <= p[1] /\ 1 <= p[2]
        /\ q[1] \in Nat /\ q[2] \in Nat /\ q[1] <= la /\ q[2] <= lb
        /\ p[1] <= q[1] /\ p[2] <= q[2]
    <3> HIDE DEF from, until
    <3> QED BY <1>3, <1>4, <2>2, <2>3, <2>4
  <2>6. o[2 * k - 1] = Between("gap", p, q)
    <3>1. PICK x \in 1 .. 2 * n + 1 : x = 2 * k - 1
      BY <2>1
    <3> HIDE DEF from, until
    <3> QED BY <1>7, <2>1, <2>3, <2>4, <3>1
  <2>7. o[2 * k - 1] = [kind |-> "gap", at |-> Window(p[1], q[1], p[2], q[2])]
    BY <2>6 DEF Between, Item
  <2>8. Window(p[1], q[1], p[2], q[2]) \in Windows(a, b)
    BY <1>1, <2>5, WindowIn
  <2>9. o[2 * k - 1] \in Items(a, b) /\ o[2 * k - 1].kind = "gap"
    BY <2>7, <2>8 DEF Items
  <2>10. /\ o[2 * k - 1].at.alo = p[1] /\ o[2 * k - 1].at.blo = p[2]
         /\ o[2 * k - 1].at.ahi = q[1] /\ o[2 * k - 1].at.bhi = q[2]
    BY <2>7 DEF Window
  <2> QED BY <2>3, <2>4, <2>9, <2>10
<1>9. ASSUME NEW k \in 1 .. n
      PROVE  /\ o[2 * k] \in Items(a, b)
             /\ o[2 * k].at.alo = until(k)[1] /\ o[2 * k].at.blo = until(k)[2]
             /\ o[2 * k].at.ahi = from(k)[1] /\ o[2 * k].at.bhi = from(k)[2]
  <2>1. 2 * k \in 1 .. 2 * n + 1 /\ (2 * k) % 2 # 1 /\ (2 * k + 1) \div 2 = k
    OBVIOUS
  <2>2. k # 0 /\ ~ (k > Len(s))
    BY <1>2
  <2>3. PICK x \in Nat, y \in Nat, z \in Nat : x = s[k].a_start /\ y = s[k].b_start /\ z = s[k].size
    BY <1>b
  <2>4. until(k) = <<x, y>> /\ from(k) = <<x + z, y + z>>
    BY <2>2, <2>3 DEF StartOf, EndOf
  <2>5. 1 <= x /\ x + z <= la /\ 1 <= y /\ y + z <= lb
    BY <1>b, <2>3
  <2>6. o[2 * k] = Between("equal", <<x, y>>, <<x + z, y + z>>)
    <3>1. PICK h \in 1 .. 2 * n + 1 : h = 2 * k
      BY <2>1
    <3> HIDE DEF from, until
    <3> QED BY <1>7, <2>1, <2>4, <3>1
  <2>7. o[2 * k] = [kind |-> "equal", at |-> Window(x, x + z, y, y + z)]
    BY <2>6 DEF Between, Item
  <2>8. Window(x, x + z, y, y + z) \in Windows(a, b)
    <3>1. PICK u \in Nat, v \in Nat : u = x + z /\ v = y + z
      OBVIOUS
    <3>2. x <= u /\ y <= v /\ u <= Len(a) + 1 /\ v <= Len(b) + 1
      BY <1>1, <2>5, <3>1
    <3>3. Window(x, u, y, v) \in Windows(a, b)
      BY <2>5, <3>2, WindowIn
    <3> QED BY <3>1, <3>3
  <2>9. SameSides(a, b, Window(x, x + z, y, y + z))
    <3>1. \A h \in 0 .. z - 1 : a[x + h] = b[y + h]
      BY <1>b, <2>3 DEF Matched
    <3>2. (x + z) - x = z /\ (y + z) - y = z
      OBVIOUS
    <3>3. PICK v : v = Window(x, x + z, y, y + z)
      OBVIOUS
    <3>4. v.alo = x /\ v.ahi = x + z /\ v.blo = y /\ v.bhi = y + z
      BY <3>3 DEF Window
    <3>5. v.ahi - v.alo = z /\ v.bhi - v.blo = z
      BY <3>2, <3>4
    <3> QED BY <3>1, <3>3, <3>4, <3>5 DEF SameSides
  <2>10. o[2 * k] \in Items(a, b)
    BY <2>7, <2>8, <2>9 DEF Items
  <2>11. /\ o[2 * k].at.alo = x /\ o[2 * k].at.blo = y
         /\ o[2 * k].at.ahi = x + z /\ o[2 * k].at.bhi = y + z
    BY <2>7 DEF Window
  <2> QED BY <2>4, <2>10, <2>11
<1>10. \A x \in 1 .. 2 * n + 1 : o[x] \in Items(a, b)
  <2> TAKE x \in 1 .. 2 * n + 1
  <2> HIDE DEF from, until
  <2> QED BY <1>6, <1>8, <1>9
<1>11. o \in Seq(Items(a, b)) /\ Len(o) = 2 * n + 1
  <2>1. o = [x \in 1 .. 2 * n + 1 |-> o[x]]
    BY <1>5, <1>7 DEF Opcodes
  <2>2. PICK N \in Nat : N = 2 * n + 1
    OBVIOUS
  <2>3. o \in [1 .. N -> Items(a, b)]
    BY <1>10, <2>1, <2>2
  <2>4. o \in Seq(Items(a, b))
    BY ONLY <2>3, N \in Nat, SeqDef
  <2>5. Len(o) = N
    BY <2>3, <2>4, LenProperties
  <2> QED BY <2>2, <2>4, <2>5
<1>12. o # << >>
  BY <1>11, EmptySeq
<1>13. Starts(o, 1, 1)
  <2>1. 1 \in 1 .. n + 1 /\ 2 * 1 - 1 = 1 /\ 1 - 1 = 0
    OBVIOUS
  <2>2. from(0) = <<1, 1>>
    BY DEF EndOf
  <2>3. o[1].at.alo = from(0)[1] /\ o[1].at.blo = from(0)[2]
    <3> HIDE DEF from, until
    <3> QED BY <1>8, <2>1
  <2> QED BY <2>2, <2>3 DEF Starts
<1>14. o[Len(o)].at.ahi = Len(a) + 1 /\ o[Len(o)].at.bhi = Len(b) + 1
  <2>1. n + 1 \in 1 .. n + 1 /\ 2 * (n + 1) - 1 = 2 * n + 1 /\ n + 1 > Len(s)
    BY <1>2
  <2>2. until(n + 1) = <<la, lb>>
    BY <1>1, <2>1 DEF StartOf
  <2>3. o[2 * n + 1].at.ahi = until(n + 1)[1] /\ o[2 * n + 1].at.bhi = until(n + 1)[2]
    <3> HIDE DEF from, until
    <3> QED BY <1>8, <2>1
  <2> QED BY <1>1, <1>11, <2>2, <2>3
<1>15. ASSUME NEW x \in 1 .. Len(o) - 1
       PROVE  o[x].at.ahi = o[x + 1].at.alo /\ o[x].at.bhi = o[x + 1].at.blo
  <2>1. x \in 1 .. 2 * n + 1 /\ x <= 2 * n
    BY <1>11
  <2> HIDE DEF from, until
  <2>2. CASE \E k \in 1 .. n + 1 : x = 2 * k - 1
    <3>1. PICK k \in 1 .. n + 1 : x = 2 * k - 1
      BY <2>2
    <3>2. k \in 1 .. n /\ x + 1 = 2 * k
      BY <2>1, <3>1
    <3> QED BY <1>8, <1>9, <3>1, <3>2
  <2>3. CASE \E k \in 1 .. n : x = 2 * k
    <3>1. PICK k \in 1 .. n : x = 2 * k
      BY <2>3
    <3>2. k + 1 \in 1 .. n + 1 /\ x + 1 = 2 * (k + 1) - 1 /\ (k + 1) - 1 = k
      BY <3>1
    <3> QED BY <1>8, <1>9, <3>1, <3>2
  <2> QED BY <1>6, <2>1, <2>2, <2>3
<1>16. Covers(a, b, o, 1, 1)
  BY <1>11, <1>12, <1>13, <1>14, <1>15 DEF Covers
<1> QED BY <1>5, <1>16
-----------------------------------------------------------------------------
(* The transcript so far reads, on each side, as the text up to a position. *)
LEMMA SubSeqJoin ==
  ASSUME NEW S, NEW s \in Seq(S), NEW lo \in Nat, NEW hi \in Nat,
         1 <= lo, lo <= hi, hi <= Len(s) + 1
  PROVE  SubSeq(s, 1, lo - 1) \o SubSeq(s, lo, hi - 1) = SubSeq(s, 1, hi - 1)
<1>1. Len(s) \in Nat /\ \A k \in 1 .. Len(s) : s[k] \in S
  BY LenProperties
<1>2. PICK m \in Nat, n \in Nat : m = lo - 1 /\ n = hi - lo
  OBVIOUS
<1>3. PICK x : x = SubSeq(s, 1, lo - 1)
  OBVIOUS
<1>4. PICK y : y = SubSeq(s, lo, hi - 1)
  OBVIOUS
<1>5. PICK z : z = SubSeq(s, 1, hi - 1)
  OBVIOUS
<1>6. x \in Seq(S) /\ Len(x) = m /\ \A k \in 1 .. m : x[k] = s[k]
  <2>1. \A k \in 1 .. lo - 1 : s[k] \in S
    BY <1>1
  <2>2. /\ x \in Seq(S) /\ Len(x) = (IF 1 <= lo - 1 THEN (lo - 1) - 1 + 1 ELSE 0)
        /\ \A k \in 1 .. (lo - 1) - 1 + 1 : x[k] = s[1 + k - 1]
    BY <1>3, <2>1, SubSeqProperties
  <2>3. (IF 1 <= lo - 1 THEN (lo - 1) - 1 + 1 ELSE 0) = m /\ (lo - 1) - 1 + 1 = m
    BY <1>2
  <2>4. \A k \in 1 .. m : 1 + k - 1 = k
    OBVIOUS
  <2> QED BY <2>2, <2>3, <2>4
<1>7. y \in Seq(S) /\ Len(y) = n /\ \A k \in 1 .. n : y[k] = s[m + k]
  <2>1. \A k \in lo .. hi - 1 : s[k] \in S
    BY <1>1
  <2>2. /\ y \in Seq(S) /\ Len(y) = (IF lo <= hi - 1 THEN (hi - 1) - lo + 1 ELSE 0)
        /\ \A k \in 1 .. (hi - 1) - lo + 1 : y[k] = s[lo + k - 1]
    BY <1>4, <2>1, SubSeqProperties
  <2>3. (IF lo <= hi - 1 THEN (hi - 1) - lo + 1 ELSE 0) = n /\ (hi - 1) - lo + 1 = n
    BY <1>2
  <2>4. \A k \in 1 .. n : lo + k - 1 = m + k
    BY <1>2
  <2> QED BY <2>2, <2>3, <2>4
<1>8. z \in Seq(S) /\ Len(z) = m + n /\ \A k \in 1 .. m + n : z[k] = s[k]
  <2>1. \A k \in 1 .. hi - 1 : s[k] \in S
    BY <1>1
  <2>2. /\ z \in Seq(S) /\ Len(z) = (IF 1 <= hi - 1 THEN (hi - 1) - 1 + 1 ELSE 0)
        /\ \A k \in 1 .. (hi - 1) - 1 + 1 : z[k] = s[1 + k - 1]
    BY <1>5, <2>1, SubSeqProperties
  <2>3. (IF 1 <= hi - 1 THEN (hi - 1) - 1 + 1 ELSE 0) = m + n /\ (hi - 1) - 1 + 1 = m + n
    BY <1>2
  <2>4. \A k \in 1 .. m + n : 1 + k - 1 = k
    OBVIOUS
  <2> QED BY <2>2, <2>3, <2>4
<1>9. /\ x \o y \in Seq(S) /\ Len(x \o y) = m + n
      /\ \A k \in 1 .. m + n : (x \o y)[k] = IF k <= m THEN x[k] ELSE y[k - m]
  <2>1. /\ x \o y \in Seq(S) /\ Len(x \o y) = Len(x) + Len(y)
        /\ \A k \in 1 .. Len(x) + Len(y) :
             (x \o y)[k] = IF k <= Len(x) THEN x[k] ELSE y[k - Len(x)]
    BY <1>6, <1>7, ConcatProperties
  <2> QED BY <1>6, <1>7, <2>1
<1>10. ASSUME NEW k \in 1 .. Len(z) PROVE z[k] = (x \o y)[k]
  <2>1. k \in 1 .. m + n
    BY <1>8
  <2>2. CASE k <= m
    <3>1. k \in 1 .. m
      BY <2>1, <2>2
    <3> QED BY <1>6, <1>8, <1>9, <2>1, <2>2, <3>1
  <2>3. CASE ~ (k <= m)
    <3>1. k - m \in 1 .. n /\ m + (k - m) = k
      BY <2>1, <2>3
    <3> QED BY <1>7, <1>8, <1>9, <2>1, <2>3, <3>1
  <2> QED BY <2>2, <2>3
<1>11. z = x \o y
  BY <1>8, <1>9, <1>10, SeqEqual
<1> QED BY <1>3, <1>4, <1>5, <1>11

(* A transcript of the texts before i and j; entries for the next window   *)
(* take it on.                                                             *)
ReadUpTo(o, i, j) ==
  /\ o \in Seq(Entry)
  /\ i \in Nat /\ 1 <= i /\ i <= Len(text_prev) + 1
  /\ j \in Nat /\ 1 <= j /\ j <= Len(text_curr) + 1
  /\ SideOf(o, KD) = SubSeq(text_prev, 1, i - 1)
  /\ SideOf(o, KI) = SubSeq(text_curr, 1, j - 1)

(* Entries that stand for the next window take the transcript to its end.  *)
LEMMA ReadOn ==
  ASSUME Inputs, NEW w \in Windows(text_prev, text_curr), NEW o, ReadUpTo(o, w.alo, w.blo),
         NEW e, StandsFor(e, w)
  PROVE  ReadUpTo(o \o e, w.ahi, w.bhi)
<1>1. text_prev \in Seq(Token) /\ text_curr \in Seq(Token)
  BY TextType DEF Inputs
<1>2. /\ w.alo \in Nat /\ w.ahi \in Nat /\ w.blo \in Nat /\ w.bhi \in Nat
      /\ 1 <= w.alo /\ w.alo <= w.ahi /\ w.ahi <= Len(text_prev) + 1
      /\ 1 <= w.blo /\ w.blo <= w.bhi /\ w.bhi <= Len(text_curr) + 1
  BY <1>1, WindowType
<1>3. o \in Seq(Entry) /\ e \in Seq(Entry)
  BY DEF ReadUpTo, StandsFor
<1>4. o \o e \in Seq(Entry)
  BY <1>3, ConcatProperties
<1>5. SideOf(o \o e, KD) = SubSeq(text_prev, 1, w.ahi - 1)
  <2>1. SideOf(o \o e, KD) = SideOf(o, KD) \o SideOf(e, KD)
    BY <1>3, SideConcat
  <2>2. SubSeq(text_prev, 1, w.alo - 1) \o SubSeq(text_prev, w.alo, w.ahi - 1)
          = SubSeq(text_prev, 1, w.ahi - 1)
    BY <1>1, <1>2, SubSeqJoin
  <2> QED BY <2>1, <2>2 DEF ReadUpTo, StandsFor
<1>6. SideOf(o \o e, KI) = SubSeq(text_curr, 1, w.bhi - 1)
  <2>1. SideOf(o \o e, KI) = SideOf(o, KI) \o SideOf(e, KI)
    BY <1>3, SideConcat
  <2>2. SubSeq(text_curr, 1, w.blo - 1) \o SubSeq(text_curr, w.blo, w.bhi - 1)
          = SubSeq(text_curr, 1, w.bhi - 1)
    BY <1>1, <1>2, SubSeqJoin
  <2> QED BY <2>1, <2>2 DEF ReadUpTo, StandsFor
<1>7. 1 <= w.ahi /\ 1 <= w.bhi
  BY <1>2
<1> QED BY <1>2, <1>4, <1>5, <1>6, <1>7 DEF ReadUpTo

(* Three items in front of a list, one by one.                             *)
OneByOne(x, y, z, s) == <<x, y, z>> \o s = <<x>> \o (<<y>> \o (<<z>> \o s))

LEMMA ThreeInFront ==
  ASSUME NEW I, NEW x \in I, NEW y \in I, NEW z \in I, NEW s \in Seq(I)
  PROVE  OneByOne(x, y, z, s)
<1>1. PICK c : c = <<x>>
  OBVIOUS
<1>2. PICK d : d = <<y>>
  OBVIOUS
<1>3. PICK e : e = <<z>>
  OBVIOUS
<1>4. PICK f : f = <<x, y, z>>
  OBVIOUS
<1>5. /\ c \in Seq(I) /\ Len(c) = 1 /\ c[1] = x
      /\ d \in Seq(I) /\ Len(d) = 1 /\ d[1] = y
      /\ e \in Seq(I) /\ Len(e) = 1 /\ e[1] = z
      /\ f \in Seq(I) /\ Len(f) = 3 /\ f[1] = x /\ f[2] = y /\ f[3] = z
  BY <1>1, <1>2, <1>3, <1>4
<1>6. \A p, q \in Seq(I) :
        /\ p \o q \in Seq(I) /\ Len(p \o q) = Len(p) + Len(q)
        /\ \A k \in 1 .. Len(p) + Len(q) : (p \o q)[k] = IF k <= Len(p) THEN p[k] ELSE q[k - Len(p)]
  BY ConcatProperties
<1>7. f = c \o (d \o e)
  <2>1. PICK g : g = d \o e
    OBVIOUS
  <2>2. /\ g \in Seq(I) /\ Len(g) = 1 + 1
        /\ \A k \in 1 .. 1 + 1 : g[k] = IF k <= 1 THEN d[k] ELSE e[k - 1]
    <3>1. /\ d \o e \in Seq(I) /\ Len(d \o e) = Len(d) + Len(e)
          /\ \A k \in 1 .. Len(d) + Len(e) : (d \o e)[k] = IF k <= Len(d) THEN d[k] ELSE e[k - Len(d)]
      BY <1>5, <1>6
    <3> QED BY <1>5, <2>1, <3>1
  <2>3. g[1] = y /\ g[2] = z /\ Len(g) = 2
    BY <1>5, <2>2
  <2>4. PICK h : h = c \o g
    OBVIOUS
  <2>5. /\ h \in Seq(I) /\ Len(h) = 1 + 2
        /\ \A k \in 1 .. 1 + 2 : h[k] = IF k <= 1 THEN c[k] ELSE g[k - 1]
    <3>1. /\ c \o g \in Seq(I) /\ Len(c \o g) = Len(c) + Len(g)
          /\ \A k \in 1 .. Len(c) + Len(g) : (c \o g)[k] = IF k <= Len(c) THEN c[k] ELSE g[k - Len(c)]
      BY <1>5, <1>6, <2>2
    <3> QED BY <1>5, <2>3, <2>4, <3>1
  <2>6. h[1] = x /\ h[2] = y /\ h[3] = z /\ Len(h) = 3
    BY <1>5, <2>3, <2>5
  <2>7. \A k \in 1 .. Len(f) : k = 1 \/ k = 2 \/ k = 3
    BY <1>5
  <2>8. f = h
    BY <1>5, <2>5, <2>6, <2>7, SeqEqual
  <2> QED BY <2>1, <2>4, <2>8
<1>a. \A p, q, r \in Seq(I) : (p \o q) \o r = p \o (q \o r)
  BY ConcatAssociative
<1>8. (c \o (d \o e)) \o s = c \o ((d \o e) \o s)
  <2>1. c \in Seq(I) /\ d \o e \in Seq(I) /\ s \in Seq(I)
    BY <1>5, <1>6
  <2> QED BY ONLY <1>a, <2>1
<1>9. (d \o e) \o s = d \o (e \o s)
  BY ONLY <1>5, <1>a, s \in Seq(I), ZenonT(40)
<1> QED BY <1>1, <1>2, <1>3, <1>4, <1>7, <1>8, <1>9 DEF OneByOne

(* A pair to synch up on splits a window into three.                       *)
LEMMA SplitCovers ==
  ASSUME NEW E, NEW a \in Seq(E), NEW b \in Seq(E), NEW w \in Windows(a, b), w = probe.w,
         NEW p \in Cells(w), NEW kind \in {"equal", "change"},
         kind = "equal" => a[p[1]] = b[p[2]],
         NEW s, Covers(a, b, s, w.ahi, w.bhi)
  PROVE  Covers(a, b, Split(p, kind) \o s, w.alo, w.blo)
<1>1. PICK i \in Nat, j \in Nat : p = <<i, j>> /\ i = p[1] /\ j = p[2]
  BY CellType
<1>2. PICK alo \in Nat, ahi \in Nat, blo \in Nat, bhi \in Nat :
        w.alo = alo /\ w.ahi = ahi /\ w.blo = blo /\ w.bhi = bhi
  BY WindowType
<1>3. /\ 1 <= alo /\ ahi <= Len(a) + 1 /\ 1 <= blo /\ bhi <= Len(b) + 1
      /\ alo <= i /\ i < ahi /\ blo <= j /\ j < bhi /\ Len(a) \in Nat /\ Len(b) \in Nat
  BY <1>1, <1>2, CellType, WindowType, SMTT(30)
<1>4. PICK k \in Nat, l \in Nat : k = i + 1 /\ l = j + 1
  OBVIOUS
<1>5. PICK x : x = Item("gap", Window(alo, i, blo, j))
  OBVIOUS
<1>6. PICK y : y = Item(kind, Window(i, k, j, l))
  OBVIOUS
<1>7. PICK z : z = Item("gap", Window(k, ahi, l, bhi))
  OBVIOUS
<1>8. Split(p, kind) = <<x, y, z>>
  BY <1>1, <1>2, <1>4, <1>5, <1>6, <1>7 DEF Split, Gap, AfterSynch
<1>9. /\ Window(alo, i, blo, j) \in Windows(a, b)
      /\ Window(i, k, j, l) \in Windows(a, b)
      /\ Window(k, ahi, l, bhi) \in Windows(a, b)
  <2>1. i <= Len(a) + 1 /\ j <= Len(b) + 1 /\ k <= Len(a) + 1 /\ l <= Len(b) + 1
    BY <1>3, <1>4
  <2>2. 1 <= i /\ 1 <= j /\ 1 <= k /\ 1 <= l /\ i <= k /\ j <= l /\ k <= ahi /\ l <= bhi
    BY <1>3, <1>4
  <2>3. Window(alo, i, blo, j) \in Windows(a, b)
    BY <1>3, <2>1, WindowIn
  <2>4. Window(i, k, j, l) \in Windows(a, b)
    BY <2>1, <2>2, WindowIn
  <2>5. Window(k, ahi, l, bhi) \in Windows(a, b)
    BY <1>3, <2>2, WindowIn
  <2> QED BY <2>3, <2>4, <2>5
<1>10. x \in Items(a, b) /\ z \in Items(a, b)
  BY <1>5, <1>7, <1>9 DEF Items, Item
<1>11. y \in Items(a, b)
  <2>1. kind = "equal" => SameSides(a, b, Window(i, k, j, l))
    <3>1. PICK v : v = Window(i, k, j, l)
      OBVIOUS
    <3>2. v.alo = i /\ v.ahi = k /\ v.blo = j /\ v.bhi = l
      BY <3>1 DEF Window
    <3>3. v.ahi - v.alo = 1 /\ v.bhi - v.blo = 1
      BY <1>4, <3>2
    <3>4. \A h \in 0 .. v.ahi - v.alo - 1 : v.alo + h = i /\ v.blo + h = j
      BY <3>2, <3>3
    <3> QED BY <1>1, <3>1, <3>3, <3>4 DEF SameSides
  <2> QED BY <1>6, <1>9, <2>1 DEF Items, Item
<1>12. /\ x.at.alo = alo /\ x.at.blo = blo /\ x.at.ahi = i /\ x.at.bhi = j
       /\ y.at.alo = i /\ y.at.blo = j /\ y.at.ahi = k /\ y.at.bhi = l
       /\ z.at.alo = k /\ z.at.blo = l /\ z.at.ahi = ahi /\ z.at.bhi = bhi
  BY <1>5, <1>6, <1>7 DEF Item, Window
<1>13. Covers(a, b, <<z>> \o s, k, l)
  <2>1. Covers(a, b, s, z.at.ahi, z.at.bhi)
    BY <1>2, <1>12
  <2>2. Covers(a, b, <<z>> \o s, z.at.alo, z.at.blo)
    BY <1>10, <2>1, CoversCons
  <2> QED BY <1>12, <2>2
<1>14. Covers(a, b, <<y>> \o (<<z>> \o s), i, j)
  <2>1. PICK t : t = <<z>> \o s
    OBVIOUS
  <2>2. Covers(a, b, t, y.at.ahi, y.at.bhi)
    BY <1>12, <1>13, <2>1
  <2>3. Covers(a, b, <<y>> \o t, y.at.alo, y.at.blo)
    BY <1>11, <2>2, CoversCons
  <2> QED BY <1>12, <2>1, <2>3
<1>15. Covers(a, b, <<x>> \o (<<y>> \o (<<z>> \o s)), alo, blo)
  <2>1. PICK t : t = <<y>> \o (<<z>> \o s)
    OBVIOUS
  <2>2. Covers(a, b, t, x.at.ahi, x.at.bhi)
    BY <1>12, <1>14, <2>1
  <2>3. Covers(a, b, <<x>> \o t, x.at.alo, x.at.blo)
    BY <1>10, <2>2, CoversCons
  <2> QED BY <1>12, <2>1, <2>3
<1>16. <<x, y, z>> \o s = <<x>> \o (<<y>> \o (<<z>> \o s))
  <2>1. PICK I : I = Items(a, b)
    OBVIOUS
  <2>2. x \in I /\ y \in I /\ z \in I /\ s \in Seq(I)
    BY <1>10, <1>11, <2>1 DEF Covers
  <2>3. OneByOne(x, y, z, s)
    BY <2>2, ThreeInFront
  <2> QED BY <2>3 DEF OneByOne
<1> QED BY <1>2, <1>8, <1>15, <1>16
-----------------------------------------------------------------------------
(* The inductive invariant of the transcript: what is out reads as both    *)
(* texts up to a pair of positions, and the work left covers the rest.     *)
(* The scan is inside the first window, and what it found is there, too.   *)
TranscriptInv ==
  \E i, j \in Nat : ReadUpTo(out, i, j) /\ Covers(text_prev, text_curr, todo, i, j)

(* A scan as a record; the one under way is over the first window.         *)
Scan(o, w, i, j, r, p, e) ==
  [on |-> o, w |-> w, i |-> i, j |-> j, best_ratio |-> r, best |-> p, eq |-> e]

ProbeInv ==
  probe.on =>
    /\ todo # << >> /\ Head(todo).kind = "gap" /\ probe.w = Head(todo).at
    /\ probe.w \in Windows(text_prev, text_curr) /\ Replace(probe.w)
    /\ probe = Scan(probe.on, probe.w, probe.i, probe.j, probe.best_ratio, probe.best, probe.eq)
    /\ probe.i \in Nat /\ probe.w.alo <= probe.i /\ probe.i < probe.w.ahi
    /\ probe.j \in Nat /\ probe.w.blo <= probe.j /\ probe.j <= probe.w.bhi
    /\ \/ probe.best = <<0, 0>> /\ probe.best_ratio = <<74, 100>>
       \/ probe.best \in Cells(probe.w)
    /\ \/ probe.eq = <<0, 0>>
       \/ /\ probe.eq \in Cells(probe.w)
          /\ text_prev[probe.eq[1]] = text_curr[probe.eq[2]]

(* The inductive invariant of the transcript.                              *)
DifferInv == Inputs /\ TranscriptInv /\ ProbeInv

(* The record of a scan, field by field.                                   *)
LEMMA ScanFields ==
  ASSUME NEW o, NEW w, NEW i, NEW j, NEW r, NEW p, NEW e, NEW s, s = Scan(o, w, i, j, r, p, e)
  PROVE  /\ s.on = o /\ s.w = w /\ s.i = i /\ s.j = j
         /\ s.best_ratio = r /\ s.best = p /\ s.eq = e
BY DEF Scan

(* What a change of one field, or of two, makes of a scan.               *)
LEMMA ScanEq ==
  ASSUME NEW o, NEW w, NEW i, NEW j, NEW r, NEW p, NEW e, NEW s, s = Scan(o, w, i, j, r, p, e),
         NEW x
  PROVE  [s EXCEPT !.eq = x] = Scan(o, w, i, j, r, p, x)
<1>0. s = [on |-> o, w |-> w, i |-> i, j |-> j, best_ratio |-> r, best |-> p, eq |-> e]
  BY DEF Scan
<1>1. [s EXCEPT !.eq = x]
        = [on |-> o, w |-> w, i |-> i, j |-> j, best_ratio |-> r, best |-> p, eq |-> x]
  BY ONLY <1>0
<1> QED BY <1>1 DEF Scan

LEMMA ScanColumn ==
  ASSUME NEW o, NEW w, NEW i, NEW j, NEW r, NEW p, NEW e, NEW s, s = Scan(o, w, i, j, r, p, e),
         NEW x
  PROVE  [s EXCEPT !.i = x] = Scan(o, w, x, j, r, p, e)
<1>0. s = [on |-> o, w |-> w, i |-> i, j |-> j, best_ratio |-> r, best |-> p, eq |-> e]
  BY DEF Scan
<1>1. [s EXCEPT !.i = x]
        = [on |-> o, w |-> w, i |-> x, j |-> j, best_ratio |-> r, best |-> p, eq |-> e]
  BY ONLY <1>0
<1> QED BY <1>1 DEF Scan

NewBest(s, x, y) == [s EXCEPT !.best_ratio = x, !.best = y]

LEMMA ScanBest ==
  ASSUME NEW o, NEW w, NEW i, NEW j, NEW r, NEW p, NEW e, NEW s, s = Scan(o, w, i, j, r, p, e),
         NEW x, NEW y
  PROVE  NewBest(s, x, y) = Scan(o, w, i, j, x, y, e)
<1>0. s = [on |-> o, w |-> w, i |-> i, j |-> j, best_ratio |-> r, best |-> p, eq |-> e]
  BY DEF Scan
<1>1. [s EXCEPT !.best_ratio = x, !.best = y] = [[s EXCEPT !.best_ratio = x] EXCEPT !.best = y]
  BY <1>0
<1>2. PICK t : t = [s EXCEPT !.best_ratio = x]
  OBVIOUS
<1>3. t = [on |-> o, w |-> w, i |-> i, j |-> j, best_ratio |-> x, best |-> p, eq |-> e]
  BY ONLY <1>0, <1>2
<1>4. [t EXCEPT !.best = y]
        = [on |-> o, w |-> w, i |-> i, j |-> j, best_ratio |-> x, best |-> y, eq |-> e]
  BY ONLY <1>3
<1>5. [s EXCEPT !.best_ratio = x, !.best = y] = [t EXCEPT !.best = y]
  BY <1>1, <1>2
<1> QED BY <1>4, <1>5 DEF Scan, NewBest

NewRow(s, x, y) == [s EXCEPT !.i = x, !.j = y]

LEMMA ScanRow ==
  ASSUME NEW o, NEW w, NEW i, NEW j, NEW r, NEW p, NEW e, NEW s, s = Scan(o, w, i, j, r, p, e),
         NEW x, NEW y
  PROVE  NewRow(s, x, y) = Scan(o, w, x, y, r, p, e)
<1>0. s = [on |-> o, w |-> w, i |-> i, j |-> j, best_ratio |-> r, best |-> p, eq |-> e]
  BY DEF Scan
<1>1. [s EXCEPT !.i = x, !.j = y] = [[s EXCEPT !.i = x] EXCEPT !.j = y]
  BY <1>0
<1>2. PICK t : t = [s EXCEPT !.i = x]
  OBVIOUS
<1>3. t = [on |-> o, w |-> w, i |-> x, j |-> j, best_ratio |-> r, best |-> p, eq |-> e]
  BY ONLY <1>0, <1>2
<1>4. [t EXCEPT !.j = y]
        = [on |-> o, w |-> w, i |-> x, j |-> y, best_ratio |-> r, best |-> p, eq |-> e]
  BY ONLY <1>3
<1>5. [s EXCEPT !.i = x, !.j = y] = [t EXCEPT !.j = y]
  BY <1>1, <1>2
<1> QED BY <1>4, <1>5 DEF Scan, NewRow

(* The next pair of the scan.                                              *)
LEMMA ScanNext ==
  ASSUME NEW o, NEW w, NEW i, NEW j, NEW r, NEW p, NEW e, NEW s, s = Scan(o, w, i, j, r, p, e)
  PROVE  NextPair(s) = IF i + 1 < w.ahi THEN Scan(o, w, i + 1, j, r, p, e)
                       ELSE Scan(o, w, w.alo, j + 1, r, p, e)
<1>1. s.i = i /\ s.j = j /\ s.w = w
  BY ScanFields
<1>2. PICK x, y, z : x = i + 1 /\ y = j + 1 /\ z = w.alo
  OBVIOUS
<1>3. [s EXCEPT !.i = x] = Scan(o, w, x, j, r, p, e)
  BY ScanColumn
<1>4. NewRow(s, z, y) = Scan(o, w, z, y, r, p, e)
  BY ScanRow
<1>5. NextPair(s) = IF x < w.ahi THEN [s EXCEPT !.i = x] ELSE NewRow(s, z, y)
  BY <1>1, <1>2 DEF NextPair, NewRow
<1> QED BY <1>2, <1>3, <1>4, <1>5

(* The opcodes cover both texts.                                           *)
LEMMA DifferInit == Init => DifferInv
<1> SUFFICES ASSUME Init PROVE DifferInv
  OBVIOUS
<1>1. Inputs
  BY DEF Init, Inputs
<1>2. text_prev \in Seq(Token) /\ Len(text_prev) \in Nat
      /\ text_curr \in Seq(Token) /\ Len(text_curr) \in Nat
  BY <1>1, TextType DEF Inputs
<1>3. Covers(text_prev, text_curr, todo, 1, 1)
  <2>1. PICK s : s = TextBlocks[<<text_prev, text_curr>>]
    OBVIOUS
  <2>2. s = get_matching_blocks(text_prev, text_curr, Popular(text_curr))
    BY <1>1, <2>1 DEF TextBlocks, Table, Inputs
  <2>3. BlockChain(text_prev, text_curr, Whole(text_prev, text_curr), s)
    BY <1>2, <2>2, MatchingBlocks
  <2>4. todo = Opcodes(text_prev, text_curr, s)
    BY <2>1 DEF Init, get_opcodes
  <2> QED BY <1>2, <2>3, <2>4, OpcodesCover
<1>4. ReadUpTo(out, 1, 1)
  <2>1. out = << >> /\ << >> \in Seq(Entry)
    BY DEF Init
  <2>2. \A kinds : SideOf(out, kinds) = << >>
    <3> TAKE kinds
    <3>1. PICK m : m = Marked(out, kinds)
      OBVIOUS
    <3>2. m \in Seq(Seq(Token)) /\ Len(m) = 0
      BY <2>1, <3>1, MarkedType
    <3>3. m = << >>
      BY <3>2, EmptySeq
    <3> QED BY <3>1, <3>2, <3>3 DEF SideOf, FlattenSeq
  <2>3. \A s \in Seq(Token) : SubSeq(s, 1, 1 - 1) = << >>
    <3> TAKE s \in Seq(Token)
    <3>1. PICK x : x = SubSeq(s, 1, 1 - 1)
      OBVIOUS
    <3>2. \A k \in 1 .. 1 - 1 : s[k] \in Token
      OBVIOUS
    <3>3. x \in Seq(Token) /\ Len(x) = 0
      BY <3>1, <3>2, SubSeqProperties
    <3> QED BY <3>1, <3>3, EmptySeq
  <2>4. 1 <= Len(text_prev) + 1 /\ 1 <= Len(text_curr) + 1
    BY <1>2
  <2>5. SubSeq(text_prev, 1, 1 - 1) = << >> /\ SubSeq(text_curr, 1, 1 - 1) = << >>
    BY <1>2, <2>3
  <2>6. SideOf(out, KD) = << >> /\ SideOf(out, KI) = << >>
    BY <2>2
  <2>7. out \in Seq(Entry)
    BY <2>1
  <2>8. 1 \in Nat /\ 1 <= 1
    OBVIOUS
  <2> QED BY ONLY <2>4, <2>5, <2>6, <2>7, <2>8 DEF ReadUpTo
<1>5. TranscriptInv
  <2>1. 1 \in Nat
    OBVIOUS
  <2> QED BY <1>3, <1>4, <2>1 DEF TranscriptInv
<1>6. ProbeInv
  <2>1. ~ probe.on
    BY DEF Init, NoProbe
  <2> QED BY <2>1 DEF ProbeInv
<1> QED BY <1>1, <1>5, <1>6 DEF DifferInv

(* The first item, and what follows it.                                    *)
LEMMA FirstItem ==
  ASSUME Inputs, TranscriptInv, todo # << >>
  PROVE  /\ Head(todo) \in Items(text_prev, text_curr)
         /\ Head(todo).at \in Windows(text_prev, text_curr)
         /\ ReadUpTo(out, Head(todo).at.alo, Head(todo).at.blo)
         /\ Covers(text_prev, text_curr, Tail(todo), Head(todo).at.ahi, Head(todo).at.bhi)
<1>1. PICK i \in Nat, j \in Nat : ReadUpTo(out, i, j) /\ Covers(text_prev, text_curr, todo, i, j)
  BY DEF TranscriptInv
<1>2. PICK s, a, b : s = todo /\ a = text_prev /\ b = text_curr
  OBVIOUS
<1>3. s # << >> /\ Covers(a, b, s, i, j)
  BY <1>1, <1>2
<1>4. /\ s[1] \in Items(a, b) /\ Head(s) = s[1] /\ s[1].at.alo = i /\ s[1].at.blo = j
      /\ Covers(a, b, Tail(s), s[1].at.ahi, s[1].at.bhi)
  BY ONLY <1>3, CoversTail
<1>5. s[1].at \in Windows(a, b)
  BY <1>4 DEF Items
<1>6. PICK t : t = Head(s)
  OBVIOUS
<1>7. t \in Items(a, b) /\ t.at \in Windows(a, b) /\ t.at.alo = i /\ t.at.blo = j
      /\ Covers(a, b, Tail(s), t.at.ahi, t.at.bhi)
  BY <1>4, <1>5, <1>6
<1> QED BY <1>1, <1>2, <1>6, <1>7

(* The work goes on behind the first window, once its entries are out.     *)
LEMMA WrittenOut ==
  ASSUME Inputs, TranscriptInv, todo # << >>, NEW e, StandsFor(e, Head(todo).at),
         out' = out \o e, todo' = Tail(todo), UNCHANGED input
  PROVE  TranscriptInv'
<1>1. PICK w \in Windows(text_prev, text_curr) :
        /\ w = Head(todo).at /\ ReadUpTo(out, w.alo, w.blo)
        /\ Covers(text_prev, text_curr, Tail(todo), w.ahi, w.bhi)
  BY FirstItem
<1>2. PICK o, s : o = out \o e /\ s = Tail(todo)
  OBVIOUS
<1>n. PICK i \in Nat, j \in Nat : i = w.ahi /\ j = w.bhi
  <2>1. text_prev \in Seq(Token) /\ text_curr \in Seq(Token)
    BY TextType DEF Inputs
  <2>2. w.ahi \in Nat /\ w.bhi \in Nat
    BY <2>1, WindowType
  <2> QED BY <2>2
<1>3. ReadUpTo(out \o e, w.ahi, w.bhi)
  BY <1>1, ReadOn
<1>4. ReadUpTo(o, i, j) /\ Covers(text_prev, text_curr, s, i, j)
  BY <1>1, <1>2, <1>3, <1>n
<1>5. text_prev' = text_prev /\ text_curr' = text_curr /\ out' = o /\ todo' = s
  BY <1>2 DEF input
<1>6. ReadUpTo(out, i, j)'
  BY <1>4, <1>5 DEF ReadUpTo
<1>7. Covers(text_prev, text_curr, todo, i, j)'
  BY <1>4, <1>5
<1> QED BY <1>6, <1>7 DEF TranscriptInv

(* One lemma per action: what needs no scan is written for its window.     *)
LEMMA WriteKeeps == DifferInv /\ Write => DifferInv'
<1> SUFFICES ASSUME DifferInv, Write PROVE DifferInv'
  OBVIOUS
<1>1. /\ Inputs /\ TranscriptInv /\ todo # << >> /\ ~ probe.on
      /\ out' = out \o Written(Head(todo)) /\ todo' = Tail(todo)
      /\ UNCHANGED input /\ probe' = probe
  BY DEF DifferInv, Write
<1>2. PICK t : t = Head(todo)
  OBVIOUS
<1>3. t \in Items(text_prev, text_curr) /\ t.at \in Windows(text_prev, text_curr)
  BY <1>1, <1>2, FirstItem
<1>4. PICK w \in Windows(text_prev, text_curr) : w = t.at
  BY <1>3
<1>5. PICK e : e = Written(t)
  OBVIOUS
<1>6. StandsFor(e, w)
  <2>1. t.kind \in {"equal", "change", "gap"} /\ (t.kind = "equal" => SameSides(text_prev, text_curr, w))
    BY <1>3, <1>4 DEF Items
  <2>2. CASE t.kind = "equal"
    <3>1. e = Each(Keep, text_prev, w.alo, w.ahi)
      BY <1>4, <1>5, <2>2 DEF Written
    <3> QED BY <1>1, <2>1, <2>2, <3>1, KeepStands
  <2>3. CASE t.kind # "equal"
    <3>1. e = Deletes(w) \o Inserts(w)
      BY <1>4, <1>5, <2>1, <2>3 DEF Written
    <3> QED BY <1>1, <3>1, ReplaceStands
  <2> QED BY <2>2, <2>3
<1>7. TranscriptInv'
  BY <1>1, <1>2, <1>4, <1>5, <1>6, WrittenOut
<1>8. Inputs'
  BY <1>1 DEF Inputs, input
<1>9. ProbeInv'
  BY <1>1 DEF ProbeInv
<1> QED BY <1>7, <1>8, <1>9 DEF DifferInv

(* As long as texts, work and output stay, the transcript does.            *)
LEMMA TranscriptKept ==
  ASSUME Inputs, TranscriptInv, UNCHANGED <<input, todo, out>>
  PROVE  Inputs' /\ TranscriptInv'
<1>1. text_prev' = text_prev /\ text_curr' = text_curr /\ todo' = todo /\ out' = out
  BY DEF input
<1>2. Inputs'
  BY <1>1 DEF Inputs
<1>3. PICK i \in Nat, j \in Nat : ReadUpTo(out, i, j) /\ Covers(text_prev, text_curr, todo, i, j)
  BY DEF TranscriptInv
<1>4. ReadUpTo(out, i, j)'
  BY <1>1, <1>3 DEF ReadUpTo
<1>5. Covers(text_prev, text_curr, todo, i, j)'
  BY <1>1, <1>3
<1> QED BY <1>2, <1>4, <1>5 DEF TranscriptInv

(* A scan starts in its window.                                            *)
LEMMA FancyReplaceKeeps == DifferInv /\ FancyReplace => DifferInv'
<1> SUFFICES ASSUME DifferInv, FancyReplace PROVE DifferInv'
  OBVIOUS
<1>1. /\ Inputs /\ TranscriptInv /\ todo # << >>
      /\ Head(todo).kind = "gap" /\ Replace(Head(todo).at)
      /\ UNCHANGED <<input, todo, out>>
  BY DEF DifferInv, FancyReplace
<1>2. Inputs' /\ TranscriptInv'
  BY <1>1, TranscriptKept
<1>3. PICK w \in Windows(text_prev, text_curr) : w = Head(todo).at
  BY <1>1, FirstItem
<1>4. w.alo \in Nat /\ w.blo \in Nat /\ w.alo < w.ahi /\ w.blo < w.bhi
      /\ w.ahi \in Nat /\ w.bhi \in Nat
  <2>1. text_prev \in Seq(Token) /\ text_curr \in Seq(Token)
    BY <1>1, TextType DEF Inputs
  <2> QED BY <1>1, <1>3, <2>1, WindowType DEF Replace
<1>5. PICK i \in Nat, j \in Nat : i = w.alo /\ j = w.blo
  BY <1>4
<1>6. probe' = Scan(TRUE, w, i, j, <<74, 100>>, <<0, 0>>, <<0, 0>>)
  BY <1>3, <1>5 DEF FancyReplace, Scan
<1>7. /\ probe'.on = TRUE /\ probe'.w = w /\ probe'.i = i /\ probe'.j = j
      /\ probe'.best_ratio = <<74, 100>> /\ probe'.best = <<0, 0>> /\ probe'.eq = <<0, 0>>
  BY <1>6 DEF Scan
<1>8. text_prev' = text_prev /\ text_curr' = text_curr /\ todo' = todo
  BY <1>1 DEF input
<1>9. ProbeInv'
  <2>1. todo' # << >> /\ Head(todo').kind = "gap" /\ probe'.w = Head(todo').at
    BY <1>1, <1>3, <1>7, <1>8
  <2>2. probe'.w \in Windows(text_prev', text_curr') /\ Replace(probe'.w)
    BY <1>1, <1>3, <1>7, <1>8
  <2>3. probe' = Scan(probe'.on, probe'.w, probe'.i, probe'.j, probe'.best_ratio, probe'.best, probe'.eq)
    BY <1>6, <1>7
  <2>4. i <= i /\ j <= j /\ i < w.ahi /\ j <= w.bhi /\ w.alo <= i /\ w.blo <= j
    BY <1>4, <1>5
  <2> QED BY <1>7, <2>1, <2>2, <2>3, <2>4 DEF ProbeInv
<1> QED BY <1>2, <1>9 DEF DifferInv

(* One pair on: the scan stays inside its window.                          *)
LEMMA ScanMoves ==
  ASSUME DifferInv, Scanning, NEW r, NEW p, NEW e,
         probe' = NextPair(Scan(probe.on, probe.w, probe.i, probe.j, r, p, e)),
         (p = <<0, 0>> /\ r = <<74, 100>>) \/ p \in Cells(probe.w),
         e = <<0, 0>> \/ (e \in Cells(probe.w) /\ text_prev[e[1]] = text_curr[e[2]]),
         UNCHANGED <<input, todo, out>>
  PROVE  DifferInv'
<1>1. /\ Inputs /\ TranscriptInv /\ probe.on /\ todo # << >>
      /\ Head(todo).kind = "gap" /\ probe.w = Head(todo).at /\ Replace(probe.w)
  BY DEF DifferInv, ProbeInv, Scanning
<1>2. Inputs' /\ TranscriptInv'
  BY <1>1, TranscriptKept
<1>3. PICK w \in Windows(text_prev, text_curr) : w = probe.w
  BY <1>1 DEF DifferInv, ProbeInv
<1>4. PICK o : o = probe.on
  OBVIOUS
<1>5. PICK i \in Nat, j \in Nat : i = probe.i /\ j = probe.j
  BY <1>1 DEF DifferInv, ProbeInv
<1>6. w.alo <= i /\ i < w.ahi /\ w.blo <= j /\ j < w.bhi
  BY <1>1, <1>3, <1>5 DEF DifferInv, ProbeInv, Scanning
<1>7. w.alo \in Nat /\ w.ahi \in Nat /\ w.blo \in Nat /\ w.bhi \in Nat
  <2>1. text_prev \in Seq(Token) /\ text_curr \in Seq(Token)
    BY <1>1, TextType DEF Inputs
  <2> QED BY <2>1, WindowType
<1>8. PICK s : s = Scan(o, w, i, j, r, p, e)
  OBVIOUS
<1>9. probe' = NextPair(s)
  BY <1>3, <1>4, <1>5, <1>8
<1>10. \E k, l \in Nat : /\ probe' = Scan(o, w, k, l, r, p, e)
                         /\ w.alo <= k /\ k < w.ahi /\ w.blo <= l /\ l <= w.bhi
  <2>1. NextPair(s) = IF i + 1 < w.ahi THEN Scan(o, w, i + 1, j, r, p, e)
                      ELSE Scan(o, w, w.alo, j + 1, r, p, e)
    BY <1>8, ScanNext
  <2>2. CASE i + 1 < w.ahi
    <3>1. probe' = Scan(o, w, i + 1, j, r, p, e)
      BY <1>9, <2>1, <2>2
    <3>2. i + 1 \in Nat /\ w.alo <= i + 1 /\ i + 1 < w.ahi /\ w.blo <= j /\ j <= w.bhi
      BY <1>6, <1>7, <2>2
    <3> QED BY <3>1, <3>2
  <2>3. CASE ~ (i + 1 < w.ahi)
    <3>1. probe' = Scan(o, w, w.alo, j + 1, r, p, e)
      BY <1>9, <2>1, <2>3
    <3>2. j + 1 \in Nat /\ w.alo <= w.alo /\ w.alo < w.ahi /\ w.blo <= j + 1 /\ j + 1 <= w.bhi
      BY <1>6, <1>7
    <3> QED BY <1>7, <3>1, <3>2
  <2> QED BY <2>2, <2>3
<1>11. PICK k \in Nat, l \in Nat : /\ probe' = Scan(o, w, k, l, r, p, e)
                                   /\ w.alo <= k /\ k < w.ahi /\ w.blo <= l /\ l <= w.bhi
  BY <1>10
<1>12. /\ probe'.on = o /\ probe'.w = w /\ probe'.i = k /\ probe'.j = l
       /\ probe'.best_ratio = r /\ probe'.best = p /\ probe'.eq = e
  BY <1>11 DEF Scan
<1>13. text_prev' = text_prev /\ text_curr' = text_curr /\ todo' = todo
  BY DEF input
<1>14. ProbeInv'
  <2>1. todo' # << >> /\ Head(todo').kind = "gap" /\ probe'.w = Head(todo').at
    BY <1>1, <1>3, <1>12, <1>13
  <2>2. probe'.w \in Windows(text_prev', text_curr') /\ Replace(probe'.w)
    BY <1>1, <1>3, <1>12, <1>13
  <2>3. probe' = Scan(probe'.on, probe'.w, probe'.i, probe'.j, probe'.best_ratio, probe'.best, probe'.eq)
    BY <1>11, <1>12
  <2>4. (p = <<0, 0>> /\ r = <<74, 100>>) \/ p \in Cells(w)
    BY <1>3
  <2>5. e = <<0, 0>> \/ (e \in Cells(w) /\ text_prev'[e[1]] = text_curr'[e[2]])
    BY <1>3, <1>13
  <2> QED BY <1>11, <1>12, <2>1, <2>2, <2>3, <2>4, <2>5 DEF ProbeInv
<1> QED BY <1>2, <1>14 DEF DifferInv

(* The pair the scan is at.                                                *)
LEMMA PairInWindow ==
  ASSUME DifferInv, Scanning
  PROVE  /\ <<probe.i, probe.j>> \in Cells(probe.w)
         /\ probe = Scan(probe.on, probe.w, probe.i, probe.j, probe.best_ratio, probe.best, probe.eq)
         /\ (probe.best = <<0, 0>> /\ probe.best_ratio = <<74, 100>>) \/ probe.best \in Cells(probe.w)
         /\ \/ probe.eq = <<0, 0>>
            \/ probe.eq \in Cells(probe.w) /\ text_prev[probe.eq[1]] = text_curr[probe.eq[2]]
<1>1. Inputs /\ ProbeInv /\ probe.on
  BY DEF DifferInv, Scanning
<1>2. PICK w \in Windows(text_prev, text_curr) : w = probe.w
  BY <1>1 DEF ProbeInv
<1>3. PICK i \in Nat, j \in Nat : i = probe.i /\ j = probe.j
  BY <1>1 DEF ProbeInv
<1>4. w.alo <= i /\ i < w.ahi /\ w.blo <= j /\ j < w.bhi
  BY <1>1, <1>2, <1>3 DEF ProbeInv, Scanning
<1>5. w.alo \in Nat /\ w.ahi \in Nat /\ w.blo \in Nat /\ w.bhi \in Nat
  <2>1. text_prev \in Seq(Token) /\ text_curr \in Seq(Token)
    BY <1>1, TextType DEF Inputs
  <2> QED BY <2>1, WindowType
<1>6. i \in w.alo .. w.ahi - 1 /\ j \in w.blo .. w.bhi - 1
  BY <1>4, <1>5
<1>7. <<probe.i, probe.j>> \in Cells(probe.w)
  BY <1>2, <1>3, <1>6 DEF Cells
<1> QED BY <1>1, <1>7 DEF ProbeInv

(* An identical pair is remembered.                                        *)
LEMMA ProbeSameKeeps == DifferInv /\ ProbeSame => DifferInv'
<1> SUFFICES ASSUME DifferInv, ProbeSame PROVE DifferInv'
  OBVIOUS
<1>1. Scanning /\ text_prev[probe.i] = text_curr[probe.j]
  BY DEF ProbeSame, Same
<1>2. UNCHANGED <<input, todo, out>>
  BY DEF ProbeSame, GoOn
<1>3. PICK r, p, e, o, w, i, j :
        /\ r = probe.best_ratio /\ p = probe.best /\ e = probe.eq
        /\ o = probe.on /\ w = probe.w /\ i = probe.i /\ j = probe.j
  OBVIOUS
<1>4. PICK s : s = probe
  OBVIOUS
<1>5. PICK x : x = <<i, j>>
  OBVIOUS
<1>6. s = Scan(o, w, i, j, r, p, e)
  BY <1>1, <1>3, <1>4, PairInWindow
<1>7. probe' = NextPair(IF e = <<0, 0>> THEN [s EXCEPT !.eq = x] ELSE s)
  BY <1>3, <1>4, <1>5 DEF ProbeSame, GoOn
<1>8. [s EXCEPT !.eq = x] = Scan(o, w, i, j, r, p, x)
  BY <1>6, ScanEq
<1>9. PICK f : f = IF e = <<0, 0>> THEN x ELSE e
  OBVIOUS
<1>10. probe' = NextPair(Scan(probe.on, probe.w, probe.i, probe.j, r, p, f))
  BY <1>3, <1>6, <1>7, <1>8, <1>9
<1>11. (p = <<0, 0>> /\ r = <<74, 100>>) \/ p \in Cells(probe.w)
  BY <1>1, <1>3, PairInWindow
<1>12. f = <<0, 0>> \/ (f \in Cells(probe.w) /\ text_prev[f[1]] = text_curr[f[2]])
  <2>1. x \in Cells(probe.w) /\ text_prev[x[1]] = text_curr[x[2]]
    BY <1>1, <1>3, <1>5, PairInWindow
  <2>2. e = <<0, 0>> \/ (e \in Cells(probe.w) /\ text_prev[e[1]] = text_curr[e[2]])
    BY <1>1, <1>3, PairInWindow
  <2> QED BY <1>9, <2>1, <2>2
<1> QED BY <1>1, <1>2, <1>10, <1>11, <1>12, ScanMoves

(* A closer pair is remembered.                                            *)
LEMMA ProbeOtherKeeps == DifferInv /\ ProbeOther => DifferInv'
<1> SUFFICES ASSUME DifferInv, ProbeOther PROVE DifferInv'
  OBVIOUS
<1>1. Scanning
  BY DEF ProbeOther
<1>2. UNCHANGED <<input, todo, out>>
  BY DEF ProbeOther, GoOn
<1>c. PICK c : probe' = NextPair(Better(c))
  BY DEF ProbeOther, GoOn
<1>3. PICK r, p, e, o, w, i, j :
        /\ r = probe.best_ratio /\ p = probe.best /\ e = probe.eq
        /\ o = probe.on /\ w = probe.w /\ i = probe.i /\ j = probe.j
  OBVIOUS
<1>4. PICK s : s = probe
  OBVIOUS
<1>5. PICK x, y : x = ratio(c) /\ y = <<i, j>>
  OBVIOUS
<1>6. s = Scan(o, w, i, j, r, p, e)
  BY <1>1, <1>3, <1>4, PairInWindow
<1>7. Better(c) = NewBest(s, x, y) \/ Better(c) = s
  BY <1>3, <1>4, <1>5 DEF Better, NewBest
<1>8. NewBest(s, x, y) = Scan(o, w, i, j, x, y, e)
  BY <1>6, ScanBest
<1>9. \E q, b : /\ Better(c) = Scan(o, w, i, j, q, b, e)
                /\ (b = <<0, 0>> /\ q = <<74, 100>>) \/ b \in Cells(probe.w)
  <2>1. y \in Cells(probe.w)
    BY <1>1, <1>3, <1>5, PairInWindow
  <2>2. (p = <<0, 0>> /\ r = <<74, 100>>) \/ p \in Cells(probe.w)
    BY <1>1, <1>3, PairInWindow
  <2>3. CASE Better(c) = NewBest(s, x, y)
    BY <1>8, <2>1, <2>3
  <2>4. CASE Better(c) = s
    BY <1>6, <2>2, <2>4
  <2> QED BY <1>7, <2>3, <2>4
<1>10. PICK q, b : /\ Better(c) = Scan(o, w, i, j, q, b, e)
                   /\ (b = <<0, 0>> /\ q = <<74, 100>>) \/ b \in Cells(probe.w)
  BY <1>9
<1>11. probe' = NextPair(Scan(probe.on, probe.w, probe.i, probe.j, q, b, e))
  BY <1>3, <1>10, <1>c
<1>12. e = <<0, 0>> \/ (e \in Cells(probe.w) /\ text_prev[e[1]] = text_curr[e[2]])
  BY <1>1, <1>3, PairInWindow
<1> QED BY <1>1, <1>2, <1>10, <1>11, <1>12, ScanMoves

(* A window split at a pair of the scan is still covered.                  *)
LEMMA SplitKeeps ==
  ASSUME Inputs, TranscriptInv, todo # << >>, probe.w = Head(todo).at,
         NEW p \in Cells(probe.w), NEW kind \in {"equal", "change"},
         kind = "equal" => text_prev[p[1]] = text_curr[p[2]],
         todo' = Split(p, kind) \o Tail(todo), out' = out, UNCHANGED input
  PROVE  TranscriptInv'
<1>1. PICK w \in Windows(text_prev, text_curr) :
        /\ w = Head(todo).at /\ ReadUpTo(out, w.alo, w.blo)
        /\ Covers(text_prev, text_curr, Tail(todo), w.ahi, w.bhi)
  BY FirstItem
<1>2. PICK a, b, s, o : a = text_prev /\ b = text_curr /\ s = Tail(todo) /\ o = out
  OBVIOUS
<1>3. text_prev \in Seq(Token) /\ text_curr \in Seq(Token)
  BY TextType DEF Inputs
<1>4. PICK i \in Nat, j \in Nat : i = w.alo /\ j = w.blo
  <2>1. w.alo \in Nat /\ w.blo \in Nat
    BY <1>3, WindowType
  <2> QED BY <2>1
<1>5. PICK t : t = Split(p, kind) \o s
  OBVIOUS
<1>6. Covers(a, b, t, i, j)
  <2>1. a \in Seq(Token) /\ b \in Seq(Token) /\ w \in Windows(a, b) /\ w = probe.w
        /\ p \in Cells(w) /\ (kind = "equal" => a[p[1]] = b[p[2]]) /\ Covers(a, b, s, w.ahi, w.bhi)
    BY <1>1, <1>2, <1>3
  <2>2. Covers(a, b, Split(p, kind) \o s, w.alo, w.blo)
    BY <2>1, SplitCovers
  <2> QED BY <1>4, <1>5, <2>2
<1>7. text_prev' = a /\ text_curr' = b /\ out' = o /\ todo' = t
  BY <1>2, <1>5 DEF input
<1>8. Covers(text_prev, text_curr, todo, i, j)'
  BY <1>6, <1>7
<1>9. ReadUpTo(out, i, j)
  BY <1>1, <1>4
<1>10. ReadUpTo(out, i, j)'
  BY <1>2, <1>7, <1>9 DEF ReadUpTo
<1> QED BY <1>8, <1>10 DEF TranscriptInv

(* The end of a scan splits its window or writes it out.                   *)
LEMMA SynchKeeps == DifferInv /\ Synch => DifferInv'
<1> SUFFICES ASSUME DifferInv, Synch PROVE DifferInv'
  OBVIOUS
<1>1. /\ Inputs /\ TranscriptInv /\ todo # << >> /\ probe.w = Head(todo).at
      /\ UNCHANGED input
      /\ (probe.best = <<0, 0>> /\ probe.best_ratio = <<74, 100>>) \/ probe.best \in Cells(probe.w)
      /\ \/ probe.eq = <<0, 0>>
         \/ probe.eq \in Cells(probe.w) /\ text_prev[probe.eq[1]] = text_curr[probe.eq[2]]
  BY DEF DifferInv, ProbeInv, Synch
<1>2. Inputs'
  BY <1>1 DEF Inputs, input
<1>3. ProbeInv'
  <2>1. ~ probe'.on
    BY DEF Synch, NoProbe
  <2> QED BY <2>1 DEF ProbeInv
<1>4. CASE Close /\ todo' = Split(probe.best, "change") \o Tail(todo) /\ UNCHANGED out
  <2>1. probe.best_ratio # <<74, 100>>
    BY <1>4 DEF Close, Greater
  <2>2. PICK p \in Cells(probe.w) : p = probe.best
    BY <1>1, <2>1
  <2>3. todo' = Split(p, "change") \o Tail(todo) /\ out' = out
    BY <1>4, <2>2
  <2>4. TranscriptInv'
    BY <1>1, <2>3, SplitKeeps
  <2> QED BY <1>2, <1>3, <2>4 DEF DifferInv
<1>5. CASE ~ Close /\ probe.eq # <<0, 0>> /\ todo' = Split(probe.eq, "equal") \o Tail(todo) /\ UNCHANGED out
  <2>1. PICK p \in Cells(probe.w) : p = probe.eq /\ text_prev[p[1]] = text_curr[p[2]]
    BY <1>1, <1>5
  <2>2. todo' = Split(p, "equal") \o Tail(todo) /\ out' = out
    BY <1>5, <2>1
  <2>3. TranscriptInv'
    BY <1>1, <2>1, <2>2, SplitKeeps
  <2> QED BY <1>2, <1>3, <2>3 DEF DifferInv
<1>6. CASE /\ ~ Close /\ probe.eq = <<0, 0>> /\ todo' = Tail(todo)
           /\ out' = out \o (LET w == probe.w
                             IN  IF w.bhi - w.blo < w.ahi - w.alo THEN Inserts(w) \o Deletes(w)
                                 ELSE Deletes(w) \o Inserts(w))
  <2>1. PICK w \in Windows(text_prev, text_curr) : w = probe.w
    BY <1>1, FirstItem
  <2>2. PICK e : /\ e = Inserts(w) \o Deletes(w) \/ e = Deletes(w) \o Inserts(w)
                 /\ out' = out \o e
    BY <1>6, <2>1
  <2>3. StandsFor(e, w)
    BY <1>1, <2>2, ReplaceStands
  <2>4. TranscriptInv'
    BY <1>1, <1>6, <2>1, <2>2, <2>3, WrittenOut
  <2> QED BY <1>2, <1>3, <2>4 DEF DifferInv
<1> QED BY <1>4, <1>5, <1>6 DEF Synch

(* The invariant of the transcript holds.                                  *)
LEMMA DifferInvariant == Spec => []DifferInv
<1>1. DifferInv /\ [Next]_vars => DifferInv'
  <2> SUFFICES ASSUME DifferInv, [Next]_vars PROVE DifferInv'
    OBVIOUS
  <2>1. CASE Next
    BY <2>1, WriteKeeps, FancyReplaceKeeps, ProbeSameKeeps, ProbeOtherKeeps, SynchKeeps DEF Next
  <2>2. CASE UNCHANGED vars
    <3>1. UNCHANGED <<input, todo, out>> /\ probe' = probe
      BY <2>2 DEF vars, input
    <3>2. text_prev' = text_prev /\ text_curr' = text_curr /\ todo' = todo
      BY <3>1 DEF input
    <3>3. Inputs' /\ TranscriptInv'
      BY <3>1, TranscriptKept DEF DifferInv
    <3>4. ProbeInv'
      BY <3>1, <3>2 DEF DifferInv, ProbeInv
    <3> QED BY <3>3, <3>4 DEF DifferInv
  <2> QED BY <2>1, <2>2
<1> QED BY <1>1, DifferInit, PTL DEF Spec

(* A prefix of a text is one by IsPrefix.                                  *)
LEMMA FrontIsPrefix ==
  ASSUME NEW S, NEW s \in Seq(S), NEW n \in Nat, 1 <= n, n <= Len(s) + 1
  PROVE  IsPrefix(SubSeq(s, 1, n - 1), s) /\ (n = Len(s) + 1 => SubSeq(s, 1, n - 1) = s)
<1>1. Len(s) \in Nat /\ \A k \in 1 .. Len(s) : s[k] \in S
  BY LenProperties
<1>2. PICK m \in Nat : m = n - 1
  OBVIOUS
<1>3. m <= Len(s)
  BY <1>1, <1>2
<1>4. PICK x : x = SubSeq(s, 1, m)
  OBVIOUS
<1>5. \A k \in 1 .. m : s[k] \in S
  BY <1>1, <1>3
<1>6. x \in Seq(S) /\ Len(x) = m /\ \A k \in 1 .. m : x[k] = s[k]
  <2>1. /\ SubSeq(s, 1, m) \in Seq(S)
        /\ Len(SubSeq(s, 1, m)) = IF 1 <= m THEN m - 1 + 1 ELSE 0
        /\ \A k \in 1 .. m - 1 + 1 : SubSeq(s, 1, m)[k] = s[1 + k - 1]
    BY <1>5, SubSeqProperties
  <2>2. x \in Seq(S) /\ Len(x) = m
    BY <1>4, <2>1
  <2>3. \A k \in 1 .. m : x[k] = s[k]
    <3> TAKE k \in 1 .. m
    <3>1. k \in 1 .. m - 1 + 1 /\ 1 + k - 1 = k
      OBVIOUS
    <3> QED BY <1>4, <2>1, <3>1
  <2> QED BY <2>2, <2>3
<1>7. IsPrefix(x, s)
  BY <1>3, <1>4, <1>6 DEF IsPrefix
<1>8. ASSUME n = Len(s) + 1 PROVE x = s
  BY <1>1, <1>2, <1>6, <1>8, SeqEqual
<1> QED BY <1>2, <1>4, <1>7, <1>8

(* Reading the entries without its inserts, or without its deletes.        *)
LEMMA SideIs ==
  ASSUME NEW kinds
  PROVE  Side(kinds) = SideOf(out, kinds)
BY DEF Side, SideOf, Marked

(* Every variable of differ_compare has its type: the scan stays inside the *)
(* texts, and entries and windows are of the three kinds.                  *)
THEOREM TypesHold == Spec => []TypeOK
<1>1. DifferInv => TypeOK
  <2> SUFFICES ASSUME DifferInv PROVE TypeOK
    OBVIOUS
  <2>1. text_prev \in Texts /\ text_curr \in Texts
    BY DEF DifferInv, Inputs
  <2>2. PICK i, j \in Nat : ReadUpTo(out, i, j) /\ Covers(text_prev, text_curr, todo, i, j)
    BY DEF DifferInv, TranscriptInv
  <2>3. ASSUME NEW k \in DOMAIN todo PROVE todo[k].kind \in {"equal", "change", "gap"}
    <3>1. todo \in Seq(Items(text_prev, text_curr))
      BY <2>2 DEF Covers
    <3>2. todo[k] \in Items(text_prev, text_curr)
      BY <3>1
    <3> QED BY <3>2 DEF Items
  <2>4. ASSUME probe.on
        PROVE  probe.i \in DOMAIN text_prev /\ probe.j \in 1 .. Len(text_curr) + 1
    <3>1. /\ probe.w \in Windows(text_prev, text_curr)
          /\ probe.i \in Nat /\ probe.w.alo <= probe.i /\ probe.i < probe.w.ahi
          /\ probe.j \in Nat /\ probe.w.blo <= probe.j /\ probe.j <= probe.w.bhi
      BY <2>4 DEF DifferInv, ProbeInv
    <3>2. PICK w : w = probe.w
      OBVIOUS
    <3>3. text_prev \in Seq(Token) /\ text_curr \in Seq(Token) /\ DOMAIN text_prev = 1 .. Len(text_prev)
      BY <2>1, TextType
    <3>4. /\ w.alo \in Nat /\ w.ahi \in Nat /\ w.blo \in Nat /\ w.bhi \in Nat
          /\ 1 <= w.alo /\ w.ahi <= Len(text_prev) + 1 /\ 1 <= w.blo /\ w.bhi <= Len(text_curr) + 1
          /\ Len(text_prev) \in Nat /\ Len(text_curr) \in Nat
      BY <3>1, <3>2, <3>3, WindowType
    <3>5. probe.i \in 1 .. Len(text_prev) /\ probe.j \in 1 .. Len(text_curr) + 1
      BY <3>1, <3>2, <3>4, SMTT(30)
    <3> QED BY <3>3, <3>5
  <2>5. ASSUME NEW k \in DOMAIN out
        PROVE  out[k].kind \in {"Keep", "Delete", "Insert"} /\ out[k].value \in Token
    <3>1. out \in Seq(Entry)
      BY <2>2 DEF ReadUpTo
    <3>2. out[k] \in Entry
      BY <3>1
    <3> QED BY <3>2 DEF Entry
  <2> QED BY <2>1, <2>3, <2>4, <2>5 DEF TypeOK
<1> QED BY <1>1, DifferInvariant, PTL

(* The transcript read without its inserts is a prefix of the previous     *)
(* text, read without its deletes one of the current text, and it is both  *)
(* texts in full when differ_compare returns - for any tokens, texts of    *)
(* any length, any thresholds of autojunk.                                 *)
THEOREM TranscriptIsAlwaysAnEdit == Spec => []TranscriptIsAnEdit
<1>1. DifferInv => TranscriptIsAnEdit
  <2> SUFFICES ASSUME DifferInv PROVE TranscriptIsAnEdit
    OBVIOUS
  <2>1. PICK i \in Nat, j \in Nat : ReadUpTo(out, i, j) /\ Covers(text_prev, text_curr, todo, i, j)
    BY DEF DifferInv, TranscriptInv
  <2>2. text_prev \in Seq(Token) /\ text_curr \in Seq(Token)
    BY TextType DEF DifferInv, Inputs
  <2>3. /\ Side({"Keep", "Delete"}) = SubSeq(text_prev, 1, i - 1)
        /\ Side({"Keep", "Insert"}) = SubSeq(text_curr, 1, j - 1)
    BY <2>1, SideIs DEF ReadUpTo, KD, KI
  <2>4. /\ 1 <= i /\ i <= Len(text_prev) + 1
        /\ 1 <= j /\ j <= Len(text_curr) + 1
    BY <2>1 DEF ReadUpTo
  <2>5. todo = << >> => i = Len(text_prev) + 1 /\ j = Len(text_curr) + 1
    BY <2>1 DEF Covers
  <2>6. /\ IsPrefix(SubSeq(text_prev, 1, i - 1), text_prev)
        /\ i = Len(text_prev) + 1 => SubSeq(text_prev, 1, i - 1) = text_prev
    BY <2>2, <2>4, FrontIsPrefix
  <2>7. /\ IsPrefix(SubSeq(text_curr, 1, j - 1), text_curr)
        /\ j = Len(text_curr) + 1 => SubSeq(text_curr, 1, j - 1) = text_curr
    BY <2>2, <2>4, FrontIsPrefix
  <2> QED BY <2>3, <2>5, <2>6, <2>7 DEF TranscriptIsAnEdit
<1> QED BY <1>1, DifferInvariant, PTL

-----------------------------------------------------------------------------
(* The cruncher's cache.                                                   *)
Cruncher(a, b, blocks) == [a |-> a, b |-> b, blocks |-> blocks]
Fresh(c) ==
  /\ c = Cruncher(c.a, c.b, c.blocks)
  /\ c.blocks \subseteq {TokenBlocks[<<c.a, c.b>>]}

(* What set_seq1 and set_seq2 make of a matcher, and that it stays fresh.  *)
LEMMA CruncherSet ==
  ASSUME NEW a, NEW b, NEW blocks, NEW c, c = Cruncher(a, b, blocks), NEW x
  PROVE  /\ set_seq1(c, x) = IF x = a THEN c ELSE Cruncher(x, b, {})
         /\ set_seq2(c, x) = IF x = b THEN c ELSE Cruncher(a, x, {})
<1>0. c = [a |-> a, b |-> b, blocks |-> blocks] /\ c.a = a /\ c.b = b
  BY DEF Cruncher
<1>1. [c EXCEPT !.a = x, !.blocks = NotCached] = Cruncher(x, b, {})
  <2>1. [c EXCEPT !.a = x, !.blocks = NotCached] = [[c EXCEPT !.a = x] EXCEPT !.blocks = NotCached]
    BY <1>0
  <2>2. PICK d : d = [c EXCEPT !.a = x]
    OBVIOUS
  <2>3. d = [a |-> x, b |-> b, blocks |-> blocks]
    BY ONLY <1>0, <2>2
  <2>4. PICK e : e = NotCached
    OBVIOUS
  <2>5. [d EXCEPT !.blocks = e] = [a |-> x, b |-> b, blocks |-> e]
    BY ONLY <2>3
  <2>6. [c EXCEPT !.a = x, !.blocks = NotCached] = [d EXCEPT !.blocks = e]
    BY <2>1, <2>2, <2>4
  <2> QED BY <2>4, <2>5, <2>6 DEF Cruncher, NotCached
<1>2. [c EXCEPT !.b = x, !.blocks = NotCached] = Cruncher(a, x, {})
  <2>1. [c EXCEPT !.b = x, !.blocks = NotCached] = [[c EXCEPT !.b = x] EXCEPT !.blocks = NotCached]
    BY <1>0
  <2>2. PICK d : d = [c EXCEPT !.b = x]
    OBVIOUS
  <2>3. d = [a |-> a, b |-> x, blocks |-> blocks]
    BY ONLY <1>0, <2>2
  <2>4. PICK e : e = NotCached
    OBVIOUS
  <2>5. [d EXCEPT !.blocks = e] = [a |-> a, b |-> x, blocks |-> e]
    BY ONLY <2>3
  <2>6. [c EXCEPT !.b = x, !.blocks = NotCached] = [d EXCEPT !.blocks = e]
    BY <2>1, <2>2, <2>4
  <2> QED BY <2>4, <2>5, <2>6 DEF Cruncher, NotCached
<1> QED BY <1>0, <1>1, <1>2 DEF set_seq1, set_seq2

(* A cache that is fresh stays so, and what it holds after a lookup are    *)
(* the blocks of the two tokens.                                           *)
LEMMA FreshSet ==
  ASSUME NEW c, Fresh(c), NEW x
  PROVE  /\ Fresh(set_seq1(c, x)) /\ set_seq1(c, x).a = x /\ set_seq1(c, x).b = c.b
         /\ Fresh(set_seq2(c, x)) /\ set_seq2(c, x).b = x /\ set_seq2(c, x).a = c.a
<1>1. PICK a, b, s : a = c.a /\ b = c.b /\ s = c.blocks
  OBVIOUS
<1>2. c = Cruncher(a, b, s)
  BY <1>1 DEF Fresh
<1>3. /\ set_seq1(c, x) = IF x = a THEN c ELSE Cruncher(x, b, {})
      /\ set_seq2(c, x) = IF x = b THEN c ELSE Cruncher(a, x, {})
  BY <1>2, CruncherSet
<1>4. \A d, e : /\ Fresh(Cruncher(d, e, {}))
                /\ Cruncher(d, e, {}).a = d /\ Cruncher(d, e, {}).b = e
  BY DEF Fresh, Cruncher
<1> QED BY <1>1, <1>3, <1>4

(* get_matching_blocks fills the cache with the blocks of the two tokens.  *)
LEMMA FreshCrunched ==
  ASSUME NEW c, Fresh(c)
  PROVE  /\ Fresh(Crunched(c)) /\ Crunched(c).a = c.a /\ Crunched(c).b = c.b
         /\ Crunched(c).blocks = {TokenBlocks[<<c.a, c.b>>]}
<1>1. PICK a, b, s, t : a = c.a /\ b = c.b /\ s = c.blocks /\ t = {TokenBlocks[<<a, b>>]}
  OBVIOUS
<1>2. c = [a |-> a, b |-> b, blocks |-> s] /\ s \subseteq t
  BY <1>1 DEF Fresh, Cruncher
<1>3. CASE s # {}
  <2>1. Crunched(c) = c
    BY <1>1, <1>3 DEF Crunched, NotCached
  <2>2. s = t
    BY <1>1, <1>2, <1>3
  <2> QED BY <1>1, <2>1, <2>2
<1>4. CASE s = {}
  <2>1. Crunched(c) = [c EXCEPT !.blocks = t]
    BY <1>1, <1>4 DEF Crunched, NotCached
  <2>2. [c EXCEPT !.blocks = t] = [a |-> a, b |-> b, blocks |-> t]
    BY ONLY <1>2
  <2>3. PICK d : d = [c EXCEPT !.blocks = t]
    OBVIOUS
  <2>4. d = [a |-> a, b |-> b, blocks |-> t]
    BY <2>2, <2>3
  <2>5. d.a = a /\ d.b = b /\ d.blocks = t /\ Fresh(d)
    BY <1>1, <2>4 DEF Fresh, Cruncher
  <2> QED BY <1>1, <2>1, <2>3, <2>5
<1> QED BY <1>3, <1>4

(* char_cruncher is fresh.                                                 *)
CruncherInv == Fresh(char_cruncher)

(* No step makes it stale.                                                 *)
LEMMA CruncherInvariant == Spec => []CruncherInv
<1>1. Init => CruncherInv
  <2> SUFFICES ASSUME Init PROVE Fresh(char_cruncher)
    BY DEF CruncherInv
  <2>1. PICK e : e = << >>
    OBVIOUS
  <2>2. char_cruncher = Cruncher(e, e, {})
    BY <2>1 DEF Init, Cruncher, NotCached
  <2> QED BY <2>2 DEF Fresh, Cruncher
<1>2. CruncherInv /\ [Next]_vars => CruncherInv'
  <2> SUFFICES ASSUME Fresh(char_cruncher), [Next]_vars PROVE Fresh(char_cruncher')
    BY DEF CruncherInv
  <2>1. CASE FancyReplace
    <3>1. PICK x : char_cruncher' = set_seq2(char_cruncher, x)
      BY <2>1 DEF FancyReplace
    <3> QED BY <3>1, FreshSet
  <2>2. CASE ProbeSame
    <3>1. PICK x : char_cruncher' = char_cruncher \/ char_cruncher' = set_seq2(char_cruncher, x)
      BY <2>2 DEF ProbeSame, GoOn
    <3> QED BY <3>1, FreshSet
  <2>3. CASE ProbeOther
    <3>1. PICK d, x : /\ d = set_seq1(char_cruncher, text_prev[probe.i])
                      /\ char_cruncher' = Looked(d) \/ char_cruncher' = set_seq2(Looked(d), x)
      BY <2>3 DEF ProbeOther, GoOn
    <3>2. Fresh(d)
      BY <3>1, FreshSet
    <3>3. Fresh(Looked(d))
      BY <3>2, FreshCrunched DEF Looked
    <3>4. PICK c : c = Looked(d)
      OBVIOUS
    <3> QED BY <3>1, <3>3, <3>4, FreshSet
  <2>4. CASE Write \/ Synch \/ UNCHANGED vars
    <3>1. char_cruncher' = char_cruncher
      BY <2>4 DEF Write, Synch, vars
    <3> QED BY <3>1
  <2> QED BY <2>1, <2>2, <2>3, <2>4 DEF Next
<1> QED BY <1>1, <1>2, PTL DEF Spec

(* The blocks that char_cruncher keeps from one pair of tokens to the next *)
(* are always those of the two tokens it holds: set_seq1 and set_seq2      *)
(* forget in time.                                                         *)
THEOREM CruncherIsAlwaysFresh == Spec => []CruncherIsFresh
<1>1. CruncherInv => CruncherIsFresh
  BY DEF CruncherInv, Fresh, CruncherIsFresh
<1> QED BY <1>1, CruncherInvariant, PTL

-----------------------------------------------------------------------------
(* The bounds of the scan.  The matched positions, as pairs, are as many   *)
(* as the sizes of the blocks add up to; a position of either token is in  *)
(* one pair at most, and the two of a pair hold the same character.        *)
LEMMA OneToOne ==
  ASSUME NEW Q, NEW T, IsFiniteSet(T), NEW f \in [Q -> T],
         \A p, q \in Q : f[p] = f[q] => p = q
  PROVE  IsFiniteSet(Q) /\ Cardinality(Q) \in Nat /\ Cardinality(Q) <= Cardinality(T)
<1>1. f \in Injection(Q, T)
  BY DEF Injection, IsInjective
<1> QED BY <1>1, FS_Injection, FS_CardinalityType

(* The pairs of places that a block matches, and that a list of blocks     *)
(* does: one pair in each row and in each column.                          *)
Pairs(m) == { <<m.a_start + t, m.b_start + t>> : t \in 0 .. m.size - 1 }

(* A block has as many as its size says.                                   *)
LEMMA PairsOf ==
  ASSUME NEW m \in Block
  PROVE  /\ IsFiniteSet(Pairs(m)) /\ m.size <= Cardinality(Pairs(m))
         /\ \A p \in Pairs(m) : \E t \in 0 .. m.size - 1 :
              p = <<p[1], p[2]>> /\ p[1] = m.a_start + t /\ p[2] = m.b_start + t
<1>1. PICK i \in Nat, j \in Nat, n \in Nat : i = m.a_start /\ j = m.b_start /\ n = m.size
  BY DEF Block
<1>2. Pairs(m) = { <<i + t, j + t>> : t \in 0 .. n - 1 }
  BY <1>1 DEF Pairs
<1>3. PICK P : P = Pairs(m)
  OBVIOUS
<1>4. PICK T : T = 0 .. n - 1
  OBVIOUS
<1>5. IsFiniteSet(T) /\ Cardinality(T) = n
  BY <1>4, FS_Interval
<1>6. PICK f : f = [t \in T |-> <<i + t, j + t>>]
  OBVIOUS
<1>7. f \in Surjection(T, P)
  BY <1>2, <1>3, <1>4, <1>6 DEF Surjection
<1>8. f \in Injection(T, P)
  <2>1. f \in [T -> P]
    BY <1>7 DEF Surjection
  <2>2. ASSUME NEW x \in T, NEW y \in T, f[x] = f[y] PROVE x = y
    <3>1. f[x][1] = i + x /\ f[y][1] = i + y
      BY <1>6
    <3>2. i + x = i + y /\ x \in Int /\ y \in Int
      BY <1>4, <2>2, <3>1
    <3> QED BY <3>2
  <2> QED BY <2>1, <2>2 DEF Injection, IsInjective
<1>9. IsFiniteSet(P) /\ Cardinality(P) = n
  BY <1>5, <1>7, <1>8, FS_Surjection
<1>10. \A p \in P : \E t \in 0 .. n - 1 : p = <<p[1], p[2]>> /\ p[1] = i + t /\ p[2] = j + t
  BY <1>2, <1>3
<1> QED BY <1>1, <1>3, <1>9, <1>10

(* All pairs of a chain of blocks.                                         *)
PairsIn(s) == All([k \in 1 .. Len(s) |-> Pairs(s[k])], 1 .. Len(s))
OneEach(R) == \A p, q \in R : (p[1] = q[1] \/ p[2] = q[2]) => p = q

(* Blocks in a chain share no pair, no row and no column.                  *)
LEMMA MatchedPairs ==
  ASSUME NEW E, NEW a \in Seq(E), NEW b \in Seq(E), NEW w \in Windows(a, b),
         NEW s, BlockChain(a, b, w, s)
  PROVE  /\ MatchSize(s) \in Nat /\ MatchSize(s) <= Cardinality(PairsIn(s))
         /\ OneEach(PairsIn(s))
         /\ \A p \in PairsIn(s) : p[1] \in 1 .. Len(a) /\ p[2] \in 1 .. Len(b) /\ a[p[1]] = b[p[2]]
<1>1. s \in Seq(Block) /\ Len(s) \in Nat /\ DOMAIN s = 1 .. Len(s) /\ \A k \in 1 .. Len(s) : s[k] \in Block
  BY LenProperties DEF BlockChain
<1>2. PICK S : S = 1 .. Len(s)
  OBVIOUS
<1>3. IsFiniteSet(S)
  BY <1>1, <1>2, FS_Interval
<1>4. PICK f : f = [k \in S |-> s[k].size]
  OBVIOUS
<1>5. PICK G : G = [k \in S |-> Pairs(s[k])]
  OBVIOUS
<1>6. \A k \in S : /\ f[k] \in Nat /\ f[k] = s[k].size /\ G[k] = Pairs(s[k])
                   /\ IsFiniteSet(G[k]) /\ f[k] <= Cardinality(G[k])
  <2> TAKE k \in S
  <2>1. s[k] \in Block
    BY <1>1, <1>2
  <2>2. PICK m \in Block : m = s[k]
    BY <2>1
  <2>3. m.size \in Nat /\ f[k] = m.size /\ G[k] = Pairs(m)
    BY <1>4, <1>5, <2>2 DEF Block
  <2>4. IsFiniteSet(Pairs(m)) /\ m.size <= Cardinality(Pairs(m))
    BY PairsOf
  <2> QED BY <2>2, <2>3, <2>4
<1>7. \A k \in S : \A p \in G[k] : \E t \in Nat :
        /\ t < s[k].size /\ p = <<p[1], p[2]>> /\ p[1] = s[k].a_start + t /\ p[2] = s[k].b_start + t
  <2> TAKE k \in S
  <2>1. PICK m \in Block : m = s[k]
    BY <1>1, <1>2
  <2>2. \A p \in Pairs(m) : \E t \in 0 .. m.size - 1 :
          p = <<p[1], p[2]>> /\ p[1] = m.a_start + t /\ p[2] = m.b_start + t
    BY PairsOf
  <2>3. m.size \in Nat
    BY DEF Block
  <2>4. \A t \in 0 .. m.size - 1 : t \in Nat /\ t < m.size
    BY <2>3
  <2> QED BY <1>6, <2>1, <2>2, <2>4
<1>8. ASSUME NEW k \in S, NEW l \in S, NEW p \in G[k], NEW q \in G[l], p[1] = q[1] \/ p[2] = q[2]
      PROVE  k = l /\ p = q
  <2>1. PICK t \in Nat : /\ t < s[k].size /\ p = <<p[1], p[2]>>
                         /\ p[1] = s[k].a_start + t /\ p[2] = s[k].b_start + t
    BY <1>7
  <2>2. PICK u \in Nat : /\ u < s[l].size /\ q = <<q[1], q[2]>>
                         /\ q[1] = s[l].a_start + u /\ q[2] = s[l].b_start + u
    BY <1>7
  <2>3. PICK i \in Nat, j \in Nat, n \in Nat : i = s[k].a_start /\ j = s[k].b_start /\ n = s[k].size
    BY <1>1, <1>2 DEF Block
  <2>4. PICK x \in Nat, y \in Nat, z \in Nat : x = s[l].a_start /\ y = s[l].b_start /\ z = s[l].size
    BY <1>1, <1>2 DEF Block
  <2>5. t < n /\ u < z /\ (i + t = x + u \/ j + t = y + u)
    BY <1>8, <2>1, <2>2, <2>3, <2>4
  <2>6. (k < l => i + n <= x /\ j + n <= y) /\ (l < k => x + z <= i /\ y + z <= j)
    BY <1>2, <2>3, <2>4 DEF BlockChain, Follows
  <2>7. ~ (k < l) /\ ~ (l < k)
    BY <2>5, <2>6
  <2>8. k = l
    BY <1>1, <1>2, <2>7
  <2>9. i = x /\ j = y
    BY <2>3, <2>4, <2>8
  <2>10. t = u
    BY <2>5, <2>9
  <2>11. p[1] = q[1] /\ p[2] = q[2]
    BY <2>1, <2>2, <2>8, <2>10
  <2> QED BY <2>1, <2>2, <2>8, <2>11
<1>9. PICK R : R = All(G, S)
  OBVIOUS
<1>10. R = PairsIn(s)
  BY <1>2, <1>5, <1>9 DEF PairsIn
<1>11. \A p \in R : \E k \in S : p \in G[k]
  BY <1>9 DEF All
<1>12. Disjoint(G, S)
  BY <1>8 DEF Disjoint
<1>13. SumFunction(f) \in Nat /\ SumFunction(f) <= Cardinality(R)
  <2>1. DOMAIN f = S /\ \A k \in S : f[k] \in Nat /\ IsFiniteSet(G[k])
    BY <1>4, <1>6
  <2>2. \A k \in S : f[k] <= Cardinality(G[k])
    BY <1>6
  <2> QED BY <1>3, <1>9, <1>12, <2>1, <2>2, SumBounds
<1>14. MatchSize(s) = SumFunction(f)
  BY <1>1, <1>2, <1>4 DEF MatchSize
<1>15. OneEach(R)
  BY <1>8, <1>11 DEF OneEach
<1>16. \A p \in R : p[1] \in 1 .. Len(a) /\ p[2] \in 1 .. Len(b) /\ a[p[1]] = b[p[2]]
  <2> TAKE p \in R
  <2>1. PICK k \in S : p \in G[k]
    BY <1>11
  <2>2. PICK t \in Nat : /\ t < s[k].size /\ p = <<p[1], p[2]>>
                         /\ p[1] = s[k].a_start + t /\ p[2] = s[k].b_start + t
    BY <1>7, <2>1
  <2>3. PICK i \in Nat, j \in Nat, n \in Nat : i = s[k].a_start /\ j = s[k].b_start /\ n = s[k].size
    BY <1>1, <1>2 DEF Block
  <2>4. BlockIn(w, s[k]) /\ Matched(a, b, s[k])
    BY <1>2 DEF BlockChain
  <2>5. PICK alo \in Nat, ahi \in Nat, blo \in Nat, bhi \in Nat :
          w.alo = alo /\ w.ahi = ahi /\ w.blo = blo /\ w.bhi = bhi
    BY WindowType
  <2>6. /\ 1 <= alo /\ ahi <= Len(a) + 1 /\ 1 <= blo /\ bhi <= Len(b) + 1
        /\ Len(a) \in Nat /\ Len(b) \in Nat
    BY <2>5, WindowType
  <2>7. alo <= i /\ i + n <= ahi /\ blo <= j /\ j + n <= bhi
    BY <2>3, <2>4, <2>5 DEF BlockIn
  <2>8. t < n /\ p[1] = i + t /\ p[2] = j + t
    BY <2>2, <2>3
  <2>9. i + t \in 1 .. Len(a) /\ j + t \in 1 .. Len(b)
    BY <2>6, <2>7, <2>8
  <2>10. a[i + t] = b[j + t]
    <3>1. t \in 0 .. n - 1
      BY <2>8
    <3> QED BY <2>3, <2>4, <3>1 DEF Matched
  <2> QED BY <2>8, <2>9, <2>10
<1> QED BY <1>10, <1>13, <1>14, <1>15, <1>16

(* The matches of two tokens are no more than real_quick_ratio and         *)
(* quick_ratio take them for.                                              *)
Quick(a, b) == SumFunction([x \in Range(a) |-> Min({Count(a, x), Count(b, x)})])

(* An element is matched at most as often as either token has it.          *)
LEMMA MatchesBounded ==
  ASSUME NEW E, NEW a \in Seq(E), NEW b \in Seq(E), NEW w \in Windows(a, b),
         NEW s, BlockChain(a, b, w, s)
  PROVE  /\ MatchSize(s) \in Nat /\ Quick(a, b) \in Nat /\ Min({Len(a), Len(b)}) \in Nat
         /\ MatchSize(s) <= Quick(a, b)
         /\ MatchSize(s) <= Min({Len(a), Len(b)})
<1>1. PICK m \in Nat, l \in Nat, n \in Nat : m = Len(a) /\ n = Len(b) /\ l = MatchSize(s)
  BY LenProperties, MatchedPairs
<1>2. PICK R : R = PairsIn(s)
  OBVIOUS
<1>3. /\ l <= Cardinality(R) /\ OneEach(R)
      /\ \A p \in R : p[1] \in 1 .. m /\ p[2] \in 1 .. n /\ a[p[1]] = b[p[2]]
  BY <1>1, <1>2, MatchedPairs
<1>4. ASSUME NEW Q \in SUBSET R, NEW T, IsFiniteSet(T), \A p \in Q : p[1] \in T
      PROVE  IsFiniteSet(Q) /\ Cardinality(Q) \in Nat /\ Cardinality(Q) <= Cardinality(T)
  <2>1. PICK f : f = [p \in Q |-> p[1]]
    OBVIOUS
  <2>2. f \in [Q -> T]
    BY <1>4, <2>1
  <2>3. \A p, q \in Q : f[p] = f[q] => p = q
    BY <1>3, <2>1 DEF OneEach
  <2> QED BY <1>4, <2>2, <2>3, OneToOne
<1>5. ASSUME NEW Q \in SUBSET R, NEW T, IsFiniteSet(T), \A p \in Q : p[2] \in T
      PROVE  Cardinality(Q) <= Cardinality(T)
  <2>1. PICK f : f = [p \in Q |-> p[2]]
    OBVIOUS
  <2>2. f \in [Q -> T]
    BY <1>5, <2>1
  <2>3. \A p, q \in Q : f[p] = f[q] => p = q
    BY <1>3, <2>1 DEF OneEach
  <2> QED BY <1>5, <2>2, <2>3, OneToOne
<1>6. IsFiniteSet(1 .. m) /\ Cardinality(1 .. m) = m /\ IsFiniteSet(1 .. n) /\ Cardinality(1 .. n) = n
  BY FS_Interval
<1>7. Cardinality(R) \in Nat /\ Cardinality(R) <= m /\ Cardinality(R) <= n
  <2>1. R \in SUBSET R
    OBVIOUS
  <2>2. Cardinality(R) \in Nat /\ Cardinality(R) <= m
    BY <1>3, <1>4, <1>6, <2>1
  <2>3. Cardinality(R) <= n
    BY <1>3, <1>5, <1>6, <2>1
  <2> QED BY <2>2, <2>3
<1>8. Min({m, n}) \in Nat /\ l <= Min({m, n})
  <2>1. Min({m, n}) \in Nat /\ Min({m, n}) \in {m, n}
    BY MinOfTwo
  <2>2. l <= m /\ l <= n
    BY <1>3, <1>7
  <2> QED BY <2>1, <2>2
<1>9. /\ DOMAIN a = 1 .. m /\ DOMAIN b = 1 .. n
  BY <1>1, LenProperties
<1>10. PICK X : X = Range(a)
  OBVIOUS
<1>11. IsFiniteSet(X)
  <2>1. a \in Surjection(1 .. m, X)
    BY <1>9, <1>10, a \in [1 .. m -> X] DEF Surjection, Range
  <2> QED BY <1>6, <2>1, FS_Surjection
<1>12. \A x : /\ Count(a, x) \in Nat /\ Count(b, x) \in Nat
             /\ \A Q \in SUBSET R : (\A p \in Q : a[p[1]] = x)
                  => /\ IsFiniteSet(Q) /\ Cardinality(Q) \in Nat
                     /\ Cardinality(Q) <= Count(a, x) /\ Cardinality(Q) <= Count(b, x)
  <2> TAKE x
  <2>1. PICK A, B : A = { i \in 1 .. m : a[i] = x } /\ B = { i \in 1 .. n : b[i] = x }
    OBVIOUS
  <2>2. Count(a, x) = Cardinality(A) /\ Count(b, x) = Cardinality(B)
    BY <1>9, <2>1 DEF Count
  <2>3. IsFiniteSet(A) /\ IsFiniteSet(B)
    <3>1. A \in SUBSET (1 .. m) /\ B \in SUBSET (1 .. n)
      BY <2>1
    <3> QED BY <1>6, <3>1, FS_Subset
  <2>4. ASSUME NEW Q \in SUBSET R, \A p \in Q : a[p[1]] = x
        PROVE  /\ IsFiniteSet(Q) /\ Cardinality(Q) \in Nat
               /\ Cardinality(Q) <= Cardinality(A) /\ Cardinality(Q) <= Cardinality(B)
    <3>1. \A p \in Q : p[1] \in A /\ p[2] \in B
      BY <1>3, <2>1, <2>4
    <3>2. IsFiniteSet(Q) /\ Cardinality(Q) \in Nat /\ Cardinality(Q) <= Cardinality(A)
      BY <1>4, <2>3, <3>1
    <3>3. Cardinality(Q) <= Cardinality(B)
      BY <1>5, <2>3, <3>1
    <3> QED BY <3>2, <3>3
  <2>5. Cardinality(A) \in Nat /\ Cardinality(B) \in Nat
    BY <2>3, FS_CardinalityType
  <2> QED BY <2>2, <2>4, <2>5
<1>13. PICK F : F = [x \in X |-> Min({Count(a, x), Count(b, x)})]
  OBVIOUS
<1>14. PICK H : H = [x \in X |-> { p \in R : a[p[1]] = x }]
  OBVIOUS
<1>15. ASSUME NEW x \in X
       PROVE  F[x] \in Nat /\ IsFiniteSet(H[x]) /\ Cardinality(H[x]) <= F[x]
  <2>1. PICK c \in Nat, d \in Nat : c = Count(a, x) /\ d = Count(b, x)
    BY <1>12
  <2>2. F[x] = Min({c, d})
    BY <1>13, <2>1
  <2>3. Min({c, d}) \in Nat /\ Min({c, d}) \in {c, d}
    BY MinOfTwo
  <2>4. PICK Q : Q = H[x]
    OBVIOUS
  <2>5. Q \in SUBSET R /\ \A p \in Q : a[p[1]] = x
    BY <1>14, <2>4
  <2>6. IsFiniteSet(Q) /\ Cardinality(Q) \in Nat /\ Cardinality(Q) <= c /\ Cardinality(Q) <= d
    BY <1>12, <2>1, <2>5
  <2> QED BY <2>2, <2>3, <2>4, <2>6
<1>16. All(H, X) = R
  <2>1. \A p \in R : a[p[1]] \in X /\ p \in H[a[p[1]]]
    <3> TAKE p \in R
    <3>1. p[1] \in DOMAIN a
      BY <1>3, <1>9
    <3>2. a[p[1]] \in X
      BY <1>10, <3>1 DEF Range
    <3> QED BY <1>14, <3>2
  <2>2. \A x \in X : H[x] \subseteq R
    BY <1>14
  <2> QED BY <2>1, <2>2 DEF All
<1>17. SumFunction(F) \in Nat /\ Cardinality(R) <= SumFunction(F)
  <2>1. DOMAIN F = X /\ \A x \in X : F[x] \in Nat /\ IsFiniteSet(H[x])
    BY <1>13, <1>15
  <2>2. Cardinality(All(H, X)) <= SumFunction(F) /\ SumFunction(F) \in Nat
    BY <1>11, <1>15, <2>1, SumBounds
  <2> QED BY <1>16, <2>2
<1>18. Quick(a, b) = SumFunction(F)
  BY <1>10, <1>13 DEF Quick
<1>19. l <= SumFunction(F)
  BY <1>3, <1>7, <1>17
<1> QED BY <1>1, <1>8, <1>17, <1>18, <1>19

-----------------------------------------------------------------------------
(* Ratios: Greater compares fractions.                                     *)
Fraction(r) == r[1] \in Nat /\ r[2] \in Nat \ {0}

(* Products keep the order of their factors.                               *)
LEMMA MulMonotone ==
  ASSUME NEW x \in Nat, NEW y \in Nat, NEW z \in Nat, x <= y
  PROVE  x * z <= y * z /\ z * x <= z * y
<1>1. PICK d \in Nat : y = x + d
  <2>1. y - x \in Nat /\ y = x + (y - x)
    OBVIOUS
  <2> QED BY <2>1
<1>2. y * z = x * z + d * z /\ d * z \in Nat /\ x * z \in Nat
  BY <1>1
<1>3. z * x = x * z /\ z * y = y * z
  OBVIOUS
<1> QED BY <1>2, <1>3

LEMMA MulCancel ==
  ASSUME NEW x \in Nat, NEW y \in Nat, NEW z \in Nat, x * z < y * z
  PROVE  x < y
<1>1. CASE y <= x
  <2>1. y * z <= x * z
    BY <1>1, MulMonotone
  <2> QED BY <2>1
<1> QED BY <1>1

LEMMA MulStrict ==
  ASSUME NEW x \in Nat, NEW y \in Nat, NEW z \in Nat \ {0}, x < y
  PROVE  x * z < y * z
<1>1. (x + 1) * z <= y * z
  BY MulMonotone
<1>2. (x + 1) * z = x * z + z /\ x * z \in Nat
  OBVIOUS
<1> QED BY <1>1, <1>2

(* What exceeds a fraction exceeds all that do not exceed it.              *)
LEMMA GreaterThanAll ==
  ASSUME NEW o, Fraction(o), NEW q, Fraction(q), NEW r, Fraction(r),
         ~ Greater(q, o), Greater(r, o)
  PROVE  Greater(r, q) /\ ~ Greater(q, r)
<1>1. PICK a \in Nat, b \in Nat \ {0} : a = o[1] /\ b = o[2]
  BY DEF Fraction
<1>2. PICK c \in Nat, d \in Nat \ {0} : c = q[1] /\ d = q[2]
  BY DEF Fraction
<1>3. PICK e \in Nat, f \in Nat \ {0} : e = r[1] /\ f = r[2]
  BY DEF Fraction
<1>4. c * b <= a * d /\ a * f < e * b
  BY <1>1, <1>2, <1>3 DEF Greater
<1>5. PICK cb \in Nat, ad \in Nat, af \in Nat, eb \in Nat :
        cb = c * b /\ ad = a * d /\ af = a * f /\ eb = e * b
  OBVIOUS
<1>6. cb * f <= ad * f
  BY <1>4, <1>5, MulMonotone
<1>7. af * d < eb * d
  BY <1>4, <1>5, MulStrict
<1>8. ad * f = af * d
  BY <1>5
<1>9. PICK cf \in Nat, ed \in Nat : cf = c * f /\ ed = e * d
  OBVIOUS
<1>10. cb * f = cf * b /\ eb * d = ed * b
  BY <1>5, <1>9
<1>11. cf * b < ed * b
  <2>1. PICK x \in Nat, y \in Nat, z \in Nat, v \in Nat :
          x = cb * f /\ y = ad * f /\ z = af * d /\ v = eb * d
    OBVIOUS
  <2>2. x <= y /\ z < v /\ y = z
    BY <1>6, <1>7, <1>8, <2>1
  <2>3. x < v
    BY <2>2
  <2> QED BY <1>10, <2>1, <2>3
<1>12. cf < ed
  BY <1>11, MulCancel
<1>13. r[1] * q[2] > q[1] * r[2]
  BY <1>2, <1>3, <1>9, <1>12
<1>14. ~ (q[1] * r[2] > r[1] * q[2])
  BY <1>2, <1>3, <1>9, <1>12
<1> QED BY <1>13, <1>14 DEF Greater

(* More matches, a greater ratio.                                          *)
LEMMA RatioBounds ==
  ASSUME NEW E, NEW a \in Seq(E), NEW b \in Seq(E), NEW n \in Nat, NEW m \in Nat, n <= m,
         NEW r, Fraction(r)
  PROVE  /\ Fraction(Ratio(n, a, b))
         /\ Greater(Ratio(n, a, b), r) => Greater(Ratio(m, a, b), r)
<1>1. PICK l \in Nat : l = Len(a) + Len(b)
  <2>1. Len(a) \in Nat /\ Len(b) \in Nat
    BY LenProperties
  <2> QED BY <2>1
<1>2. \A k \in Nat : Ratio(k, a, b) = IF l = 0 THEN <<1, 1>> ELSE <<2 * k, l>>
  BY <1>1 DEF Ratio
<1>3. CASE l = 0
  <2>1. Ratio(n, a, b) = <<1, 1>> /\ Ratio(m, a, b) = Ratio(n, a, b)
    BY <1>2, <1>3
  <2>2. Fraction(<<1, 1>>)
    BY DEF Fraction
  <2> QED BY <2>1, <2>2
<1>4. CASE l # 0
  <2>1. Ratio(n, a, b) = <<2 * n, l>> /\ Ratio(m, a, b) = <<2 * m, l>>
    BY <1>2, <1>4
  <2>2. Fraction(Ratio(n, a, b))
    BY <1>4, <2>1 DEF Fraction
  <2>3. PICK x \in Nat, y \in Nat : x = r[1] /\ y = r[2]
    BY DEF Fraction
  <2>4. PICK p \in Nat, q \in Nat : p = 2 * n /\ q = 2 * m
    OBVIOUS
  <2>5. p * y <= q * y
    BY <2>4, MulMonotone
  <2>6. PICK u \in Nat, v \in Nat, z \in Nat : u = p * y /\ v = q * y /\ z = x * l
    OBVIOUS
  <2>7. (u > z) => (v > z)
    BY <2>5, <2>6
  <2>8. (Greater(Ratio(n, a, b), r) <=> u > z) /\ (Greater(Ratio(m, a, b), r) <=> v > z)
    BY <2>1, <2>3, <2>4, <2>6 DEF Greater
  <2> QED BY <2>2, <2>7, <2>8
<1> QED BY <1>3, <1>4

(* The ratio of two tokens, by their matching blocks.                      *)
RatioOf(a, b) == Ratio(MatchSize(TokenBlocks[<<a, b>>]), a, b)

(* Neither bound turns away a pair whose ratio is greater.                 *)
LEMMA RatioOfTokens ==
  ASSUME NEW a \in Token, NEW b \in Token, NEW r, Fraction(r)
  PROVE  /\ Fraction(RatioOf(a, b))
         /\ Greater(RatioOf(a, b), r) =>
              /\ Greater(Ratio(Quick(a, b), a, b), r)
              /\ Greater(Ratio(Min({Len(a), Len(b)}), a, b), r)
<1>1. PICK E : a \in Seq(E) /\ b \in Seq(E)
  <2>1. a \in Seq(Range(a)) /\ b \in Seq(Range(b))
    BY DifferAssumption
  <2>2. PICK E : E = Range(a) \cup Range(b)
    OBVIOUS
  <2>3. \A s : s \in Seq(Range(a)) \/ s \in Seq(Range(b)) => s \in Seq(E)
    BY <2>2
  <2> QED BY <2>1, <2>3
<1>2. PICK s : s = TokenBlocks[<<a, b>>]
  OBVIOUS
<1>3. s = get_matching_blocks(a, b, Popular(b))
  <2>1. PICK S : S = Token \cup {<< >>}
    OBVIOUS
  <2>2. <<a, b>> \in S \X S
    BY <2>1
  <2> QED BY <1>2, <2>1, <2>2 DEF TokenBlocks, Table
<1>4. PICK w \in Windows(a, b) : BlockChain(a, b, w, s)
  BY <1>1, <1>3, MatchingBlocks
<1>5. PICK n \in Nat, k \in Nat, l \in Nat :
        /\ n = MatchSize(s) /\ k = Quick(a, b) /\ l = Min({Len(a), Len(b)}) /\ n <= k /\ n <= l
  BY <1>1, <1>4, MatchesBounded
<1>6. /\ Fraction(Ratio(n, a, b))
      /\ Greater(Ratio(n, a, b), r) => Greater(Ratio(k, a, b), r)
  BY <1>1, <1>5, RatioBounds
<1>7. Greater(Ratio(n, a, b), r) => Greater(Ratio(l, a, b), r)
  BY <1>1, <1>5, RatioBounds
<1>8. RatioOf(a, b) = Ratio(n, a, b)
  BY <1>2, <1>5 DEF RatioOf
<1> QED BY <1>5, <1>6, <1>7, <1>8

(* The scan so far, for texts a and b: of the pairs before (i, j) in the   *)
(* order of the loops, p is the closest one that is close enough, r its    *)
(* ratio.                                                                  *)
Ahead(p, q) == p[2] < q[2] \/ (p[2] = q[2] /\ p[1] < q[1])
PairRatio(a, b, p) == RatioOf(a[p[1]], b[p[2]])
Chosen(a, b, w, i, j, r, p) ==
  /\ p \in Cells(w) /\ a[p[1]] # b[p[2]] /\ Ahead(p, <<i, j>>)
  /\ r = PairRatio(a, b, p) /\ Greater(r, <<74, 100>>)
ClosestSoFar(a, b, w, i, j, r, p) ==
  /\ Fraction(r)
  /\ (p = <<0, 0>> /\ r = <<74, 100>>) \/ Chosen(a, b, w, i, j, r, p)
  /\ \A q \in Cells(w) : a[q[1]] # b[q[2]] /\ Ahead(q, <<i, j>>) =>
       /\ ~ Greater(PairRatio(a, b, q), r)
       /\ p \in Cells(w) /\ Ahead(q, p) => Greater(r, PairRatio(a, b, q))

(* The pair after (i, j), row by row.                                      *)
GoesOn(w, i, j, k, l) ==
  \/ k = i + 1 /\ l = j /\ i + 1 < w.ahi
  \/ k = w.alo /\ l = j + 1 /\ ~ (i + 1 < w.ahi)

(* The pair that the scan passes is the only one between the two.          *)
LEMMA NextInOrder ==
  ASSUME NEW E, NEW a \in Seq(E), NEW b \in Seq(E), NEW w \in Windows(a, b),
         NEW i, NEW j, <<i, j>> \in Cells(w), NEW k, NEW l,
         GoesOn(w, i, j, k, l)
  PROVE  /\ Ahead(<<i, j>>, <<k, l>>)
         /\ \A q \in Cells(w) : Ahead(q, <<k, l>>) <=> Ahead(q, <<i, j>>) \/ q = <<i, j>>
         /\ \A q \in Cells(w) : q = <<i, j>> \/ Ahead(q, <<i, j>>) => ~ Ahead(<<i, j>>, q)
<1>1. PICK alo \in Nat, ahi \in Nat, blo \in Nat, bhi \in Nat :
        w.alo = alo /\ w.ahi = ahi /\ w.blo = blo /\ w.bhi = bhi
  BY WindowType
<1>2. i \in Nat /\ j \in Nat /\ alo <= i /\ i < ahi
  <2>1. PICK p : p = <<i, j>>
    OBVIOUS
  <2>2. p \in Cells(w) /\ p[1] = i /\ p[2] = j
    BY <2>1
  <2>3. p[1] \in Nat /\ p[2] \in Nat /\ w.alo <= p[1] /\ p[1] < w.ahi
    BY <2>2, CellType
  <2> QED BY <1>1, <2>2, <2>3
<1>3. /\ k \in Nat /\ l \in Nat
      /\ \/ k = i + 1 /\ l = j /\ i + 1 < ahi
         \/ k = alo /\ l = j + 1 /\ ~ (i + 1 < ahi)
  BY <1>1, <1>2 DEF GoesOn
<1>4. Ahead(<<i, j>>, <<k, l>>)
  BY <1>2, <1>3 DEF Ahead
<1>5. ASSUME NEW q \in Cells(w)
      PROVE  /\ Ahead(q, <<k, l>>) <=> Ahead(q, <<i, j>>) \/ q = <<i, j>>
             /\ q = <<i, j>> \/ Ahead(q, <<i, j>>) => ~ Ahead(<<i, j>>, q)
  <2>1. PICK x \in Nat, y \in Nat : q = <<x, y>> /\ alo <= x /\ x < ahi
    <3>1. q = <<q[1], q[2]>> /\ q[1] \in Nat /\ q[2] \in Nat /\ w.alo <= q[1] /\ q[1] < w.ahi
      BY CellType
    <3> QED BY <1>1, <3>1
  <2>2. q = <<i, j>> <=> x = i /\ y = j
    BY <2>1
  <2>3. /\ Ahead(q, <<k, l>>) <=> (y < l \/ (y = l /\ x < k))
        /\ Ahead(q, <<i, j>>) <=> (y < j \/ (y = j /\ x < i))
        /\ Ahead(<<i, j>>, q) <=> (j < y \/ (j = y /\ i < x))
    BY <2>1 DEF Ahead
  <2>4. (y < l \/ (y = l /\ x < k)) <=> (y < j \/ (y = j /\ x < i) \/ (x = i /\ y = j))
    BY <1>2, <1>3, <2>1
  <2>5. (x = i /\ y = j) \/ y < j \/ (y = j /\ x < i) => ~ (j < y \/ (j = y /\ i < x))
    BY <1>2, <2>1
  <2> QED BY <2>2, <2>3, <2>4, <2>5
<1> QED BY <1>4, <1>5

(* One pair on: a pair of different tokens is taken if it is closer.       *)
LEMMA ClosestNext ==
  ASSUME NEW a \in Seq(Token), NEW b \in Seq(Token), NEW w \in Windows(a, b),
         NEW i, NEW j, NEW r, NEW p, ClosestSoFar(a, b, w, i, j, r, p),
         <<i, j>> \in Cells(w), NEW k, NEW l,
         GoesOn(w, i, j, k, l),
         NEW s, NEW q,
         IF a[i] # b[j] /\ Greater(RatioOf(a[i], b[j]), r)
           THEN s = RatioOf(a[i], b[j]) /\ q = <<i, j>> ELSE s = r /\ q = p
  PROVE  ClosestSoFar(a, b, w, k, l, s, q)
<1>1. PICK x : x = <<i, j>>
  OBVIOUS
<1>2. x \in Cells(w) /\ x[1] = i /\ x[2] = j
  BY <1>1
<1>3. /\ Ahead(x, <<k, l>>)
      /\ \A c \in Cells(w) : Ahead(c, <<k, l>>) <=> Ahead(c, x) \/ c = x
      /\ \A c \in Cells(w) : c = x \/ Ahead(c, x) => ~ Ahead(x, c)
  <2>1. /\ Ahead(<<i, j>>, <<k, l>>)
        /\ \A c \in Cells(w) : Ahead(c, <<k, l>>) <=> Ahead(c, <<i, j>>) \/ c = <<i, j>>
        /\ \A c \in Cells(w) : c = <<i, j>> \/ Ahead(c, <<i, j>>) => ~ Ahead(<<i, j>>, c)
    BY NextInOrder
  <2> QED BY <1>1, <2>1
<1>4. /\ Fraction(r)
      /\ (p = <<0, 0>> /\ r = <<74, 100>>) \/ Chosen(a, b, w, i, j, r, p)
      /\ \A c \in Cells(w) : a[c[1]] # b[c[2]] /\ Ahead(c, x) =>
           /\ ~ Greater(PairRatio(a, b, c), r)
           /\ p \in Cells(w) /\ Ahead(c, p) => Greater(r, PairRatio(a, b, c))
  BY <1>1 DEF ClosestSoFar
<1>5. \A c \in Cells(w) : Fraction(PairRatio(a, b, c))
  <2> TAKE c \in Cells(w)
  <2>1. a[c[1]] \in Token /\ b[c[2]] \in Token
    <3>1. /\ c[1] \in Nat /\ c[2] \in Nat
          /\ w.alo <= c[1] /\ c[1] < w.ahi /\ w.blo <= c[2] /\ c[2] < w.bhi
      BY CellType
    <3>2. /\ w.alo \in Nat /\ w.ahi \in Nat /\ w.blo \in Nat /\ w.bhi \in Nat
          /\ 1 <= w.alo /\ w.ahi <= Len(a) + 1 /\ 1 <= w.blo /\ w.bhi <= Len(b) + 1
          /\ Len(a) \in Nat /\ Len(b) \in Nat
      BY WindowType
    <3>3. c[1] \in 1 .. Len(a) /\ c[2] \in 1 .. Len(b)
      BY <3>1, <3>2
    <3> QED BY <3>3, LenProperties
  <2>2. Fraction(<<74, 100>>)
    BY DEF Fraction
  <2> QED BY <2>1, <2>2, RatioOfTokens DEF PairRatio
<1>6. PICK t : t = PairRatio(a, b, x)
  OBVIOUS
<1>7. t = RatioOf(a[i], b[j]) /\ Fraction(t)
  BY <1>2, <1>5, <1>6 DEF PairRatio
<1>8. Fraction(<<74, 100>>)
  BY DEF Fraction
<1>9. CASE a[i] # b[j] /\ Greater(t, r)
  <2>1. s = t /\ q = x
    BY <1>1, <1>7, <1>9
  <2>2. Greater(t, <<74, 100>>)
    <3>1. CASE r = <<74, 100>>
      BY <1>9, <3>1
    <3>2. CASE Chosen(a, b, w, i, j, r, p)
      <4>1. Greater(r, <<74, 100>>)
        BY <3>2 DEF Chosen
      <4>2. ~ Greater(<<74, 100>>, r)
        <5>1. PICK o : o = <<74, 100>>
          OBVIOUS
        <5>2. ~ Greater(o, o)
          BY <5>1 DEF Greater
        <5>3. Fraction(o) /\ Greater(r, o)
          BY <1>8, <4>1, <5>1
        <5>4. ~ Greater(o, r)
          BY <1>4, <5>2, <5>3, GreaterThanAll
        <5> QED BY <5>1, <5>4
      <4>3. PICK o : o = <<74, 100>>
        OBVIOUS
      <4>4. Fraction(o) /\ ~ Greater(o, r) /\ Greater(t, r)
        BY <1>8, <1>9, <4>2, <4>3
      <4>5. Greater(t, o)
        BY <1>4, <1>7, <4>4, GreaterThanAll
      <4> QED BY <4>3, <4>5
    <3> QED BY <1>4, <3>1, <3>2
  <2>3. Chosen(a, b, w, k, l, t, x)
    BY <1>2, <1>3, <1>6, <1>9, <2>2 DEF Chosen
  <2>4. ASSUME NEW c \in Cells(w), a[c[1]] # b[c[2]], Ahead(c, <<k, l>>)
        PROVE  /\ ~ Greater(PairRatio(a, b, c), t)
               /\ Ahead(c, x) => Greater(t, PairRatio(a, b, c))
    <3>1. CASE c = x
      <4>1. ~ Greater(t, t)
        <5>1. PICK m \in Nat, n \in Nat : m = t[1] /\ n = t[2]
          BY <1>7 DEF Fraction
        <5> QED BY <5>1 DEF Greater
      <4>2. ~ Ahead(c, x)
        BY <1>3, <3>1
      <4> QED BY <1>6, <3>1, <4>1, <4>2
    <3>2. CASE Ahead(c, x)
      <4>1. ~ Greater(PairRatio(a, b, c), r)
        BY <1>4, <2>4, <3>2
      <4>2. PICK u : u = PairRatio(a, b, c)
        OBVIOUS
      <4>3. Fraction(u) /\ ~ Greater(u, r)
        BY <1>5, <4>1, <4>2
      <4>4. Greater(t, u) /\ ~ Greater(u, t)
        BY <1>4, <1>7, <1>9, <4>3, GreaterThanAll
      <4> QED BY <4>2, <4>4
    <3> QED BY <1>3, <2>4, <3>1, <3>2
  <2> QED BY <1>7, <2>1, <2>3, <2>4 DEF ClosestSoFar
<1>10. CASE ~ (a[i] # b[j] /\ Greater(t, r))
  <2>1. s = r /\ q = p
    BY <1>7, <1>10
  <2>2. (p = <<0, 0>> /\ r = <<74, 100>>) \/ Chosen(a, b, w, k, l, r, p)
    <3>1. CASE Chosen(a, b, w, i, j, r, p)
      <4>1. p \in Cells(w) /\ Ahead(p, x)
        BY <1>1, <3>1 DEF Chosen
      <4>2. Ahead(p, <<k, l>>)
        BY <1>3, <4>1
      <4> QED BY <3>1, <4>2 DEF Chosen
    <3> QED BY <1>4, <3>1
  <2>3. ASSUME NEW c \in Cells(w), a[c[1]] # b[c[2]], Ahead(c, <<k, l>>)
        PROVE  /\ ~ Greater(PairRatio(a, b, c), r)
               /\ p \in Cells(w) /\ Ahead(c, p) => Greater(r, PairRatio(a, b, c))
    <3>1. CASE Ahead(c, x)
      BY <1>4, <2>3, <3>1
    <3>2. CASE c = x
      <4>1. ~ Greater(PairRatio(a, b, c), r)
        BY <1>2, <1>6, <1>10, <2>3, <3>2
      <4>2. ~ (p \in Cells(w) /\ Ahead(c, p))
        <5> SUFFICES ASSUME p \in Cells(w), Ahead(x, p) PROVE FALSE
          BY <3>2
        <5>1. <<0, 0>> \notin Cells(w)
          <6>1. PICK z : z = <<0, 0>>
            OBVIOUS
          <6>2. z[1] = 0
            BY <6>1
          <6>3. 1 <= w.alo /\ w.alo \in Nat
            BY WindowType
          <6>4. z \in Cells(w) => w.alo <= z[1]
            BY CellType
          <6>5. z \notin Cells(w)
            BY <6>2, <6>3, <6>4
          <6> QED BY <6>1, <6>5
        <5>2. Chosen(a, b, w, i, j, r, p)
          BY <1>4, <5>1
        <5>3. Ahead(p, x)
          BY <1>1, <5>2 DEF Chosen
        <5> QED BY <1>3, <5>3
      <4> QED BY <4>1, <4>2
    <3> QED BY <1>3, <2>3, <3>1, <3>2
  <2> QED BY <1>4, <2>1, <2>2, <2>3 DEF ClosestSoFar
<1> QED BY <1>9, <1>10

(* The inductive invariant of the scan: the best pair so far, and the      *)
(* matcher holds the token of its row.                                     *)
ClosestInv ==
  probe.on =>
    /\ ClosestSoFar(text_prev, text_curr, probe.w, probe.i, probe.j, probe.best_ratio, probe.best)
    /\ Scanning => char_cruncher.b = text_curr[probe.j]

(* Before the first pair.                                                  *)
LEMMA ClosestFirst ==
  ASSUME NEW E, NEW a \in Seq(E), NEW b \in Seq(E), NEW w \in Windows(a, b)
  PROVE  ClosestSoFar(a, b, w, w.alo, w.blo, <<74, 100>>, <<0, 0>>)
<1>1. PICK alo \in Nat, blo \in Nat : alo = w.alo /\ blo = w.blo
  BY WindowType
<1>2. ASSUME NEW q \in Cells(w) PROVE ~ Ahead(q, <<alo, blo>>)
  <2>1. PICK x \in Nat, y \in Nat : x = q[1] /\ y = q[2] /\ alo <= x /\ blo <= y
    BY <1>1, CellType
  <2>2. ~ (y < blo \/ (y = blo /\ x < alo))
    BY <2>1
  <2> QED BY <2>1, <2>2 DEF Ahead
<1>3. Fraction(<<74, 100>>)
  BY DEF Fraction
<1> QED BY <1>1, <1>2, <1>3 DEF ClosestSoFar

(* One lemma per action: a scan starts.                                    *)
LEMMA FancyReplaceCloses == DifferInv /\ CruncherInv /\ FancyReplace => ClosestInv'
<1> SUFFICES ASSUME DifferInv, CruncherInv, FancyReplace PROVE ClosestInv'
  OBVIOUS
<1>1. Inputs /\ TranscriptInv /\ todo # << >> /\ UNCHANGED input
  BY DEF DifferInv, FancyReplace
<1>2. PICK w \in Windows(text_prev, text_curr) : w = Head(todo).at
  BY <1>1, FirstItem
<1>3. PICK a, b : a = text_prev /\ b = text_curr
  OBVIOUS
<1>4. a \in Seq(Token) /\ b \in Seq(Token) /\ w \in Windows(a, b) /\ text_prev' = a /\ text_curr' = b
  BY <1>1, <1>3, TextType DEF Inputs, input
<1>5. PICK i, j, r, p : i = w.alo /\ j = w.blo /\ r = <<74, 100>> /\ p = <<0, 0>>
  OBVIOUS
<1>6. ClosestSoFar(a, b, w, i, j, r, p)
  <2>1. ClosestSoFar(a, b, w, w.alo, w.blo, <<74, 100>>, <<0, 0>>)
    BY <1>4, ClosestFirst
  <2> QED BY <1>5, <2>1
<1>7. probe' = Scan(TRUE, w, i, j, r, p, <<0, 0>>)
  BY <1>2, <1>5 DEF FancyReplace, Scan
<1>8. probe'.w = w /\ probe'.i = i /\ probe'.j = j /\ probe'.best_ratio = r /\ probe'.best = p
  BY <1>7 DEF Scan
<1>9. char_cruncher'.b = b[j]
  <2>1. PICK x : x = b[j]
    OBVIOUS
  <2>2. char_cruncher' = set_seq2(char_cruncher, x)
    BY <1>2, <1>3, <1>5, <2>1 DEF FancyReplace
  <2>3. set_seq2(char_cruncher, x).b = x
    BY FreshSet DEF CruncherInv
  <2> QED BY <2>1, <2>2, <2>3
<1> QED BY <1>4, <1>6, <1>8, <1>9 DEF ClosestInv

(* One pair on in the scan, with what is now the best and its ratio, and   *)
(* the cruncher on its way.                                                *)
LEMMA ScanCloses ==
  ASSUME DifferInv, ClosestInv, Scanning, NEW s, NEW q, NEW e, NEW c, Fresh(c),
         c.b = text_curr[probe.j],
         IF /\ text_prev[probe.i] # text_curr[probe.j]
            /\ Greater(RatioOf(text_prev[probe.i], text_curr[probe.j]), probe.best_ratio)
           THEN s = RatioOf(text_prev[probe.i], text_curr[probe.j]) /\ q = <<probe.i, probe.j>>
           ELSE s = probe.best_ratio /\ q = probe.best,
         probe' = NextPair(Scan(probe.on, probe.w, probe.i, probe.j, s, q, e)),
         char_cruncher' = IF probe'.j = probe.j \/ ~ (probe'.j < probe.w.bhi) THEN c
                          ELSE set_seq2(c, text_curr[probe'.j]),
         UNCHANGED input
  PROVE  ClosestInv'
<1>1. PICK a, b : a = text_prev /\ b = text_curr
  OBVIOUS
<1>2. /\ a \in Seq(Token) /\ b \in Seq(Token) /\ probe.w \in Windows(a, b)
      /\ text_prev' = a /\ text_curr' = b
  BY <1>1, TextType DEF DifferInv, Inputs, ProbeInv, Scanning, input
<1>3. PICK w \in Windows(a, b) : w = probe.w
  BY <1>2
<1>4. PICK o, i, j, r, p : /\ o = probe.on /\ i = probe.i /\ j = probe.j
                           /\ r = probe.best_ratio /\ p = probe.best
  OBVIOUS
<1>5. ClosestSoFar(a, b, w, i, j, r, p)
  BY <1>1, <1>3, <1>4 DEF ClosestInv, Scanning
<1>6. <<i, j>> \in Cells(w)
  BY <1>3, <1>4, PairInWindow
<1>7. IF a[i] # b[j] /\ Greater(RatioOf(a[i], b[j]), r)
        THEN s = RatioOf(a[i], b[j]) /\ q = <<i, j>> ELSE s = r /\ q = p
  BY <1>1, <1>4
<1>8. \E k, l : GoesOn(w, i, j, k, l) /\ probe' = Scan(o, w, k, l, s, q, e)
  <2>1. PICK v : v = Scan(o, w, i, j, s, q, e)
    OBVIOUS
  <2>2. NextPair(v) = IF i + 1 < w.ahi THEN Scan(o, w, i + 1, j, s, q, e)
                      ELSE Scan(o, w, w.alo, j + 1, s, q, e)
    BY <2>1, ScanNext
  <2>3. probe' = NextPair(v)
    BY <1>3, <1>4, <2>1
  <2> QED BY <2>2, <2>3 DEF GoesOn
<1>9. PICK k, l : GoesOn(w, i, j, k, l) /\ probe' = Scan(o, w, k, l, s, q, e)
  BY <1>8
<1>10. ClosestSoFar(a, b, w, k, l, s, q)
  BY <1>2, <1>5, <1>6, <1>7, <1>9, ClosestNext
<1>11. probe'.w = w /\ probe'.i = k /\ probe'.j = l /\ probe'.best_ratio = s /\ probe'.best = q
  BY <1>9 DEF Scan
<1>12. ASSUME l < w.bhi PROVE char_cruncher'.b = b[l]
  <2>1. CASE l = j
    BY <1>1, <1>4, <1>11, <2>1
  <2>2. CASE l # j
    <3>1. PICK x : x = b[l]
      OBVIOUS
    <3>2. char_cruncher' = set_seq2(c, x)
      BY <1>1, <1>3, <1>4, <1>11, <1>12, <2>2, <3>1
    <3> QED BY <3>1, <3>2, FreshSet
  <2> QED BY <2>1, <2>2
<1>13. ClosestSoFar(text_prev, text_curr, probe.w, probe.i, probe.j, probe.best_ratio, probe.best)'
  BY <1>2, <1>10, <1>11
<1>14. (Scanning => char_cruncher.b = text_curr[probe.j])'
  BY <1>2, <1>11, <1>12 DEF Scanning
<1> QED BY <1>13, <1>14 DEF ClosestInv

(* An identical pair does not compete.                                     *)
LEMMA ProbeSameCloses == DifferInv /\ CruncherInv /\ ClosestInv /\ ProbeSame => ClosestInv'
<1> SUFFICES ASSUME DifferInv, CruncherInv, ClosestInv, ProbeSame PROVE ClosestInv'
  OBVIOUS
<1>1. Scanning /\ text_prev[probe.i] = text_curr[probe.j]
  BY DEF ProbeSame, Same
<1>2. PICK r, p, e, o, w, i, j :
        /\ r = probe.best_ratio /\ p = probe.best /\ e = probe.eq
        /\ o = probe.on /\ w = probe.w /\ i = probe.i /\ j = probe.j
  OBVIOUS
<1>3. PICK s : s = probe
  OBVIOUS
<1>4. PICK x : x = <<i, j>>
  OBVIOUS
<1>5. s = Scan(o, w, i, j, r, p, e)
  BY <1>1, <1>2, <1>3, PairInWindow
<1>6. probe' = NextPair(IF e = <<0, 0>> THEN [s EXCEPT !.eq = x] ELSE s)
  BY <1>2, <1>3, <1>4 DEF ProbeSame, GoOn
<1>7. [s EXCEPT !.eq = x] = Scan(o, w, i, j, r, p, x)
  BY <1>5, ScanEq
<1>8. PICK f : f = IF e = <<0, 0>> THEN x ELSE e
  OBVIOUS
<1>9. probe' = NextPair(Scan(probe.on, probe.w, probe.i, probe.j, r, p, f))
  BY <1>2, <1>5, <1>6, <1>7, <1>8
<1>10. PICK c : c = char_cruncher
  OBVIOUS
<1>11. Fresh(c) /\ c.b = text_curr[probe.j]
  BY <1>1, <1>10 DEF CruncherInv, ClosestInv, Scanning
<1>12. /\ char_cruncher' = IF probe'.j = probe.j \/ ~ (probe'.j < probe.w.bhi) THEN c
                           ELSE set_seq2(c, text_curr[probe'.j])
       /\ UNCHANGED input
  BY <1>10 DEF ProbeSame, GoOn
<1> QED BY <1>1, <1>2, <1>9, <1>11, <1>12, ScanCloses

(* What the cheap bounds rule out is not closer, so a pair is taken just   *)
(* when its ratio is.                                                      *)
LEMMA BetterIs ==
  ASSUME NEW a \in Token, NEW b \in Token, NEW d, Fresh(d), d.a = a, d.b = b,
         Fraction(probe.best_ratio), NEW c, c = Looked(d)
  PROVE  /\ Fresh(c) /\ c.a = a /\ c.b = b
         /\ Better(c) = IF Greater(RatioOf(a, b), probe.best_ratio)
                          THEN NewBest(probe, RatioOf(a, b), <<probe.i, probe.j>>) ELSE probe
<1>1. PICK r : r = probe.best_ratio
  OBVIOUS
<1>2. PICK g : g = (Greater(Ratio(Min({Len(a), Len(b)}), a, b), r) /\ Greater(Ratio(Quick(a, b), a, b), r))
  OBVIOUS
<1>3. \A x : x.a = a /\ x.b = b => (Promising(x) <=> g)
  BY <1>1, <1>2 DEF Promising, real_quick_ratio, quick_ratio, Quick
<1>4. Greater(RatioOf(a, b), r) => g
  BY <1>1, <1>2, RatioOfTokens
<1>5. CASE g
  <2>1. Promising(d)
    BY <1>3, <1>5
  <2>2. c = Crunched(d)
    BY <2>1 DEF Looked
  <2>3. Fresh(c) /\ c.a = a /\ c.b = b /\ c.blocks = {TokenBlocks[<<a, b>>]}
    BY <2>2, FreshCrunched
  <2>4. Promising(c)
    BY <1>3, <1>5, <2>3
  <2>5. The(c.blocks) = TokenBlocks[<<a, b>>]
    BY <2>3 DEF The
  <2>6. ratio(c) = RatioOf(a, b)
    BY <2>3, <2>5 DEF ratio, RatioOf
  <2> QED BY <1>1, <2>3, <2>4, <2>6 DEF Better, NewBest
<1>6. CASE ~ g
  <2>1. ~ Promising(d)
    BY <1>3, <1>6
  <2>2. c = d
    BY <2>1 DEF Looked
  <2>3. Better(c) = probe
    BY <2>1, <2>2 DEF Better
  <2> QED BY <1>1, <1>4, <1>6, <2>2, <2>3
<1> QED BY <1>5, <1>6

(* Another pair does.                                                      *)
LEMMA ProbeOtherCloses == DifferInv /\ CruncherInv /\ ClosestInv /\ ProbeOther => ClosestInv'
<1> SUFFICES ASSUME DifferInv, CruncherInv, ClosestInv, ProbeOther PROVE ClosestInv'
  OBVIOUS
<1>1. Scanning /\ text_prev[probe.i] # text_curr[probe.j]
  BY DEF ProbeOther, Same
<1>2. PICK r, p, e, o, w, i, j :
        /\ r = probe.best_ratio /\ p = probe.best /\ e = probe.eq
        /\ o = probe.on /\ w = probe.w /\ i = probe.i /\ j = probe.j
  OBVIOUS
<1>3. PICK v : v = probe
  OBVIOUS
<1>4. PICK a, b : a = text_prev[i] /\ b = text_curr[j]
  OBVIOUS
<1>5. v = Scan(o, w, i, j, r, p, e)
  BY <1>1, <1>2, <1>3, PairInWindow
<1>6. a \in Token /\ b \in Token
  <2>1. text_prev \in Seq(Token) /\ text_curr \in Seq(Token)
    BY TextType DEF DifferInv, Inputs
  <2>2. w \in Windows(text_prev, text_curr)
    BY <1>1, <1>2 DEF DifferInv, ProbeInv, Scanning
  <2>3. PICK x : x = <<i, j>>
    OBVIOUS
  <2>4. x \in Cells(w) /\ x[1] = i /\ x[2] = j
    BY <1>1, <1>2, <2>3, PairInWindow
  <2>5. /\ x[1] \in Nat /\ x[2] \in Nat
        /\ w.alo <= x[1] /\ x[1] < w.ahi /\ w.blo <= x[2] /\ x[2] < w.bhi
    BY <2>1, <2>2, <2>4, CellType
  <2>6. /\ w.alo \in Nat /\ w.ahi \in Nat /\ w.blo \in Nat /\ w.bhi \in Nat
        /\ 1 <= w.alo /\ w.ahi <= Len(text_prev) + 1 /\ 1 <= w.blo /\ w.bhi <= Len(text_curr) + 1
        /\ Len(text_prev) \in Nat /\ Len(text_curr) \in Nat
    BY <2>1, <2>2, WindowType
  <2>7. i \in 1 .. Len(text_prev) /\ j \in 1 .. Len(text_curr)
    BY <2>4, <2>5, <2>6, SMTT(30)
  <2> QED BY <1>4, <2>1, <2>7, LenProperties
<1>7. PICK d : d = set_seq1(char_cruncher, a)
  OBVIOUS
<1>8. Fresh(d) /\ d.a = a /\ d.b = b
  <2>1. char_cruncher.b = b
    BY <1>1, <1>2, <1>4 DEF ClosestInv, Scanning
  <2> QED BY <1>7, <2>1, FreshSet DEF CruncherInv
<1>9. PICK c : c = Looked(d)
  OBVIOUS
<1>10. /\ probe' = NextPair(Better(c))
       /\ char_cruncher' = IF probe'.j = probe.j \/ ~ (probe'.j < probe.w.bhi) THEN c
                           ELSE set_seq2(c, text_curr[probe'.j])
       /\ UNCHANGED input
  BY <1>2, <1>4, <1>7, <1>9 DEF ProbeOther, GoOn
<1>11. Fraction(r)
  BY <1>1, <1>2 DEF ClosestInv, ClosestSoFar, Scanning
<1>12. PICK t, y : t = RatioOf(a, b) /\ y = <<i, j>>
  OBVIOUS
<1>13. /\ Fresh(c) /\ c.b = b
       /\ Better(c) = IF Greater(t, r) THEN NewBest(v, t, y) ELSE v
  BY <1>2, <1>3, <1>6, <1>8, <1>9, <1>11, <1>12, BetterIs
<1>14. NewBest(v, t, y) = Scan(o, w, i, j, t, y, e)
  BY <1>5, ScanBest
<1>15. PICK s, q : IF Greater(t, r) THEN s = t /\ q = y ELSE s = r /\ q = p
  OBVIOUS
<1>16. probe' = NextPair(Scan(probe.on, probe.w, probe.i, probe.j, s, q, e))
  BY <1>2, <1>5, <1>10, <1>13, <1>14, <1>15
<1>17. IF /\ text_prev[probe.i] # text_curr[probe.j]
          /\ Greater(RatioOf(text_prev[probe.i], text_curr[probe.j]), probe.best_ratio)
         THEN s = RatioOf(text_prev[probe.i], text_curr[probe.j]) /\ q = <<probe.i, probe.j>>
         ELSE s = probe.best_ratio /\ q = probe.best
  BY <1>1, <1>2, <1>4, <1>12, <1>15
<1>18. c.b = text_curr[probe.j]
  BY <1>2, <1>4, <1>13
<1> QED BY <1>1, <1>10, <1>13, <1>16, <1>17, <1>18, ScanCloses

(* The invariant of the scan holds.                                        *)
LEMMA ClosestInvariant == Spec => []ClosestInv
<1>1. Init => ClosestInv
  BY DEF Init, NoProbe, ClosestInv
<1>2. DifferInv /\ CruncherInv /\ ClosestInv /\ [Next]_vars => ClosestInv'
  <2> SUFFICES ASSUME DifferInv, CruncherInv, ClosestInv, [Next]_vars PROVE ClosestInv'
    OBVIOUS
  <2>1. CASE Write \/ UNCHANGED vars
    <3>1. probe' = probe /\ text_prev' = text_prev /\ text_curr' = text_curr
          /\ char_cruncher' = char_cruncher
      BY <2>1 DEF Write, vars, input
    <3>2. ClosestSoFar(text_prev, text_curr, probe.w, probe.i, probe.j, probe.best_ratio, probe.best)'
            <=> ClosestSoFar(text_prev, text_curr, probe.w, probe.i, probe.j, probe.best_ratio, probe.best)
      BY <3>1
    <3> QED BY <3>1, <3>2 DEF ClosestInv, Scanning
  <2>2. CASE Synch
    BY <2>2 DEF Synch, NoProbe, ClosestInv
  <2> QED BY <2>1, <2>2, FancyReplaceCloses, ProbeSameCloses, ProbeOtherCloses DEF Next
<1> QED BY <1>1, <1>2, DifferInvariant, CruncherInvariant, PTL DEF Spec

(* The short cuts of fancy_replace - real_quick_ratio, quick_ratio, the    *)
(* cached blocks - change nothing: the pair to synch up on is the closest  *)
(* of those that differ, and the first of equally close ones, in the order *)
(* of the loops - for any tokens, texts of any length.                     *)
THEOREM ClosestPairIsChosen == Spec => []ClosestPair
<1>1. DifferInv /\ ClosestInv => ClosestPair
  <2> SUFFICES ASSUME DifferInv, ClosestInv, probe.on, ~ Scanning PROVE ClosestPair
    BY DEF ClosestPair
  <2>1. PICK a, b : a = text_prev /\ b = text_curr
    OBVIOUS
  <2>2. a \in Seq(Token) /\ b \in Seq(Token) /\ probe.w \in Windows(a, b)
    BY <2>1, TextType DEF DifferInv, Inputs, ProbeInv
  <2>3. PICK w \in Windows(a, b) : w = probe.w
    BY <2>2
  <2>4. PICK i, j, r, p : i = probe.i /\ j = probe.j /\ r = probe.best_ratio /\ p = probe.best
    OBVIOUS
  <2>5. ClosestSoFar(a, b, w, i, j, r, p)
    BY <2>1, <2>3, <2>4 DEF ClosestInv
  <2>6. ASSUME NEW q \in Cells(w) PROVE Ahead(q, <<i, j>>)
    <3>1. q[2] \in Nat /\ q[2] < w.bhi /\ w.bhi \in Nat
      BY <2>2, CellType, WindowType
    <3>2. j \in Nat /\ ~ (j < w.bhi)
      BY <2>3, <2>4 DEF DifferInv, ProbeInv, Scanning
    <3>3. q[2] < j
      BY <3>1, <3>2
    <3> QED BY <3>3 DEF Ahead
  <2>7. PICK P : P = { q \in Cells(w) : a[q[1]] # b[q[2]] /\ Greater(PairRatio(a, b, q), <<74, 100>>) }
    OBVIOUS
  <2>8. IF P = {} THEN p = <<0, 0>>
        ELSE /\ p \in P
             /\ \A q \in P \ {p} :
                  \/ Greater(PairRatio(a, b, p), PairRatio(a, b, q))
                  \/ /\ ~ Greater(PairRatio(a, b, q), PairRatio(a, b, p))
                     /\ Ahead(p, q)
    <3>1. \A q \in P : q \in Cells(w) /\ a[q[1]] # b[q[2]] /\ Greater(PairRatio(a, b, q), <<74, 100>>)
      BY <2>7
    <3>2. ASSUME NEW q \in P
          PROVE  /\ ~ Greater(PairRatio(a, b, q), r)
                 /\ p \in Cells(w) /\ Ahead(q, p) => Greater(r, PairRatio(a, b, q))
      BY <2>5, <2>6, <3>1 DEF ClosestSoFar
    <3>3. CASE p = <<0, 0>> /\ r = <<74, 100>>
      <4>1. P = {}
        BY <3>1, <3>2, <3>3
      <4> QED BY <3>3, <4>1
    <3>4. CASE Chosen(a, b, w, i, j, r, p)
      <4>1. p \in Cells(w) /\ p \in P /\ r = PairRatio(a, b, p)
        BY <2>7, <3>4 DEF Chosen
      <4>2. ASSUME NEW q \in P \ {p}
            PROVE  \/ Greater(r, PairRatio(a, b, q))
                   \/ ~ Greater(PairRatio(a, b, q), r) /\ Ahead(p, q)
        <5>1. ~ Greater(PairRatio(a, b, q), r) /\ (Ahead(q, p) => Greater(r, PairRatio(a, b, q)))
          BY <3>2, <4>1
        <5>2. Ahead(q, p) \/ Ahead(p, q)
          <6>1. /\ p = <<p[1], p[2]>> /\ p[1] \in Nat /\ p[2] \in Nat
            BY <2>2, <4>1, CellType
          <6>2. /\ q = <<q[1], q[2]>> /\ q[1] \in Nat /\ q[2] \in Nat
            BY <2>2, <3>1, <4>2, CellType
          <6>3. PICK x \in Nat, y \in Nat, u \in Nat, v \in Nat :
                  x = p[1] /\ y = p[2] /\ u = q[1] /\ v = q[2]
            BY <6>1, <6>2
          <6>4. x # u \/ y # v
            BY <4>2, <6>1, <6>2, <6>3
          <6>5. (v < y \/ (v = y /\ u < x)) \/ (y < v \/ (y = v /\ x < u))
            BY <6>4
          <6> QED BY <6>3, <6>5 DEF Ahead
        <5> QED BY <5>1, <5>2
      <4> QED BY <4>1, <4>2
    <3> QED BY <2>5, <3>3, <3>4 DEF ClosestSoFar
  <2>9. \A q : TrueRatio(q) = PairRatio(a, b, q)
    BY <2>1 DEF TrueRatio, PairRatio, RatioOf
  <2>10. P = { q \in (w.alo .. w.ahi - 1) \X (w.blo .. w.bhi - 1) :
                 /\ text_prev[q[1]] # text_curr[q[2]]
                 /\ Greater(TrueRatio(q), <<74, 100>>) }
    BY <2>1, <2>7, <2>9 DEF Cells
  <2> QED BY <2>3, <2>4, <2>8, <2>9, <2>10 DEF ClosestPair, Ahead
<1> QED BY <1>1, DifferInvariant, ClosestInvariant, PTL
=============================================================================
