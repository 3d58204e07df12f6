------------------------------ MODULE DataLemmas ------------------------------
(***************************************************************************)
(* Facts about numbers, ranks, sequences, flattening and sums that the     *)
(* proofs of several components use.  What would be an induction on a      *)
(* number is an argument about the least counterexample (LeastNat), and on *)
(* a finite set about a smallest subset (SmallestSubset).                  *)
(***************************************************************************)
EXTENDS Integers, Sequences, FiniteSets, SequencesExt, SequenceTheorems,
        FiniteSetTheorems, WellFoundedInduction, TLAPS

(* A set of natural numbers that is not empty has a least member. *)
LEMMA LeastNat ==
  ASSUME NEW T, T \subseteq Nat, T # {}
  PROVE  \E n \in T : \A m \in T : n <= m
<1> DEFINE R == OpToRel(<, Nat)
<1>1. IsWellFoundedOn(R, Nat)
  BY NatLessThanWellFounded
<1>2. \A a, b \in Nat : a < b => <<a, b>> \in R
  BY DEF OpToRel
<1> HIDE DEF R
<1>3. PICK n \in T : \A m \in T : ~ (<<m, n>> \in R)
  BY <1>1, WFMin
<1>4. ASSUME NEW m \in T PROVE n <= m
  <2>1. m \in Nat /\ n \in Nat
    OBVIOUS
  <2>2. ~ (<<m, n>> \in R)
    BY <1>3
  <2>3. ~ (m < n)
    BY <1>2, <2>1, <2>2, Zenon
  <2> QED BY <2>1, <2>3
<1> QED BY <1>4

(* A set of natural numbers with a bound has a greatest member. *)
LEMMA GreatestNat ==
  ASSUME NEW T, NEW b \in Nat, T \subseteq 0 .. b, T # {}
  PROVE  \E n \in T : \A m \in T : m <= n
<1> DEFINE D == { b - t : t \in T }
<1>1. D \subseteq Nat /\ D # {}
  <2>1. \A t \in T : b - t \in Nat
    OBVIOUS
  <2>2. PICK t \in T : TRUE
    OBVIOUS
  <2> QED BY <2>1, <2>2
<1>2. PICK d \in D : \A e \in D : d <= e
  <2> HIDE DEF D
  <2> QED BY <1>1, LeastNat
<1>3. PICK n \in T : d = b - n
  OBVIOUS
<1>4. ASSUME NEW m \in T PROVE m <= n
  <2>1. d <= b - m
    BY <1>2
  <2> QED BY <1>3, <2>1
<1> QED BY <1>4

(* Least and greatest elements, as Min and Max choose them.                *)
LEMMA MinIs ==
  ASSUME NEW T, T \subseteq Nat, T # {}
  PROVE  Min(T) \in T /\ \A m \in T : Min(T) <= m
<1>1. PICK n \in T : \A m \in T : n <= m
  BY LeastNat
<1> QED BY <1>1 DEF Min

LEMMA MaxIs ==
  ASSUME NEW T, NEW b \in Nat, T \subseteq 0 .. b, T # {}
  PROVE  Max(T) \in T /\ \A m \in T : m <= Max(T)
<1>1. PICK n \in T : \A m \in T : m <= n
  BY GreatestNat
<1>2. \A m \in T : n >= m
  BY <1>1
<1> QED BY <1>1, <1>2 DEF Max

(* A sequence that is not empty has a first element. *)
LEMMA NonEmptySeq ==
  ASSUME NEW S, NEW s \in Seq(S), s # << >>
  PROVE  Len(s) \in Nat \ {0} /\ DOMAIN s = 1 .. Len(s) /\ 1 \in DOMAIN s /\ s[1] \in S
<1>1. Len(s) # 0
  BY EmptySeq
<1> QED BY <1>1, LenProperties, ElementOfSeq
-----------------------------------------------------------------------------
(* The rank of a number in a set: how many of the set are below it.        *)
Below(S, n) == { m \in S : m < n }
Rank(S, n)  == Cardinality(Below(S, n))

LEMMA RankOrder ==
  ASSUME NEW S, S \subseteq Nat, IsFiniteSet(S), NEW b \in S
  PROVE  /\ Rank(S, b) \in 0 .. Cardinality(S) - 1
         /\ \A a \in S : a < b => Rank(S, a) < Rank(S, b)
<1>1. Cardinality(S) \in Nat
  BY FS_CardinalityType
<1>2. ASSUME NEW n \in S
      PROVE  IsFiniteSet(Below(S, n)) /\ Rank(S, n) \in Nat
  <2>1. Below(S, n) \in SUBSET S
    BY DEF Below
  <2> QED BY <2>1, FS_Subset, FS_CardinalityType DEF Rank
<1>3. Rank(S, b) < Cardinality(S)
  <2>1. Below(S, b) \in SUBSET (S \ {b})
    BY DEF Below
  <2>2. IsFiniteSet(S \ {b}) /\ Cardinality(S \ {b}) = Cardinality(S) - 1
    BY FS_RemoveElement
  <2>3. Rank(S, b) <= Cardinality(S) - 1
    BY <2>1, <2>2, FS_Subset DEF Rank
  <2> QED BY <1>1, <1>2, <2>3
<1>4. ASSUME NEW a \in S, a < b PROVE Rank(S, a) < Rank(S, b)
  <2>1. a \in Below(S, b)
    BY <1>4 DEF Below
  <2>2. IsFiniteSet(Below(S, b) \ {a}) /\ Cardinality(Below(S, b) \ {a}) = Rank(S, b) - 1
    BY <1>2, <2>1, FS_RemoveElement DEF Rank
  <2>3. Below(S, a) \in SUBSET (Below(S, b) \ {a})
    <3>1. ASSUME NEW m \in S, m < a PROVE m \in Below(S, b) \ {a}
      <4>1. m \in Nat /\ a \in Nat /\ b \in Nat
        OBVIOUS
      <4> QED BY <1>4, <3>1, <4>1 DEF Below
    <3> QED BY <3>1 DEF Below
  <2>4. Rank(S, a) <= Rank(S, b) - 1
    BY <2>2, <2>3, FS_Subset DEF Rank
  <2> QED BY <1>2, <2>4
<1> QED BY <1>1, <1>2, <1>3, <1>4

LEMMA RankOnto ==
  ASSUME NEW S, S \subseteq Nat, IsFiniteSet(S), NEW k \in 0 .. Cardinality(S) - 1
  PROVE  \E n \in S : Rank(S, n) = k
<1> DEFINE K == 0 .. Cardinality(S) - 1
           f == [n \in S |-> Rank(S, n)]
<1>1. Cardinality(S) \in Nat
  BY FS_CardinalityType
<1>2. IsFiniteSet(K) /\ Cardinality(K) = Cardinality(S)
  BY <1>1, FS_Interval
<1>3. f \in Injection(S, K)
  <2>1. f \in [S -> K]
    BY RankOrder
  <2>2. ASSUME NEW a \in S, NEW b \in S, a # b PROVE f[a] # f[b]
    <3>1. a < b \/ b < a
      BY <2>2
    <3>2. Rank(S, a) \in Int /\ Rank(S, b) \in Int
      BY <2>1
    <3>3. Rank(S, a) < Rank(S, b) \/ Rank(S, b) < Rank(S, a)
      BY <3>1, RankOrder
    <3> QED BY <3>2, <3>3
  <2> HIDE DEF f
  <2> QED BY <2>1, <2>2 DEF Injection, IsInjective
<1>4. f \in Surjection(S, K)
  <2> HIDE DEF f, K
  <2> QED BY <1>2, <1>3, FS_Injection
<1>5. PICK n \in S : f[n] = k
  <2> HIDE DEF f
  <2> QED BY <1>4 DEF Surjection
<1> QED BY <1>5

(* The list of a finite set: the i-th has i - 1 below it. *)
Listed(S) == [i \in 1 .. Cardinality(S) |-> CHOOSE n \in S : Rank(S, n) = i - 1]

LEMMA ListedInOrder ==
  ASSUME NEW S, S \subseteq Nat, IsFiniteSet(S)
  PROVE  /\ Listed(S) \in Seq(S)
         /\ \A i \in DOMAIN Listed(S) : Listed(S)[i] \in S
         /\ \A i, j \in DOMAIN Listed(S) : i < j => Listed(S)[i] < Listed(S)[j]
         /\ \A n \in S : \E i \in DOMAIN Listed(S) : Listed(S)[i] = n
<1> DEFINE t == Listed(S)
<1>1. Cardinality(S) \in Nat
  BY FS_CardinalityType
<1>2. ASSUME NEW i \in 1 .. Cardinality(S) PROVE t[i] \in S /\ Rank(S, t[i]) = i - 1
  <2>1. i - 1 \in 0 .. Cardinality(S) - 1
    BY <1>1
  <2>2. \E n \in S : Rank(S, n) = i - 1
    BY <2>1, RankOnto
  <2> QED BY <2>2 DEF Listed
<1>3. DOMAIN t = 1 .. Cardinality(S) /\ t \in [1 .. Cardinality(S) -> S]
  BY <1>2 DEF Listed
<1> HIDE DEF t
<1>4. t \in Seq(S)
  BY <1>1, <1>3, SeqDef
<1>5. ASSUME NEW a \in S, NEW b \in S, Rank(S, a) < Rank(S, b) PROVE a < b
  <2>1. Rank(S, a) \in Int /\ Rank(S, b) \in Int /\ a \in Nat /\ b \in Nat
    <3>1. Rank(S, a) \in 0 .. Cardinality(S) - 1 /\ Rank(S, b) \in 0 .. Cardinality(S) - 1
      BY <1>1, RankOrder
    <3> QED BY <1>1, <3>1
  <2>2. b < a => Rank(S, b) < Rank(S, a)
    BY <1>1, RankOrder
  <2> QED BY <1>5, <2>1, <2>2
<1>6. ASSUME NEW i \in DOMAIN t, NEW j \in DOMAIN t, i < j PROVE t[i] < t[j]
  <2>1. i \in 1 .. Cardinality(S) /\ j \in 1 .. Cardinality(S)
    BY <1>3
  <2>2. Rank(S, t[i]) < Rank(S, t[j])
    BY <1>1, <1>2, <1>6, <2>1
  <2> QED BY <1>2, <1>5, <2>1, <2>2
<1>7. ASSUME NEW n \in S PROVE \E i \in DOMAIN t : t[i] = n
  <2> DEFINE i == Rank(S, n) + 1
  <2>1. Rank(S, n) \in 0 .. Cardinality(S) - 1
    BY <1>1, RankOrder
  <2>2. i \in 1 .. Cardinality(S)
    BY <1>1, <2>1
  <2>3. t[i] \in S /\ Rank(S, t[i]) = Rank(S, n)
    BY <1>1, <1>2, <2>1, <2>2
  <2>4. t[i] = n
    <3>1. t[i] \in Nat /\ n \in Nat /\ Rank(S, n) \in Int
      <4>1. t[i] \in S
        BY <2>3
      <4>2. Rank(S, n) \in Int
        BY <1>1, <2>1
      <4> HIDE DEF i
      <4> QED BY <1>1, <4>1, <4>2
    <3>2. t[i] < n => Rank(S, t[i]) < Rank(S, n)
      BY <1>1, <2>3, RankOrder
    <3>3. n < t[i] => Rank(S, n) < Rank(S, t[i])
      BY <1>1, <2>3, RankOrder
    <3> QED BY <2>3, <3>1, <3>2, <3>3
  <2> QED BY <1>3, <2>2, <2>4
<1> QED BY <1>2, <1>3, <1>4, <1>6, <1>7 DEF t
-----------------------------------------------------------------------------
(* FlattenSeq is a recursion on the length: a sequence g of prefixes, each *)
(* the one before and the next list.                                       *)
Partial(a, n, g) ==
  g = [i \in 1 .. n |-> IF i = 1 THEN a[i] ELSE g[i - 1] \o a[i]]

LEMMA PartialExist ==
  ASSUME NEW a, NEW m \in Nat
  PROVE  \E g : Partial(a, m, g)
<1> DEFINE T == { n \in 0 .. m : ~ \E g : Partial(a, n, g) }
<1>1. CASE T = {}
  BY <1>1
<1>2. CASE T # {}
  <2>1. PICK n \in T : \A k \in T : n <= k
    <3>1. T \subseteq Nat
      OBVIOUS
    <3> HIDE DEF T
    <3> QED BY <1>2, <3>1, LeastNat
  <2>2. n # 0
    <3>1. Partial(a, 0, [i \in 1 .. 0 |-> 0])
      BY DEF Partial
    <3> QED BY <2>1, <3>1
  <2>3. n - 1 \in 0 .. m /\ n - 1 \notin T
    BY <2>1, <2>2
  <2>4. PICK g : Partial(a, n - 1, g)
    BY <2>3
  <2> DEFINE h == [i \in 1 .. n |-> IF i < n THEN g[i] ELSE IF n = 1 THEN a[1] ELSE g[n - 1] \o a[n]]
  <2>5. \A i \in 1 .. n : h[i] = IF i = 1 THEN a[i] ELSE h[i - 1] \o a[i]
    <3> TAKE i \in 1 .. n
    <3>1. g = [k \in 1 .. n - 1 |-> IF k = 1 THEN a[k] ELSE g[k - 1] \o a[k]]
      BY <2>4 DEF Partial
    <3>2. CASE i < n
      <4>1. i \in 1 .. n - 1 /\ h[i] = g[i]
        BY <3>2, <2>1
      <4>2. g[i] = IF i = 1 THEN a[i] ELSE g[i - 1] \o a[i]
        BY <3>1, <4>1
      <4>3. i # 1 => h[i - 1] = g[i - 1]
        BY <3>2, <2>1
      <4> QED BY <4>1, <4>2, <4>3
    <3>3. CASE i = n /\ n = 1
      BY <3>3
    <3>4. CASE i = n /\ n # 1
      <4>1. h[n] = g[n - 1] \o a[n]
        <5>1. n \in 1 .. n /\ ~ (n < n) /\ n # 1
          BY <3>4, <2>1
        <5> QED BY <5>1
      <4>2. h[n - 1] = g[n - 1]
        BY <3>4, <2>1, <2>2
      <4> QED BY <3>4, <4>1, <4>2
    <3> QED BY <2>1, <3>2, <3>3, <3>4
  <2>6. Partial(a, n, h)
    <3>1. h = [i \in 1 .. n |-> h[i]]
      OBVIOUS
    <3> HIDE DEF h
    <3> QED BY <2>5, <3>1 DEF Partial
  <2> QED BY <2>1, <2>6
<1> QED BY <1>1, <1>2

LEMMA FlattenPartial ==
  ASSUME NEW S, NEW a \in Seq(S), a # << >>
  PROVE  \E g : Partial(a, Len(a), g) /\ FlattenSeq(a) = g[Len(a)]
<1> DEFINE flatten[i \in 1 .. Len(a)] == IF i = 1 THEN a[i] ELSE flatten[i - 1] \o a[i]
<1>1. Len(a) \in Nat /\ Len(a) # 0
  BY NonEmptySeq
<1>2. FlattenSeq(a) = flatten[Len(a)]
  BY <1>1 DEF FlattenSeq
<1>3. flatten = CHOOSE g : g = [i \in 1 .. Len(a) |-> IF i = 1 THEN a[i] ELSE g[i - 1] \o a[i]]
  BY DEF flatten
<1>4. \E g : g = [i \in 1 .. Len(a) |-> IF i = 1 THEN a[i] ELSE g[i - 1] \o a[i]]
  BY <1>1, PartialExist DEF Partial
<1> HIDE DEF flatten
<1>5. Partial(a, Len(a), flatten)
  BY <1>3, <1>4 DEF Partial
<1> QED BY <1>2, <1>5

(* Applying a function to every element of a list, and of a list of lists. *)
MapSeq(f, s) == [n \in DOMAIN s |-> f[s[n]]]

LEMMA MapSeqType ==
  ASSUME NEW S, NEW f, NEW s \in Seq(S), NEW V, \A x \in S : f[x] \in V
  PROVE  MapSeq(f, s) \in Seq(V)
<1>1. DOMAIN s = 1 .. Len(s) /\ Len(s) \in Nat /\ \A n \in 1 .. Len(s) : s[n] \in S
  BY LenProperties
<1>2. MapSeq(f, s) \in [1 .. Len(s) -> V]
  BY <1>1 DEF MapSeq
<1> QED BY <1>1, <1>2, SeqDef

LEMMA MapSeqLen ==
  ASSUME NEW S, NEW f, NEW s \in Seq(S)
  PROVE  /\ Len(MapSeq(f, s)) = Len(s)
         /\ \A n \in 1 .. Len(s) : MapSeq(f, s)[n] = f[s[n]]
<1> DEFINE V == { f[x] : x \in S }
<1>1. MapSeq(f, s) \in Seq(V)
  <2>1. \A x \in S : f[x] \in V
    OBVIOUS
  <2> HIDE DEF V
  <2> QED BY <2>1, MapSeqType
<1>2. /\ DOMAIN s = 1 .. Len(s) /\ Len(s) \in Nat
      /\ \A n \in 1 .. Len(s) : MapSeq(f, s)[n] = f[s[n]]
  BY LenProperties DEF MapSeq
<1>3. DOMAIN MapSeq(f, s) = 1 .. Len(s)
  BY <1>2 DEF MapSeq
<1> HIDE DEF V
<1> QED BY <1>1, <1>2, <1>3, LenProperties

LEMMA MapConcat ==
  ASSUME NEW S, NEW f, NEW s \in Seq(S), NEW t \in Seq(S)
  PROVE  MapSeq(f, s \o t) = MapSeq(f, s) \o MapSeq(f, t)
<1> DEFINE V == { f[x] : x \in S }
<1>0. \A x \in S : f[x] \in V
  OBVIOUS
<1> HIDE DEF V
<1>1. ASSUME NEW u \in Seq(S)
      PROVE  /\ MapSeq(f, u) \in Seq(V) /\ Len(MapSeq(f, u)) = Len(u)
             /\ \A n \in 1 .. Len(u) : MapSeq(f, u)[n] = f[u[n]]
  <2>1. MapSeq(f, u) \in Seq(V)
    BY <1>0, MapSeqType
  <2> QED BY <2>1, MapSeqLen
<1>2. /\ s \o t \in Seq(S) /\ Len(s \o t) = Len(s) + Len(t)
      /\ \A i \in 1 .. Len(s) + Len(t) :
           (s \o t)[i] = IF i <= Len(s) THEN s[i] ELSE t[i - Len(s)]
      /\ Len(s) \in Nat /\ Len(t) \in Nat
  BY ConcatProperties, LenProperties
<1> DEFINE l == MapSeq(f, s \o t)
           r == MapSeq(f, s) \o MapSeq(f, t)
<1>3. /\ r \in Seq(V) /\ Len(r) = Len(s) + Len(t)
      /\ \A i \in 1 .. Len(s) + Len(t) :
           r[i] = IF i <= Len(s) THEN MapSeq(f, s)[i] ELSE MapSeq(f, t)[i - Len(s)]
  <2>1. PICK x : x = MapSeq(f, s)
    OBVIOUS
  <2>2. PICK y : y = MapSeq(f, t)
    OBVIOUS
  <2>3. x \in Seq(V) /\ Len(x) = Len(s) /\ y \in Seq(V) /\ Len(y) = Len(t)
    BY <1>1, <2>1, <2>2
  <2>4. /\ x \o y \in Seq(V) /\ Len(x \o y) = Len(x) + Len(y)
        /\ \A i \in 1 .. Len(x) + Len(y) :
             (x \o y)[i] = IF i <= Len(x) THEN x[i] ELSE y[i - Len(x)]
    BY <2>3, ConcatProperties
  <2> QED BY <2>1, <2>2, <2>3, <2>4
<1>4. l \in Seq(V) /\ Len(l) = Len(s) + Len(t)
      /\ \A i \in 1 .. Len(s) + Len(t) : l[i] = f[(s \o t)[i]]
  BY <1>1, <1>2
<1> HIDE DEF l, r
<1>5. ASSUME NEW i \in 1 .. Len(l) PROVE l[i] = r[i]
  <2>1. CASE i <= Len(s)
    <3>1. i \in 1 .. Len(s) /\ i \in 1 .. Len(s) + Len(t)
      BY <1>2, <1>4, <2>1
    <3>2. MapSeq(f, s)[i] = f[s[i]]
      BY <1>1, <3>1
    <3> QED BY <1>2, <1>3, <1>4, <2>1, <3>1, <3>2
  <2>2. CASE i > Len(s)
    <3>1. i - Len(s) \in 1 .. Len(t) /\ i \in 1 .. Len(s) + Len(t) /\ ~ (i <= Len(s))
      BY <1>2, <1>4, <2>2
    <3>2. MapSeq(f, t)[i - Len(s)] = f[t[i - Len(s)]]
      BY <1>1, <3>1
    <3> QED BY <1>2, <1>3, <1>4, <3>1, <3>2
  <2> QED BY <1>2, <1>4, <2>1, <2>2
<1>6. l = r
  BY <1>3, <1>4, <1>5, SeqEqual
<1> QED BY <1>6 DEF l, r

(* So does flattening commute with it. *)
LEMMA FlattenMap ==
  ASSUME NEW S, NEW f, NEW a \in Seq(Seq(S)),
         NEW V, NEW b \in Seq(V), Len(b) = Len(a),
         \A i \in 1 .. Len(a) : b[i] = MapSeq(f, a[i])
  PROVE  FlattenSeq(a) \in Seq(S) /\ FlattenSeq(b) = MapSeq(f, FlattenSeq(a))
<1>0. ASSUME NEW x \in Seq(S), NEW y \in Seq(S)
      PROVE  MapSeq(f, x \o y) = MapSeq(f, x) \o MapSeq(f, y)
  BY MapConcat
<1>1. CASE a = << >>
  <2>1. Len(a) = 0 /\ b = << >>
    BY <1>1, EmptySeq
  <2>2. FlattenSeq(a) = << >> /\ FlattenSeq(b) = << >>
    BY <1>1, <2>1 DEF FlattenSeq
  <2>3. DOMAIN << >> = 1 .. 0 /\ << >> = [n \in 1 .. 0 |-> f[<< >>[n]]] /\ << >> \in Seq(S)
    BY EmptySeq, LenProperties
  <2> QED BY <2>2, <2>3 DEF MapSeq
<1>2. CASE a # << >>
  <2>1. Len(a) \in Nat \ {0} /\ b # << >> /\ \A i \in 1 .. Len(a) : a[i] \in Seq(S)
    BY <1>2, NonEmptySeq, EmptySeq, LenProperties
  <2>2. PICK g : Partial(a, Len(a), g) /\ FlattenSeq(a) = g[Len(a)]
    BY <1>2, FlattenPartial
  <2>3. PICK h : Partial(b, Len(a), h) /\ FlattenSeq(b) = h[Len(a)]
    BY <2>1, FlattenPartial
  <2> DEFINE bad == { i \in 1 .. Len(a) : ~ (g[i] \in Seq(S) /\ h[i] = MapSeq(f, g[i])) }
  <2>4. bad = {}
    <3> SUFFICES ASSUME bad # {} PROVE FALSE
      OBVIOUS
    <3>1. PICK i \in bad : \A k \in bad : i <= k
      <4>1. bad \subseteq Nat
        OBVIOUS
      <4> HIDE DEF bad
      <4> QED BY <4>1, LeastNat
    <3>2. /\ g[i] = IF i = 1 THEN a[i] ELSE g[i - 1] \o a[i]
          /\ h[i] = IF i = 1 THEN b[i] ELSE h[i - 1] \o b[i]
          /\ i \in 1 .. Len(a)
      BY <2>2, <2>3 DEF Partial
    <3>3. a[i] \in Seq(S) /\ b[i] = MapSeq(f, a[i])
      BY <2>1, <3>2
    <3>4. CASE i = 1
      BY <3>2, <3>3, <3>4
    <3>5. CASE i # 1
      <4>1. g[i - 1] \in Seq(S) /\ h[i - 1] = MapSeq(f, g[i - 1])
        <5>1. i - 1 \in 1 .. Len(a) /\ i - 1 \notin bad
          BY <3>1, <3>2, <3>5
        <5> QED BY <5>1
      <4>2. g[i] = g[i - 1] \o a[i] /\ h[i] = h[i - 1] \o b[i]
        BY <3>2, <3>5
      <4>3. g[i] \in Seq(S)
        BY <3>3, <4>1, <4>2, ConcatProperties
      <4>4. h[i] = MapSeq(f, g[i])
        <5>1. MapSeq(f, g[i - 1] \o a[i]) = MapSeq(f, g[i - 1]) \o MapSeq(f, a[i])
          BY <1>0, <3>3, <4>1
        <5> QED BY <3>3, <4>1, <4>2, <5>1
      <4> QED BY <4>3, <4>4
    <3> QED BY <3>4, <3>5
  <2>5. Len(a) \in 1 .. Len(a)
    BY <2>1
  <2> QED BY <2>2, <2>3, <2>4, <2>5
<1> QED BY <1>1, <1>2

LEMMA FlattenType ==
  ASSUME NEW S, NEW a \in Seq(Seq(S))
  PROVE  FlattenSeq(a) \in Seq(S)
<1> DEFINE f == [x \in S |-> x]
<1>1. ASSUME NEW i \in 1 .. Len(a) PROVE a[i] = MapSeq(f, a[i])
  <2>1. a[i] \in Seq(S)
    BY LenProperties
  <2>2. \A n \in DOMAIN a[i] : a[i][n] \in S
    BY <2>1, LenProperties
  <2>3. a[i] = [n \in DOMAIN a[i] |-> a[i][n]]
    BY <2>1, LenProperties
  <2> QED BY <2>2, <2>3 DEF MapSeq
<1> HIDE DEF f
<1> QED BY <1>1, FlattenMap

(* Flattening, list by list. *)
LEMMA FlattenSplit ==
  ASSUME NEW S, NEW s \in Seq(Seq(S)), NEW t \in Seq(Seq(S))
  PROVE  FlattenSeq(s \o t) = FlattenSeq(s) \o FlattenSeq(t)
<1>0. FlattenSeq(s) \in Seq(S) /\ FlattenSeq(t) \in Seq(S)
  BY FlattenType
<1>e. FlattenSeq(<< >>) = << >>
  BY EmptySeq DEF FlattenSeq
<1>1. CASE s = << >>
  BY <1>0, <1>1, <1>e, ConcatEmptySeq
<1>2. CASE t = << >>
  BY <1>0, <1>2, <1>e, ConcatEmptySeq
<1>3. CASE s # << >> /\ t # << >>
  <2>1. /\ Len(s) \in Nat \ {0} /\ Len(t) \in Nat \ {0}
        /\ \A i \in 1 .. Len(s) : s[i] \in Seq(S)
        /\ \A i \in 1 .. Len(t) : t[i] \in Seq(S)
    BY <1>3, NonEmptySeq, LenProperties
  <2>2. /\ s \o t \in Seq(Seq(S)) /\ Len(s \o t) = Len(s) + Len(t)
        /\ \A i \in 1 .. Len(s) + Len(t) :
             (s \o t)[i] = IF i <= Len(s) THEN s[i] ELSE t[i - Len(s)]
    BY ConcatProperties
  <2>3. s \o t # << >>
    BY <2>1, <2>2, EmptySeq
  <2>4. PICK u : u = s \o t
    OBVIOUS
  <2>5. PICK g : Partial(u, Len(u), g) /\ FlattenSeq(u) = g[Len(u)]
    BY <2>2, <2>3, <2>4, FlattenPartial
  <2>6. PICK h : Partial(s, Len(s), h) /\ FlattenSeq(s) = h[Len(s)]
    BY <1>3, FlattenPartial
  <2>7. PICK f : Partial(t, Len(t), f) /\ FlattenSeq(t) = f[Len(t)]
    BY <1>3, FlattenPartial
  <2>n. PICK m \in Nat, n \in Nat : m = Len(s) /\ n = Len(t)
    BY <2>1
  <2>8. /\ \A i \in 1 .. m + n : g[i] = IF i = 1 THEN u[i] ELSE g[i - 1] \o u[i]
        /\ \A i \in 1 .. m : h[i] = IF i = 1 THEN s[i] ELSE h[i - 1] \o s[i]
        /\ \A i \in 1 .. n : f[i] = IF i = 1 THEN t[i] ELSE f[i - 1] \o t[i]
    BY <2>2, <2>4, <2>5, <2>6, <2>7, <2>n DEF Partial
  <2>9. /\ \A i \in 1 .. m : u[i] = s[i] /\ s[i] \in Seq(S)
        /\ \A i \in 1 .. n : u[m + i] = t[i] /\ t[i] \in Seq(S)
        /\ m \in Nat \ {0} /\ n \in Nat \ {0}
    BY <2>1, <2>2, <2>4, <2>n
  <2> DEFINE bad == { i \in 1 .. m : ~ (h[i] \in Seq(S) /\ g[i] = h[i]) }
             Good(i) == f[i] \in Seq(S) /\ g[m + i] = h[m] \o f[i]
             off == { i \in 1 .. n : ~ Good(i) }
  <2>10. bad = {}
    <3> SUFFICES ASSUME bad # {} PROVE FALSE
      OBVIOUS
    <3>1. PICK i \in bad : \A k \in bad : i <= k
      <4>1. bad \subseteq Nat
        OBVIOUS
      <4> HIDE DEF bad
      <4> QED BY <4>1, LeastNat
    <3>2. i \in 1 .. m /\ i \in 1 .. m + n
      BY <2>9
    <3>3. CASE i = 1
      BY <2>8, <2>9, <3>2, <3>3
    <3>4. CASE i # 1
      <4>1. i - 1 \in 1 .. m /\ i - 1 \notin bad
        BY <3>1, <3>2, <3>4
      <4>2. h[i - 1] \in Seq(S) /\ g[i - 1] = h[i - 1]
        BY <4>1
      <4>3. h[i] = h[i - 1] \o s[i] /\ g[i] = g[i - 1] \o u[i]
        BY <2>8, <3>2, <3>4
      <4>4. h[i] \in Seq(S)
        BY <2>9, <3>2, <4>2, <4>3, ConcatProperties
      <4> QED BY <2>9, <3>2, <4>2, <4>3, <4>4
    <3> QED BY <3>3, <3>4
  <2>11. h[m] \in Seq(S) /\ g[m] = h[m]
    BY <2>9, <2>10
  <2>12. off = {}
    <3> SUFFICES ASSUME off # {} PROVE FALSE
      OBVIOUS
    <3>1. PICK i \in off : \A k \in off : i <= k
      <4> HIDE DEF Good
      <4>1. off \subseteq Nat
        OBVIOUS
      <4> HIDE DEF off
      <4> QED BY <4>1, LeastNat
    <3>2. i \in 1 .. n /\ m + i \in 1 .. m + n /\ m + i # 1 /\ (m + i) - 1 = m + (i - 1)
      BY <2>9
    <3>3. g[m + i] = g[m + (i - 1)] \o t[i]
      <4>1. g[m + i] = g[(m + i) - 1] \o u[m + i]
        BY <2>8, <3>2
      <4> QED BY <2>9, <3>2, <4>1
    <3>4. CASE i = 1
      <4>0. m + (i - 1) = m
        BY <3>4
      <4>1. g[m + i] = h[m] \o t[i]
        BY <2>11, <3>3, <4>0
      <4>2. f[i] = t[i]
        BY <2>8, <3>2, <3>4
      <4> QED BY <2>9, <3>2, <4>1, <4>2
    <3>5. CASE i # 1
      <4>1. i - 1 \in 1 .. n /\ i - 1 \notin off
        <5> HIDE DEF Good
        <5> QED BY <3>1, <3>2, <3>5
      <4>2. f[i - 1] \in Seq(S) /\ g[m + (i - 1)] = h[m] \o f[i - 1]
        <5>1. Good(i - 1)
          <6> HIDE DEF Good
          <6> QED BY <4>1
        <5> QED BY <5>1
      <4>3. f[i] = f[i - 1] \o t[i]
        BY <2>8, <3>2, <3>5
      <4>4. f[i] \in Seq(S)
        BY <2>9, <3>2, <4>2, <4>3, ConcatProperties
      <4>5. (h[m] \o f[i - 1]) \o t[i] = h[m] \o (f[i - 1] \o t[i])
        <5>1. h[m] \in Seq(S) /\ f[i - 1] \in Seq(S) /\ t[i] \in Seq(S)
          BY <2>9, <2>11, <3>2, <4>2
        <5>2. \A x, y, z \in Seq(S) : (x \o y) \o z = x \o (y \o z)
          BY ConcatAssociative
        <5> QED BY ONLY <5>1, <5>2
      <4> QED BY <3>2, <3>3, <4>2, <4>3, <4>4, <4>5
    <3> QED BY <3>4, <3>5
  <2>13. g[m + n] = h[m] \o f[n]
    <3>1. Good(n)
      <4>1. n \in 1 .. n
        BY <2>9
      <4> HIDE DEF Good
      <4> QED BY <2>12, <4>1
    <3> QED BY <3>1
  <2>14. Len(u) = m + n
    BY <2>2, <2>4, <2>n
  <2> QED BY <2>4, <2>5, <2>6, <2>7, <2>13, <2>14, <2>n
<1> QED BY <1>1, <1>2, <1>3

(* What flattening makes of lists of one element and of empty lists. *)
LEMMA FlattenSingles ==
  ASSUME NEW S, NEW s \in Seq(S), NEW a, a = [i \in DOMAIN s |-> <<s[i]>>]
  PROVE  FlattenSeq(a) = s
<1>1. DOMAIN s = 1 .. Len(s) /\ Len(s) \in Nat /\ \A i \in DOMAIN s : s[i] \in S
  BY LenProperties
<1>2. a \in [1 .. Len(s) -> Seq(S)]
  BY <1>1
<1>3. a \in Seq(Seq(S)) /\ Len(a) = Len(s)
  <2>1. a \in Seq(Seq(S))
    BY <1>1, <1>2, SeqDef
  <2> QED BY <1>1, <1>2, <2>1, LenProperties
<1>4. CASE s = << >>
  BY <1>3, <1>4, EmptySeq DEF FlattenSeq
<1>5. CASE s # << >>
  <2>1. Len(s) \in Nat \ {0} /\ a # << >>
    BY <1>3, <1>5, NonEmptySeq, EmptySeq
  <2>2. PICK g : Partial(a, Len(a), g) /\ FlattenSeq(a) = g[Len(a)]
    BY <1>3, <2>1, FlattenPartial
  <2> DEFINE bad == { i \in 1 .. Len(s) : g[i] # SubSeq(s, 1, i) }
  <2>3. bad = {}
    <3> SUFFICES ASSUME bad # {} PROVE FALSE
      OBVIOUS
    <3>1. PICK i \in bad : \A k \in bad : i <= k
      <4>1. bad \subseteq Nat
        OBVIOUS
      <4> HIDE DEF bad
      <4> QED BY <4>1, LeastNat
    <3>2. /\ g[i] = IF i = 1 THEN a[i] ELSE g[i - 1] \o a[i]
          /\ i \in 1 .. Len(s)
      BY <1>3, <2>2 DEF Partial
    <3>3. a[i] = <<s[i]>> /\ s[i] \in S
      BY <1>1, <3>2
    <3>4. CASE i = 1
      <4>1. SubSeq(s, 1, 1) = <<s[1]>>
        BY <1>1, <3>2, <3>4, SubSeqProperties
      <4> QED BY <3>2, <3>3, <3>4, <4>1
    <3>5. CASE i # 1
      <4>1. g[i - 1] = SubSeq(s, 1, i - 1)
        <5>1. i - 1 \in 1 .. Len(s) /\ i - 1 \notin bad
          BY <1>1, <3>1, <3>2, <3>5
        <5> QED BY <5>1
      <4>2. SubSeq(s, 1, i) = SubSeq(s, 1, i - 1) \o <<s[i]>>
        <5>1. SubSeq(s, 1, i - 1) \in Seq(S) /\ Len(SubSeq(s, 1, i - 1)) = i - 1
              /\ \A k \in 1 .. i - 1 : SubSeq(s, 1, i - 1)[k] = s[k]
          BY <1>1, <3>2, <3>5, SubSeqProperties
        <5>2. SubSeq(s, 1, i) \in Seq(S) /\ Len(SubSeq(s, 1, i)) = i
              /\ \A k \in 1 .. i : SubSeq(s, 1, i)[k] = s[k]
          BY <1>1, <3>2, SubSeqProperties
        <5>3. PICK x : x = SubSeq(s, 1, i - 1)
          OBVIOUS
        <5>4. PICK y : y = SubSeq(s, 1, i)
          OBVIOUS
        <5>5. PICK z : z = <<s[i]>>
          OBVIOUS
        <5>6. z \in Seq(S) /\ Len(z) = 1 /\ z[1] = s[i]
          BY <3>3, <5>5
        <5>7. x \o z \in Seq(S) /\ Len(x \o z) = i
              /\ \A k \in 1 .. i : (x \o z)[k] = IF k <= i - 1 THEN x[k] ELSE z[k - (i - 1)]
          <6>1. x \in Seq(S) /\ z \in Seq(S) /\ Len(x) = i - 1 /\ Len(z) = 1
            BY <5>1, <5>3, <5>6
          <6>2. /\ x \o z \in Seq(S) /\ Len(x \o z) = Len(x) + Len(z)
                /\ \A k \in 1 .. Len(x) + Len(z) :
                     (x \o z)[k] = IF k <= Len(x) THEN x[k] ELSE z[k - Len(x)]
            BY <6>1, ConcatProperties
          <6>3. Len(x) + Len(z) = i
            BY <1>1, <3>2, <6>1
          <6> QED BY <6>1, <6>2, <6>3
        <5>8. ASSUME NEW k \in 1 .. Len(y) PROVE y[k] = (x \o z)[k]
          <6>1. k \in 1 .. i /\ (k <= i - 1 => k \in 1 .. i - 1) /\ (~ (k <= i - 1) => k = i /\ k - (i - 1) = 1)
            BY <5>2, <5>4, <3>2
          <6> QED BY <5>1, <5>2, <5>3, <5>4, <5>6, <5>7, <6>1
        <5>9. y = x \o z
          BY <5>2, <5>4, <5>7, <5>8, SeqEqual
        <5> QED BY <5>3, <5>4, <5>5, <5>9
      <4> QED BY <3>2, <3>3, <3>5, <4>1, <4>2
    <3> QED BY <3>4, <3>5
  <2>4. FlattenSeq(a) = SubSeq(s, 1, Len(s))
    <3>1. Len(s) \in 1 .. Len(s) /\ Len(s) \notin bad
      BY <2>1, <2>3
    <3> QED BY <1>3, <2>2, <3>1
  <2>5. SubSeq(s, 1, Len(s)) = s
    <3>1. PICK y : y = SubSeq(s, 1, Len(s))
      OBVIOUS
    <3>2. y \in Seq(S) /\ Len(y) = Len(s) /\ \A k \in 1 .. Len(y) : y[k] = s[k]
      BY <1>1, <2>1, <3>1, SubSeqProperties
    <3>3. y = s
      BY <3>2, SeqEqual
    <3> QED BY <3>1, <3>3
  <2> QED BY <2>4, <2>5
<1> QED BY <1>4, <1>5

LEMMA FlattenNones ==
  ASSUME NEW n \in Nat, NEW a, a = [i \in 1 .. n |-> << >>]
  PROVE  FlattenSeq(a) = << >>
<1> DEFINE S == {}
<1>1. a \in [1 .. n -> Seq(S)]
  OBVIOUS
<1>2. a \in Seq(Seq(S)) /\ Len(a) = n
  <2>1. a \in Seq(Seq(S))
    BY <1>1, SeqDef
  <2> QED BY <1>1, <2>1, LenProperties
<1>3. FlattenSeq(a) \in Seq(S)
  <2> HIDE DEF S
  <2> QED BY <1>2, FlattenType
<1> QED BY <1>3, NonEmptySeq

(* A set of subsets of a finite set has a smallest member. *)
LEMMA SmallestSubset ==
  ASSUME NEW S, IsFiniteSet(S), NEW B, B \subseteq SUBSET S, B # {}
  PROVE  \E s \in B : /\ s \subseteq S /\ IsFiniteSet(s) /\ Cardinality(s) \in Nat
                      /\ \A t \in SUBSET S : Cardinality(t) < Cardinality(s) => t \notin B
<1> DEFINE T == { Cardinality(s) : s \in B }
<1>1. \A s \in SUBSET S : IsFiniteSet(s) /\ Cardinality(s) \in Nat
  BY FS_Subset, FS_CardinalityType
<1>2. T \subseteq Nat /\ T # {}
  BY <1>1
<1>3. PICK n \in T : \A m \in T : n <= m
  <2> HIDE DEF T
  <2> QED BY <1>2, LeastNat
<1>4. PICK s \in B : Cardinality(s) = n
  OBVIOUS
<1>5. \A t \in SUBSET S : Cardinality(t) < Cardinality(s) => t \notin B
  <2> SUFFICES ASSUME NEW t \in SUBSET S, Cardinality(t) < Cardinality(s), t \in B PROVE FALSE
    OBVIOUS
  <2>1. Cardinality(t) \in T
    OBVIOUS
  <2> QED BY <1>1, <1>3, <1>4, <2>1
<1> QED BY <1>1, <1>4, <1>5

(* Sums over a finite set: the recursion behind SumFunction. *)
SumStep(f, g, s) ==
  IF s = {} THEN 0 ELSE LET x == CHOOSE x \in s : TRUE IN f[x] + g[s \ {x}]
UpTo(S, n) == { s \in SUBSET S : Cardinality(s) <= n }
SumsUpTo(f, S, n, g) == g = [s \in UpTo(S, n) |-> SumStep(f, g, s)]

LEMMA Smaller ==
  ASSUME NEW S, IsFiniteSet(S), NEW s \in SUBSET S, s # {}
  PROVE  LET x == CHOOSE x \in s : TRUE
         IN  /\ x \in s /\ s \ {x} \in SUBSET S /\ IsFiniteSet(s)
             /\ Cardinality(s) \in Nat /\ Cardinality(s) # 0
             /\ Cardinality(s \ {x}) = Cardinality(s) - 1
<1>1. IsFiniteSet(s)
  BY FS_Subset
<1>2. Cardinality(s) \in Nat /\ Cardinality(s) # 0
  BY <1>1, FS_CardinalityType, FS_EmptySet
<1>3. PICK x : x = CHOOSE y \in s : TRUE
  OBVIOUS
<1>4. x \in s
  BY <1>3
<1>5. Cardinality(s \ {x}) = Cardinality(s) - 1
  BY <1>1, <1>4, FS_RemoveElement
<1> QED BY <1>1, <1>2, <1>3, <1>4, <1>5

LEMMA SumsExist ==
  ASSUME NEW S, IsFiniteSet(S), NEW f, NEW n \in Nat
  PROVE  \E g : SumsUpTo(f, S, n, g)
<1> DEFINE T == { k \in Nat : ~ \E g : SumsUpTo(f, S, k, g) }
<1>1. T = {}
  <2> SUFFICES ASSUME T # {} PROVE FALSE
    OBVIOUS
  <2>1. PICK k \in T : \A l \in T : k <= l
    <3>1. T \subseteq Nat
      OBVIOUS
    <3> HIDE DEF T
    <3> QED BY <3>1, LeastNat
  <2>2. PICK g : k # 0 => SumsUpTo(f, S, k - 1, g)
    <3>1. k # 0 => k - 1 \in Nat /\ k - 1 \notin T
      BY <2>1
    <3> QED BY <3>1
  <2>3. k \in Nat
    OBVIOUS
  <2> HIDE DEF T
  <2> DEFINE h == [s \in UpTo(S, k) |-> SumStep(f, g, s)]
  <2>4. ASSUME NEW s \in UpTo(S, k)
        PROVE  SumStep(f, g, s) = SumStep(f, h, s)
    <3>1. CASE s = {}
      BY <3>1 DEF SumStep
    <3>2. CASE s # {}
      <4>1. PICK x : x = CHOOSE y \in s : TRUE
        OBVIOUS
      <4>2. PICK t : t = s \ {x}
        OBVIOUS
      <4>3. /\ t \in SUBSET S /\ Cardinality(t) = Cardinality(s) - 1
            /\ Cardinality(s) \in Nat /\ Cardinality(s) # 0 /\ Cardinality(s) <= k
        BY <3>2, <4>1, <4>2, Smaller DEF UpTo
      <4>4. t \in UpTo(S, k - 1) /\ t \in UpTo(S, k) /\ k # 0
        BY <2>3, <4>3 DEF UpTo
      <4>5. h[t] = SumStep(f, g, t)
        BY <4>4
      <4>6. g[t] = SumStep(f, g, t)
        <5>1. g = [r \in UpTo(S, k - 1) |-> SumStep(f, g, r)]
          BY <2>2, <4>4 DEF SumsUpTo
        <5> HIDE DEF h
        <5> QED BY <4>4, <5>1
      <4> HIDE DEF h
      <4> QED BY <3>2, <4>1, <4>2, <4>5, <4>6 DEF SumStep
    <3> QED BY <3>1, <3>2
  <2>5. h = [s \in UpTo(S, k) |-> SumStep(f, h, s)]
    <3>1. h = [s \in UpTo(S, k) |-> SumStep(f, g, s)]
      OBVIOUS
    <3> HIDE DEF h
    <3> QED BY <2>4, <3>1
  <2>6. SumsUpTo(f, S, k, h)
    <3> HIDE DEF h
    <3> QED BY <2>5 DEF SumsUpTo
  <2> HIDE DEF h
  <2>7. k \notin T
    BY <2>3, <2>6 DEF T
  <2> QED BY <2>7
<1> QED BY <1>1

(* SumFunction is that recursion. *)
LEMMA SumFunctionIs ==
  ASSUME NEW f, NEW S, S = DOMAIN f, IsFiniteSet(S)
  PROVE  \E g : SumFunction(f) = g[S] /\ \A s \in SUBSET S : g[s] = SumStep(f, g, s)
<1> DEFINE R(g) == g = [s \in SUBSET S |-> IF s = {} THEN 0
                          ELSE LET x == CHOOSE x \in s : TRUE IN f[x] + g[s \ {x}]]
           iter == CHOOSE g : R(g)
<1>1. \E g : R(g)
  <2>1. PICK n \in Nat : n = Cardinality(S)
    BY FS_CardinalityType
  <2>2. PICK g : g = [s \in UpTo(S, n) |-> SumStep(f, g, s)]
    BY <2>1, SumsExist DEF SumsUpTo
  <2>3. UpTo(S, n) = SUBSET S
    BY <2>1, FS_Subset DEF UpTo
  <2>4. g = [s \in SUBSET S |-> SumStep(f, g, s)]
    BY <2>2, <2>3
  <2>5. R(g)
    BY <2>4 DEF SumStep
  <2> HIDE DEF R
  <2> QED BY <2>5
<1>2. R(iter)
  <2> HIDE DEF R
  <2> QED BY <1>1
<1>3. SumFunction(f) = iter[S]
  BY DEF SumFunction, SumFunctionOnSet, FoldFunctionOnSet, MapThenFoldSet
<1>4. \A s \in SUBSET S : iter[s] = SumStep(f, iter, s)
  <2>1. PICK g : g = iter
    OBVIOUS
  <2>2. g = [s \in SUBSET S |-> IF s = {} THEN 0
               ELSE LET x == CHOOSE x \in s : TRUE IN f[x] + g[s \ {x}]]
    BY <1>2, <2>1
  <2> HIDE DEF iter
  <2> QED BY <2>1, <2>2 DEF SumStep
<1> HIDE DEF iter
<1> QED BY <1>3, <1>4

(* A sum of numbers that bound the sizes of sets bounds the size of their  *)
(* union; a sum of numbers of elements of disjoint sets is bounded by it.  *)
All(G, s) == UNION { G[x] : x \in s }
Sized(G, s) == IsFiniteSet(All(G, s)) /\ Cardinality(All(G, s)) \in Nat
Disjoint(G, S) == \A x, y \in S : x # y => G[x] \cap G[y] = {}

LEMMA SumStepBounds ==
  ASSUME NEW S, IsFiniteSet(S), NEW f, NEW G, NEW g,
         \A x \in S : f[x] \in Nat /\ IsFiniteSet(G[x]),
         \A s \in SUBSET S : g[s] = SumStep(f, g, s)
  PROVE  /\ \A s \in SUBSET S : g[s] \in Nat /\ Sized(G, s)
         /\ (\A x \in S : Cardinality(G[x]) <= f[x])
              => \A s \in SUBSET S : Cardinality(All(G, s)) <= g[s]
         /\ (Disjoint(G, S) /\ \A x \in S : f[x] <= Cardinality(G[x]))
              => \A s \in SUBSET S : g[s] <= Cardinality(All(G, s))
<1>0. \A x \in S : Cardinality(G[x]) \in Nat
  BY FS_CardinalityType
<1>1. ASSUME NEW s \in SUBSET S, s # {}
      PROVE  \E x \in s, t \in SUBSET S :
               /\ Cardinality(t) < Cardinality(s) /\ t = s \ {x}
               /\ g[s] = f[x] + g[t] /\ All(G, s) = G[x] \cup All(G, t)
  <2>1. PICK x : x = CHOOSE y \in s : TRUE
    OBVIOUS
  <2>2. PICK t : t = s \ {x}
    OBVIOUS
  <2>3. x \in s /\ t \in SUBSET S /\ Cardinality(s) \in Nat /\ Cardinality(t) = Cardinality(s) - 1
    BY <1>1, <2>1, <2>2, Smaller
  <2>4. g[s] = f[x] + g[t]
    BY <1>1, <2>1, <2>2 DEF SumStep
  <2>5. All(G, s) = G[x] \cup All(G, t)
    BY <2>2, <2>3 DEF All
  <2>6. Cardinality(t) < Cardinality(s)
    BY <2>3
  <2> QED BY <2>2, <2>3, <2>4, <2>5, <2>6
<1>2. g[{}] = 0 /\ All(G, {}) = {} /\ IsFiniteSet({}) /\ Cardinality({}) = 0
  BY FS_EmptySet DEF SumStep, All
<1> DEFINE Bad == { s \in SUBSET S : ~ (g[s] \in Nat /\ Sized(G, s)) }
<1>3. Bad = {}
  <2> SUFFICES ASSUME Bad # {} PROVE FALSE
    OBVIOUS
  <2>1. PICK s \in Bad : \A t \in SUBSET S : Cardinality(t) < Cardinality(s) => t \notin Bad
    <3>1. Bad \subseteq SUBSET S
      OBVIOUS
    <3> HIDE DEF Bad
    <3> QED BY <3>1, SmallestSubset
  <2>2. s # {}
    <3> SUFFICES ASSUME s = {} PROVE FALSE
      OBVIOUS
    <3>1. g[{}] \in Nat /\ Sized(G, {})
      <4> HIDE DEF Bad
      <4>1. g[{}] \in Nat
        BY <1>2
      <4>2. IsFiniteSet(All(G, {}))
        BY <1>2
      <4>3. Cardinality(All(G, {})) \in Nat
        BY <1>2
      <4> QED BY <4>1, <4>2, <4>3 DEF Sized
    <3> QED BY <3>1
  <2>3. PICK x \in s, t \in SUBSET S : /\ t \notin Bad /\ g[s] = f[x] + g[t]
                                       /\ All(G, s) = G[x] \cup All(G, t)
    <3> HIDE DEF Bad
    <3>1. s \in SUBSET S
      BY DEF Bad
    <3> QED BY <1>1, <2>1, <2>2, <3>1
  <2>4. x \in S /\ g[t] \in Nat /\ IsFiniteSet(All(G, t))
    BY <2>3 DEF Sized
  <2>5. g[s] \in Nat
    BY <2>3, <2>4
  <2>6. IsFiniteSet(All(G, s))
    <3>1. PICK p, q : p = G[x] /\ q = All(G, t)
      OBVIOUS
    <3>2. IsFiniteSet(p \cup q)
      BY <2>4, <3>1, FS_Union
    <3> QED BY <2>3, <3>1, <3>2
  <2> QED BY <2>5, <2>6, FS_CardinalityType DEF Sized
<1>4. \A s \in SUBSET S : g[s] \in Nat /\ Sized(G, s)
  BY <1>3
<1> HIDE DEF Bad
<1>5. ASSUME \A x \in S : Cardinality(G[x]) <= f[x]
      PROVE  \A s \in SUBSET S : Cardinality(All(G, s)) <= g[s]
  <2> DEFINE Off == { s \in SUBSET S : ~ (Cardinality(All(G, s)) <= g[s]) }
  <2> SUFFICES ASSUME Off # {} PROVE FALSE
    OBVIOUS
  <2>1. PICK s \in Off : \A t \in SUBSET S : Cardinality(t) < Cardinality(s) => t \notin Off
    <3>1. Off \subseteq SUBSET S
      OBVIOUS
    <3> HIDE DEF Off
    <3> QED BY <3>1, SmallestSubset
  <2>2. s # {}
    <3> SUFFICES ASSUME s = {} PROVE FALSE
      OBVIOUS
    <3>1. g[s] = 0 /\ Cardinality(All(G, s)) = 0
      BY <1>2
    <3> QED BY <3>1
  <2>3. PICK x \in s, t \in SUBSET S : /\ t \notin Off /\ g[s] = f[x] + g[t]
                                       /\ All(G, s) = G[x] \cup All(G, t)
    <3> HIDE DEF Off
    <3>1. s \in SUBSET S
      BY DEF Off
    <3> QED BY <1>1, <2>1, <2>2, <3>1
  <2>4. x \in S /\ Cardinality(All(G, t)) <= g[t] /\ s \in SUBSET S
    BY <2>3
  <2>5. PICK c \in Nat, d \in Nat : c = Cardinality(G[x]) /\ d = Cardinality(All(G, t))
    BY <1>0, <1>4, <2>3, <2>4 DEF Sized
  <2>6. Cardinality(All(G, s)) <= c + d
    <3>1. IsFiniteSet(G[x]) /\ IsFiniteSet(All(G, t))
      BY <1>4, <2>3, <2>4 DEF Sized
    <3>2. PICK p, q : p = G[x] /\ q = All(G, t)
      OBVIOUS
    <3>3. Cardinality(p \cup q) = Cardinality(p) + Cardinality(q) - Cardinality(p \cap q)
      BY <3>1, <3>2, FS_Union
    <3>4. Cardinality(p \cap q) \in Nat
      BY <3>1, <3>2, FS_Intersection, FS_CardinalityType
    <3> QED BY <2>3, <2>5, <3>2, <3>3, <3>4
  <2>7. PICK u \in Nat, v \in Nat, z \in Nat : u = f[x] /\ v = g[t] /\ z = Cardinality(All(G, s))
    BY <1>4, <2>3, <2>4 DEF Sized
  <2>8. c <= u /\ d <= v /\ z <= c + d /\ g[s] = u + v
    BY <1>5, <2>3, <2>4, <2>5, <2>6, <2>7
  <2>9. z <= g[s]
    BY <2>8
  <2> QED BY <2>4, <2>7, <2>9
<1>6. ASSUME Disjoint(G, S), \A x \in S : f[x] <= Cardinality(G[x])
      PROVE  \A s \in SUBSET S : g[s] <= Cardinality(All(G, s))
  <2> DEFINE Off == { s \in SUBSET S : ~ (g[s] <= Cardinality(All(G, s))) }
  <2> SUFFICES ASSUME Off # {} PROVE FALSE
    OBVIOUS
  <2>1. PICK s \in Off : \A t \in SUBSET S : Cardinality(t) < Cardinality(s) => t \notin Off
    <3>1. Off \subseteq SUBSET S
      OBVIOUS
    <3> HIDE DEF Off
    <3> QED BY <3>1, SmallestSubset
  <2>2. s # {}
    <3> SUFFICES ASSUME s = {} PROVE FALSE
      OBVIOUS
    <3>1. g[s] = 0 /\ Cardinality(All(G, s)) = 0
      BY <1>2
    <3> QED BY <3>1
  <2>3. PICK x \in s, t \in SUBSET S : /\ t \notin Off /\ t = s \ {x} /\ g[s] = f[x] + g[t]
                                       /\ All(G, s) = G[x] \cup All(G, t)
    <3> HIDE DEF Off
    <3>1. s \in SUBSET S
      BY DEF Off
    <3> QED BY <1>1, <2>1, <2>2, <3>1
  <2>4. x \in S /\ g[t] <= Cardinality(All(G, t)) /\ s \in SUBSET S
    BY <2>3
  <2>5. PICK c \in Nat, d \in Nat : c = Cardinality(G[x]) /\ d = Cardinality(All(G, t))
    BY <1>0, <1>4, <2>3, <2>4 DEF Sized
  <2>6. Cardinality(All(G, s)) = c + d
    <3>1. IsFiniteSet(G[x]) /\ IsFiniteSet(All(G, t))
      BY <1>4, <2>3, <2>4 DEF Sized
    <3>2. PICK p, q : p = G[x] /\ q = All(G, t)
      OBVIOUS
    <3>3. Cardinality(p \cup q) = Cardinality(p) + Cardinality(q) - Cardinality(p \cap q)
      BY <3>1, <3>2, FS_Union
    <3>4. p \cap q = {}
      <4>1. \A y \in t : G[x] \cap G[y] = {}
        BY <1>6, <2>3, <2>4 DEF Disjoint
      <4> QED BY <3>2, <4>1 DEF All
    <3>5. Cardinality(p \cap q) = 0
      BY <1>2, <3>4
    <3>6. Cardinality(p \cup q) = c + d
      BY <2>5, <3>2, <3>3, <3>5
    <3> QED BY <2>3, <3>2, <3>6
  <2>7. PICK u \in Nat, v \in Nat : u = f[x] /\ v = g[t]
    BY <1>4, <2>3, <2>4
  <2>8. u <= c /\ v <= d /\ g[s] = u + v
    BY <1>6, <2>3, <2>4, <2>5, <2>7
  <2>9. g[s] <= c + d
    BY <2>8
  <2> QED BY <2>4, <2>6, <2>9
<1> QED BY <1>4, <1>5, <1>6

LEMMA SumBounds ==
  ASSUME NEW S, IsFiniteSet(S), NEW f, DOMAIN f = S, NEW G,
         \A x \in S : f[x] \in Nat /\ IsFiniteSet(G[x])
  PROVE  /\ SumFunction(f) \in Nat /\ Sized(G, S)
         /\ (\A x \in S : Cardinality(G[x]) <= f[x]) => Cardinality(All(G, S)) <= SumFunction(f)
         /\ (Disjoint(G, S) /\ \A x \in S : f[x] <= Cardinality(G[x]))
              => SumFunction(f) <= Cardinality(All(G, S))
<1>1. PICK g : SumFunction(f) = g[S] /\ \A s \in SUBSET S : g[s] = SumStep(f, g, s)
  BY SumFunctionIs
<1>2. S \in SUBSET S
  OBVIOUS
<1> QED BY <1>1, <1>2, SumStepBounds
=============================================================================
