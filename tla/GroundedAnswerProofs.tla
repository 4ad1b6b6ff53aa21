------------------------- MODULE GroundedAnswerProofs -------------------------
(***************************************************************************)
(* What retrieval and the answers promise for every corpus, question,      *)
(* ranking, budget and pool.  The first sections are about the operators:  *)
(* sorting a finite set, the arithmetic of fused scores, and the folds     *)
(* that select a context.  The last one is about requests: AnswerInv says  *)
(* what is known of a request at each stage, and the properties follow.    *)
(***************************************************************************)
EXTENDS GroundedAnswer, SequenceTheorems, FiniteSetTheorems, FunctionTheorems, TLAPS

\* FoldLemmas for each operator that retrieval folds.
ContextFold == INSTANCE FoldLemmas WITH Op <- AddFitting
SafeFold    == INSTANCE FoldLemmas WITH Op <- KeepSafe
TokenFold   == INSTANCE FoldLemmas WITH Op <- AddTokens
MetFold     == INSTANCE FoldLemmas WITH Op <- Meet
SumFold     == INSTANCE FoldLemmas WITH Op <- Plus
ProductFold == INSTANCE FoldLemmas WITH Op <- Times

\* A finite set with a strict order of its elements has a last one, and can be
\* enumerated in that order.
StrictOrder(R, S) ==
  /\ \A x, y \in S : x # y => <<x, y>> \in R \/ <<y, x>> \in R
  /\ \A x, y, z \in S : <<x, y>> \in R /\ <<y, z>> \in R => <<x, z>> \in R

LEMMA LastExists ==
  ASSUME NEW S, IsFiniteSet(S), NEW R, StrictOrder(R, S)
  PROVE  \A T \in SUBSET S : T # {} => \E x \in T : \A y \in T \ {x} : <<y, x>> \in R
<1> DEFINE HasLast(T) == \E x \in T : \A y \in T \ {x} : <<y, x>> \in R
           N == {n \in Nat : \A T \in SUBSET S : Cardinality(T) = n /\ T # {} => HasLast(T)}
<1>1. \A T \in SUBSET S : IsFiniteSet(T) /\ Cardinality(T) \in Nat
  BY FS_Subset, FS_CardinalityType
<1>2. 0 \in N
  BY <1>1, FS_EmptySet
<1>3. ASSUME NEW n \in Nat, n \in N
      PROVE  n + 1 \in N
  <2> SUFFICES ASSUME NEW T \in SUBSET S, Cardinality(T) = n + 1 PROVE HasLast(T)
    OBVIOUS
  <2>1. PICK x \in T : TRUE
    BY <1>1, FS_EmptySet
  <2> DEFINE U == T \ {x}
  <2>2. U \in SUBSET S /\ Cardinality(U) = n
    <3>1. IsFiniteSet(T)
      BY <1>1
    <3>2. Cardinality(U) = Cardinality(T) - 1
      BY <2>1, <3>1, FS_RemoveElement
    <3> QED
      BY <3>2
  <2>3. CASE U = {}
    BY <2>1, <2>3
  <2>4. CASE U # {}
    <3>1. PICK z \in U : \A y \in U \ {z} : <<y, z>> \in R
      BY <1>3, <2>2, <2>4
    <3>2. x \in S /\ z \in S /\ x # z /\ z \in T
      BY <2>1, <3>1
    <3>3. CASE <<x, z>> \in R
      <4>1. \A y \in T \ {z} : <<y, z>> \in R
        BY <3>1, <3>3
      <4> QED
        BY <3>2, <4>1
    <3>4. CASE <<z, x>> \in R
      <4>1. \A y \in T \ {x} : <<y, x>> \in R
        <5> SUFFICES ASSUME NEW y \in T \ {x}, y # z PROVE <<y, x>> \in R
          BY <3>4
        <5>1. <<y, z>> \in R /\ y \in S
          BY <3>1
        <5> QED
          BY <3>2, <3>4, <5>1 DEF StrictOrder
      <4> QED
        BY <2>1, <4>1
    <3> QED
      BY <3>2, <3>3, <3>4 DEF StrictOrder
  <2> QED
    BY <2>3, <2>4
<1>4. \A n \in Nat : n \in N
  <2> HIDE DEF N
  <2> QED
    BY <1>2, <1>3, ContextFold!SetInduction
<1> QED
  BY <1>1, <1>4

LEMMA SortedEnumeration ==
  ASSUME NEW S, IsFiniteSet(S), NEW R, StrictOrder(R, S)
  PROVE  \E f \in [1..Cardinality(S) -> S] :
           /\ \A i, j \in 1..Cardinality(S) : i # j => f[i] # f[j]
           /\ \A i, j \in 1..Cardinality(S) : i < j => <<f[i], f[j]>> \in R
<1> DEFINE Sorts(f, n) == /\ \A i, j \in 1..n : i # j => f[i] # f[j]
                          /\ \A i, j \in 1..n : i < j => <<f[i], f[j]>> \in R
           N == {n \in Nat : \A T \in SUBSET S :
                   Cardinality(T) = n => \E f \in [1..n -> T] : Sorts(f, n)}
<1>1. \A T \in SUBSET S : IsFiniteSet(T) /\ Cardinality(T) \in Nat
  BY FS_Subset, FS_CardinalityType
<1>2. 0 \in N
  <2> SUFFICES ASSUME NEW T \in SUBSET S PROVE \E f \in [1..0 -> T] : Sorts(f, 0)
    OBVIOUS
  <2>1. << >> \in [1..0 -> T] /\ Sorts(<< >>, 0)
    OBVIOUS
  <2> QED
    BY <2>1
<1>3. ASSUME NEW n \in Nat, n \in N
      PROVE  n + 1 \in N
  <2> SUFFICES ASSUME NEW T \in SUBSET S, Cardinality(T) = n + 1
               PROVE  \E f \in [1..n+1 -> T] : Sorts(f, n + 1)
    OBVIOUS
  <2>1. T # {}
    BY <1>1, FS_EmptySet
  <2>2. PICK x \in T : \A y \in T \ {x} : <<y, x>> \in R
    BY <2>1, LastExists
  <2> DEFINE U == T \ {x}
  <2>3. U \in SUBSET S /\ Cardinality(U) = n
    <3>1. IsFiniteSet(T)
      BY <1>1
    <3>2. Cardinality(U) = Cardinality(T) - 1
      BY <2>2, <3>1, FS_RemoveElement
    <3> QED
      BY <3>2
  <2>4. PICK f \in [1..n -> U] : Sorts(f, n)
    BY <1>3, <2>3
  <2> DEFINE g == [i \in 1..n+1 |-> IF i = n + 1 THEN x ELSE f[i]]
  <2>5. \A i \in 1..n : g[i] = f[i] /\ f[i] \in U
    BY <2>4
  <2>6. g[n + 1] = x
    OBVIOUS
  <2>7. \A i \in 1..n+1 : i = n + 1 \/ i \in 1..n
    OBVIOUS
  <2>8. g \in [1..n+1 -> T]
    BY <2>4
  <2> HIDE DEF g
  <2>9. Sorts(g, n + 1)
    <3>1. \A i, j \in 1..n+1 : i # j => g[i] # g[j]
      BY <2>4, <2>5, <2>6, <2>7
    <3>2. ASSUME NEW i \in 1..n+1, NEW j \in 1..n+1, i < j
          PROVE  <<g[i], g[j]>> \in R
      <4>1. i \in 1..n
        BY <3>2
      <4>2. CASE j = n + 1
        BY <2>2, <2>5, <2>6, <4>1, <4>2
      <4>3. CASE j \in 1..n
        BY <2>4, <2>5, <3>2, <4>1, <4>3
      <4> QED
        BY <2>7, <4>2, <4>3
    <3> QED
      BY <3>1, <3>2
  <2> QED
    BY <2>8, <2>9
<1>4. \A n \in Nat : n \in N
  <2> HIDE DEF N
  <2> QED
    BY <1>2, <1>3, ContextFold!SetInduction
<1> QED
  BY <1>1, <1>4

-----------------------------------------------------------------------------
LEMMA Regroup ==
  ASSUME NEW a \in Int, NEW b \in Int, NEW c \in Int
  PROVE  (a * b) * c = a * (b * c)
OBVIOUS

LEMMA Quotient ==
  ASSUME NEW m \in Nat \ {0}, NEW q \in Nat
  PROVE  (m * q) \div m = q
OBVIOUS

LEMMA SmallerDivisor ==
  ASSUME NEW m \in Nat \ {0}, NEW n \in Nat \ {0}, NEW p \in Nat, NEW q \in Nat \ {0},
         m < n, m * p = n * q
  PROVE  p > q
<1> SUFFICES ASSUME p <= q PROVE FALSE
  OBVIOUS
<1>1. m * p <= m * q
  OBVIOUS
<1>2. m * q < n * q
  OBVIOUS
<1> QED
  BY <1>1, <1>2
-----------------------------------------------------------------------------
(* The folds of the model are those of the instances.                         *)

LEMMA SafeIsFold == \A s : Safe(s) = SafeFold!Folded(<< >>, s)
BY DEF Safe, SafeFold!Folded, FoldLeft, SafeFold!FoldLeft, MapThenFoldSet,
       SafeFold!MapThenFoldSet, Max, SafeFold!Max

LEMMA ContextIsFold == \A s : Context(s) = ContextFold!Folded(<< >>, s)
BY DEF Context, ContextFold!Folded, FoldLeft, ContextFold!FoldLeft, MapThenFoldSet,
       ContextFold!MapThenFoldSet, Max, ContextFold!Max

LEMMA TokensIsFold == \A s : TokensIn(s) = TokenFold!Folded(0, s)
BY DEF TokensIn, TokenFold!Folded, FoldLeft, TokenFold!FoldLeft, MapThenFoldSet,
       TokenFold!MapThenFoldSet, Max, TokenFold!Max

LEMMA MetIsFold == \A s : Met(s) = MetFold!Folded(<< >>, FlattenSeq(s))
BY DEF Met, MetFold!Folded, FoldLeft, MetFold!FoldLeft, MapThenFoldSet,
       MetFold!MapThenFoldSet, Max, MetFold!Max

LEMMA ScoreIsFold ==
  \A c, s : Score(c, s) = SumFold!Folded(0, [i \in DOMAIN s |-> Share(c, s[i])])
BY DEF Score, SumFold!Folded, FoldLeft, SumFold!FoldLeft, MapThenFoldSet,
       SumFold!MapThenFoldSet, Max, SumFold!Max

LEMMA MultipleIsFold == CommonMultiple = ProductFold!Folded(1, [r \in 1 .. Longest |-> r])
BY DEF CommonMultiple, ProductFold!Folded, FoldLeft, ProductFold!FoldLeft, MapThenFoldSet,
       ProductFold!MapThenFoldSet, Max, ProductFold!Max

-----------------------------------------------------------------------------
(* Rankings.                                                                  *)

Distinct(r) == \A i, j \in DOMAIN r : i # j => r[i] # r[j]

LEMMA RankIsPlace ==
  ASSUME NEW r, NEW c \in ToSet(r)
  PROVE  RankIn(c, r) \in DOMAIN r /\ r[RankIn(c, r)] = c
<1>1. \E i \in DOMAIN r : r[i] = c
  BY DEF ToSet
<1> QED
  BY <1>1 DEF RankIn

LEMMA RankOfPlace ==
  ASSUME NEW r, Distinct(r), NEW i \in DOMAIN r
  PROVE  r[i] \in ToSet(r) /\ RankIn(r[i], r) = i
<1>1. r[i] \in ToSet(r)
  BY DEF ToSet
<1> QED
  BY <1>1, RankIsPlace DEF Distinct

LEMMA ToSetOfAppend ==
  ASSUME NEW T, NEW r \in Seq(T), NEW c \in T
  PROVE  /\ Append(r, c) \in Seq(T)
         /\ Len(Append(r, c)) = Len(r) + 1
         /\ DOMAIN Append(r, c) = 1 .. Len(r) + 1
         /\ \A i \in 1 .. Len(r) : Append(r, c)[i] = r[i]
         /\ Append(r, c)[Len(r) + 1] = c
         /\ ToSet(Append(r, c)) = ToSet(r) \cup {c}
<1>1. Len(r) \in Nat /\ DOMAIN r = 1 .. Len(r)
  BY LenProperties
<1>2. /\ Append(r, c) \in Seq(T)
      /\ Len(Append(r, c)) = Len(r) + 1
      /\ DOMAIN Append(r, c) = 1 .. Len(r) + 1
      /\ \A i \in 1 .. Len(r) : Append(r, c)[i] = r[i]
      /\ Append(r, c)[Len(r) + 1] = c
  BY <1>1
<1> DEFINE t == Append(r, c)
<1> HIDE DEF t
<1>3. \A i \in DOMAIN t : i = Len(r) + 1 \/ i \in DOMAIN r
  BY <1>1, <1>2 DEF t
<1>4. /\ \A i \in DOMAIN r : i \in DOMAIN t /\ t[i] = r[i]
      /\ Len(r) + 1 \in DOMAIN t /\ t[Len(r) + 1] = c
  BY <1>1, <1>2 DEF t
<1>5. ToSet(t) = ToSet(r) \cup {c}
  BY <1>3, <1>4 DEF ToSet
<1> QED
  BY <1>2, <1>5 DEF t

LEMMA CountOfDistinct ==
  ASSUME NEW T, NEW r \in Seq(T), Distinct(r)
  PROVE  IsFiniteSet(ToSet(r)) /\ Cardinality(ToSet(r)) = Len(r)
<1>1. Len(r) \in Nat /\ DOMAIN r = 1 .. Len(r) /\ r \in [1 .. Len(r) -> ToSet(r)]
  BY LenProperties DEF ToSet
<1>2. r \in Bijection(1 .. Len(r), ToSet(r))
  BY <1>1, Fun_IsInj, Fun_IsSurj DEF Distinct, ToSet, Bijection, Injection, Surjection, IsInjective
<1>3. ExistsBijection(1 .. Len(r), ToSet(r))
  BY <1>2 DEF ExistsBijection
<1>4. IsFiniteSet(1 .. Len(r)) /\ Cardinality(1 .. Len(r)) = Len(r)
  BY <1>1, FS_Interval
<1> QED
  BY <1>3, <1>4, FS_Bijection

LEMMA FirstOfKeeps ==
  ASSUME NEW T, NEW r \in Seq(T), NEW n \in Nat
  PROVE  /\ FirstOf(r, n) \in Seq(T)
         /\ Len(FirstOf(r, n)) = Min({n, Len(r)})
         /\ Len(FirstOf(r, n)) = n \/ Len(FirstOf(r, n)) = Len(r)
         /\ Len(FirstOf(r, n)) <= n /\ Len(FirstOf(r, n)) <= Len(r)
         /\ \A i \in 1 .. Len(FirstOf(r, n)) : FirstOf(r, n)[i] = r[i]
<1> DEFINE m == Min({n, Len(r)})
<1>1. Len(r) \in Nat /\ DOMAIN r = 1 .. Len(r)
  BY LenProperties
<1>2. /\ m \in Nat /\ m <= n /\ m <= Len(r)
      /\ m = n \/ m = Len(r)
  <2>1. \E x \in {n, Len(r)} : \A y \in {n, Len(r)} : x =< y
    BY <1>1
  <2>2. m \in {n, Len(r)} /\ \A y \in {n, Len(r)} : m =< y
    BY <2>1 DEF Min
  <2> QED
    BY <1>1, <2>2
<1> HIDE DEF m
<1>3. \A i \in 1 .. m : r[i] \in T
  <2>1. ASSUME NEW i \in 1 .. m PROVE i \in 1 .. Len(r)
    <3>1. i \in Int /\ 1 <= i /\ i <= m /\ m \in Nat /\ m <= Len(r)
      BY <1>2
    <3> QED
      BY <1>1, <3>1
  <2> QED
    BY <2>1, ElementOfSeq
<1>4. /\ SubSeq(r, 1, m) \in Seq(T)
      /\ Len(SubSeq(r, 1, m)) = IF 1 <= m THEN m - 1 + 1 ELSE 0
      /\ \A i \in 1 .. m - 1 + 1 : SubSeq(r, 1, m)[i] = r[1 + i - 1]
  BY <1>2, <1>3, SubSeqProperties
<1>5. Len(SubSeq(r, 1, m)) = m
  BY <1>2, <1>4
<1>6. \A i \in 1 .. m : i \in 1 .. m - 1 + 1 /\ 1 + i - 1 = i
  BY <1>2
<1>7. FirstOf(r, n) = SubSeq(r, 1, m)
  BY DEF FirstOf, m
<1> QED
  BY <1>2, <1>4, <1>5, <1>6, <1>7 DEF m

LEMMA FirstOfDistinct ==
  ASSUME NEW T, NEW r \in Seq(T), Distinct(r), NEW n \in Nat
  PROVE  /\ Distinct(FirstOf(r, n))
         /\ ToSet(FirstOf(r, n)) \subseteq ToSet(r)
         /\ \A c \in ToSet(FirstOf(r, n)) : RankIn(c, FirstOf(r, n)) = RankIn(c, r)
         /\ \A c \in ToSet(r) : RankIn(c, r) <= Len(FirstOf(r, n)) => c \in ToSet(FirstOf(r, n))
<1> DEFINE f == FirstOf(r, n)
<1>1. /\ f \in Seq(T) /\ Len(f) <= Len(r) /\ Len(f) \in Nat /\ Len(r) \in Nat
      /\ DOMAIN f = 1 .. Len(f) /\ DOMAIN r = 1 .. Len(r)
      /\ \A i \in 1 .. Len(f) : f[i] = r[i]
  BY FirstOfKeeps, LenProperties
<1> HIDE DEF f
<1>2. \A i \in DOMAIN f : i \in DOMAIN r /\ f[i] = r[i]
  BY <1>1
<1>3. Distinct(f)
  BY <1>2 DEF Distinct
<1>4. ToSet(f) \subseteq ToSet(r)
  BY <1>2 DEF ToSet
<1>5. ASSUME NEW c \in ToSet(f)
      PROVE  RankIn(c, f) = RankIn(c, r)
  <2>1. RankIn(c, f) \in DOMAIN f /\ f[RankIn(c, f)] = c
    BY RankIsPlace
  <2>2. RankIn(c, f) \in DOMAIN r /\ r[RankIn(c, f)] = c
    BY <1>2, <2>1
  <2> QED
    BY <2>2, RankOfPlace
<1>6. ASSUME NEW c \in ToSet(r), RankIn(c, r) <= Len(f)
      PROVE  c \in ToSet(f)
  <2>1. RankIn(c, r) \in DOMAIN r /\ r[RankIn(c, r)] = c
    BY RankIsPlace
  <2>2. RankIn(c, r) \in DOMAIN f
    BY <1>1, <1>6, <2>1
  <2> QED
    BY <1>2, <2>1, <2>2 DEF ToSet
<1> QED
  BY <1>3, <1>4, <1>5, <1>6 DEF f

-----------------------------------------------------------------------------
(* Fusion.                                                                    *)

LEMMA FlatPair ==
  ASSUME NEW a, NEW b
  PROVE  FlattenSeq(<< a, b >>) = a \o b
<1> DEFINE seqs == << a, b >>
           Flat(f) == f = [i \in 1 .. Len(seqs) |-> IF i = 1 THEN seqs[i] ELSE f[i-1] \o seqs[i]]
<1>1. Len(seqs) = 2 /\ seqs[1] = a /\ seqs[2] = b
  OBVIOUS
<1> HIDE DEF seqs
<1>2. \E f : Flat(f)
  <2> DEFINE f == [i \in 1 .. 2 |-> IF i = 1 THEN a ELSE a \o b]
  <2>1. Flat(f)
    BY <1>1
  <2> QED
    BY <2>1
<1>3. ASSUME NEW f, Flat(f) PROVE f[2] = a \o b
  <2>1. 1 \in 1 .. Len(seqs) /\ 2 \in 1 .. Len(seqs)
    BY <1>1
  <2>2. f[1] = a
    BY <1>1, <1>3, <2>1
  <2>3. \A i \in 1 .. Len(seqs) : i # 1 => f[i] = f[i-1] \o seqs[i]
    <3> SUFFICES ASSUME NEW i \in 1 .. Len(seqs), i # 1 PROVE f[i] = f[i-1] \o seqs[i]
      OBVIOUS
    <3>1. f[i] = [k \in 1 .. Len(seqs) |-> IF k = 1 THEN seqs[k] ELSE f[k-1] \o seqs[k]][i]
      BY <1>3, Zenon
    <3> QED
      BY <3>1, Zenon
  <2>5. 2 - 1 = 1 /\ 2 # 1
    OBVIOUS
  <2>4. f[2] = f[2 - 1] \o seqs[2]
    BY <2>1, <2>3, <2>5, Zenon
  <2> QED
    BY <1>1, <2>2, <2>4, <2>5
<1>4. FlattenSeq(seqs) = (CHOOSE f : Flat(f))[2]
  BY <1>1 DEF FlattenSeq
<1> HIDE DEF Flat
<1> QED
  BY <1>2, <1>3, <1>4 DEF seqs

\* The chunks are met each once, those of both rankings and no others.
LEMMA MetHoldsBoth ==
  ASSUME NEW T, NEW a \in Seq(T), NEW b \in Seq(T)
  PROVE  /\ Met(<< a, b >>) \in Seq(T)
         /\ ToSet(Met(<< a, b >>)) = ToSet(a) \cup ToSet(b)
<1> DEFINE s == a \o b
           R == {p \in Nat \X Seq(T) : ToSet(p[2]) = {s[i] : i \in 1 .. p[1]}}
<1>1. /\ s \in Seq(T) /\ Len(s) = Len(a) + Len(b)
      /\ \A i \in 1 .. Len(a) + Len(b) : s[i] = IF i <= Len(a) THEN a[i] ELSE b[i - Len(a)]
  BY ConcatProperties
<1>2. /\ Len(a) \in Nat /\ Len(b) \in Nat
      /\ DOMAIN a = 1 .. Len(a) /\ DOMAIN b = 1 .. Len(b)
  BY LenProperties
<1> HIDE DEF s
<1>3. << 0, << >> >> \in R
  <2>1. << >> \in Seq(T) /\ ToSet(<< >>) = {} /\ {s[i] : i \in 1 .. 0} = {}
    BY DEF ToSet
  <2> QED
    BY <2>1
<1>4. ASSUME NEW k \in 1 .. Len(s), NEW m, << k - 1, m >> \in R
      PROVE  << k, Meet(m, s[k]) >> \in R
  <2>1. m \in Seq(T) /\ ToSet(m) = {s[i] : i \in 1 .. k - 1} /\ k \in Nat /\ s[k] \in T
    BY <1>1, <1>4, ElementOfSeq
  <2>2. {s[i] : i \in 1 .. k} = {s[i] : i \in 1 .. k - 1} \cup {s[k]}
    <3>1. \A i \in 1 .. k : i = k \/ i \in 1 .. k - 1
      BY <2>1
    <3>2. \A i \in 1 .. k - 1 : i \in 1 .. k
      BY <2>1
    <3>3. k \in 1 .. k
      BY <2>1
    <3> QED
      BY <3>1, <3>2, <3>3
  <2>3. CASE s[k] \in ToSet(m)
    BY <2>1, <2>2, <2>3 DEF Meet
  <2>4. CASE s[k] \notin ToSet(m)
    <3>1. Append(m, s[k]) \in Seq(T) /\ ToSet(Append(m, s[k])) = ToSet(m) \cup {s[k]}
      BY <2>1, ToSetOfAppend
    <3> QED
      BY <2>1, <2>2, <2>4, <3>1 DEF Meet
  <2> QED
    BY <2>3, <2>4
<1>5. << Len(s), MetFold!Folded(<< >>, s) >> \in R
  <2> HIDE DEF R
  <2> QED
    BY <1>1, <1>3, <1>4, MetFold!FoldPassesOn
<1>6. {s[i] : i \in 1 .. Len(s)} = ToSet(a) \cup ToSet(b)
  <2>1. \A i \in 1 .. Len(s) : s[i] \in ToSet(a) \cup ToSet(b)
    <3> SUFFICES ASSUME NEW i \in 1 .. Len(s) PROVE s[i] \in ToSet(a) \cup ToSet(b)
      OBVIOUS
    <3>1. CASE i <= Len(a)
      BY <1>1, <1>2, <3>1 DEF ToSet
    <3>2. CASE ~(i <= Len(a))
      <4>1. i - Len(a) \in DOMAIN b /\ s[i] = b[i - Len(a)]
        BY <1>1, <1>2, <3>2
      <4> QED
        BY <4>1 DEF ToSet
    <3> QED
      BY <3>1, <3>2
  <2>2. \A i \in DOMAIN a : i \in 1 .. Len(s) /\ s[i] = a[i]
    BY <1>1, <1>2
  <2>3. \A i \in DOMAIN b : i + Len(a) \in 1 .. Len(s) /\ s[i + Len(a)] = b[i]
    BY <1>1, <1>2
  <2> QED
    BY <2>1, <2>2, <2>3 DEF ToSet
<1>7. Met(<< a, b >>) = MetFold!Folded(<< >>, s)
  BY MetIsFold, FlatPair DEF s
<1> QED
  BY <1>5, <1>6, <1>7

LEMMA ScoreOfPair ==
  ASSUME NEW c, NEW a, NEW b, Share(c, a) \in Int
  PROVE  Score(c, << a, b >>) = Share(c, a) + Share(c, b)
<1>1. [i \in DOMAIN << a, b >> |-> Share(c, << a, b >>[i])] = << Share(c, a), Share(c, b) >>
  OBVIOUS
<1>2. SumFold!Folded(0, << Share(c, a), Share(c, b) >>) = Plus(Plus(0, Share(c, a)), Share(c, b))
  <2>1. \A x, y : SumFold!Folded(0, << x, y >>) = Plus(Plus(0, x), y)
    BY SumFold!FoldOfFew
  <2> QED
    BY <2>1
<1>3. Plus(Plus(0, Share(c, a)), Share(c, b)) = Share(c, a) + Share(c, b)
  BY DEF Plus
<1> QED
  BY <1>1, <1>2, <1>3, ScoreIsFold

LEMMA LongestIsNat == Longest \in Nat
BY ChunksAssumption, FS_CardinalityType DEF Longest

\* Every denominator up to the longest ranking divides the common multiple.
LEMMA MultipleDivides ==
  /\ CommonMultiple \in Nat \ {0}
  /\ \A r \in 1 .. Longest : \E q \in Nat \ {0} : CommonMultiple = (FusionK + r) * q
<1> DEFINE s == [r \in 1 .. Longest |-> r]
           Divides(m, r) == \E q \in Nat \ {0} : m = (FusionK + r) * q
           R == {p \in Nat \X (Nat \ {0}) : \A r \in 1 .. p[1] : Divides(p[2], r)}
<1>1. Longest \in Nat /\ FusionK \in Nat
  BY LongestIsNat, FusionAssumption
<1>2. s \in Seq(Nat) /\ Len(s) = Longest /\ \A k \in 1 .. Len(s) : s[k] = k
  BY <1>1
<1> HIDE DEF s
<1>3. << 0, 1 >> \in R
  OBVIOUS
<1>4. ASSUME NEW k \in 1 .. Len(s), NEW m, << k - 1, m >> \in R
      PROVE  << k, Times(m, s[k]) >> \in R
  <2>1. /\ k \in Nat /\ k - 1 \in Nat /\ m \in Nat \ {0} /\ FusionK + k \in Nat \ {0}
        /\ \A r \in 1 .. k - 1 : Divides(m, r)
    <3> HIDE DEF Divides
    <3>1. m \in Nat \ {0} /\ \A r \in 1 .. k - 1 : Divides(m, r)
      BY <1>4
    <3>2. k \in Nat /\ k - 1 \in Nat /\ FusionK + k \in Nat \ {0}
      BY <1>1, <1>2
    <3> QED
      BY <3>1, <3>2
  <2>2. Times(m, s[k]) = m * (FusionK + k)
    BY <1>2 DEF Times
  <2>3. m * (FusionK + k) \in Nat \ {0}
    BY <2>1
  <2>4. ASSUME NEW r \in 1 .. k PROVE Divides(m * (FusionK + k), r)
    <3>1. CASE r = k
      <4>1. m * (FusionK + k) = (FusionK + k) * m
        BY <1>1, <2>1
      <4> QED
        BY <2>1, <3>1, <4>1
    <3>2. CASE r # k
      <4>1. r \in 1 .. k - 1
        BY <2>1, <3>2
      <4>2. PICK q \in Nat \ {0} : m = (FusionK + r) * q
        BY <2>1, <4>1
      <4>3. m * (FusionK + k) = (FusionK + r) * (q * (FusionK + k))
        BY <1>1, <2>1, <4>2, Regroup
      <4>4. q * (FusionK + k) \in Nat \ {0}
        BY <2>1
      <4> QED
        BY <4>3, <4>4
    <3> QED
      BY <3>1, <3>2
  <2> HIDE DEF Divides
  <2> QED
    BY <2>1, <2>2, <2>3, <2>4
<1>5. << Len(s), ProductFold!Folded(1, s) >> \in R
  <2> HIDE DEF R
  <2> QED
    BY <1>2, <1>3, <1>4, ProductFold!FoldPassesOn
<1>6. CommonMultiple = ProductFold!Folded(1, s)
  BY MultipleIsFold DEF s
<1> QED
  BY <1>2, <1>5, <1>6

\* A better rank weighs strictly more, and every rank weighs something.
LEMMA WeightFalls ==
  /\ \A r \in 1 .. Longest : Weight(r) \in Nat \ {0}
  /\ \A r, t \in 1 .. Longest : r < t => Weight(r) > Weight(t)
<1>1. Longest \in Nat /\ FusionK \in Nat
  BY LongestIsNat, FusionAssumption
<1>2. ASSUME NEW r \in 1 .. Longest
      PROVE  Weight(r) \in Nat \ {0} /\ CommonMultiple = (FusionK + r) * Weight(r)
  <2>1. PICK q \in Nat \ {0} : CommonMultiple = (FusionK + r) * q
    BY MultipleDivides
  <2>2. FusionK + r \in Nat \ {0}
    BY <1>1
  <2>3. Weight(r) = q
    BY <2>1, <2>2, Quotient DEF Weight
  <2> QED
    BY <2>1, <2>3
<1>3. ASSUME NEW r \in 1 .. Longest, NEW t \in 1 .. Longest, r < t
      PROVE  Weight(r) > Weight(t)
  <2>1. FusionK + r \in Nat \ {0} /\ FusionK + t \in Nat \ {0} /\ FusionK + r < FusionK + t
    BY <1>1, <1>3
  <2> QED
    BY <1>2, <2>1, SmallerDivisor
<1> QED
  BY <1>2, <1>3

\* What a place gives: nothing beyond the last rank.
Graded(place) == IF place \in 1 .. Longest THEN Weight(place) ELSE 0

LEMMA GradedFalls ==
  \A p, q \in 1 .. Longest + 1 :
    /\ Graded(p) \in Nat
    /\ p < q => Graded(p) > Graded(q)
    /\ p <= q => Graded(p) >= Graded(q)
<1>1. Longest \in Nat
  BY LongestIsNat
<1>2. ASSUME NEW p \in 1 .. Longest + 1 PROVE Graded(p) \in Nat
  BY WeightFalls DEF Graded
<1>3. ASSUME NEW p \in 1 .. Longest + 1, NEW q \in 1 .. Longest + 1, p < q
      PROVE  Graded(p) > Graded(q)
  <2>1. p \in 1 .. Longest
    BY <1>1, <1>3
  <2>2. CASE q \in 1 .. Longest
    BY <1>3, <2>1, <2>2, WeightFalls DEF Graded
  <2>3. CASE q \notin 1 .. Longest
    BY <2>1, <2>3, WeightFalls DEF Graded
  <2> QED
    BY <2>2, <2>3
<1> QED
  BY <1>2, <1>3

Ranking(r) == r \in Seq(ChunkIds) /\ Distinct(r)

LEMMA RankingIsShort ==
  ASSUME NEW r, Ranking(r)
  PROVE  /\ Len(r) \in Nat /\ Len(r) <= Longest /\ DOMAIN r = 1 .. Len(r)
         /\ \A c \in ToSet(r) : RankIn(c, r) \in 1 .. Longest /\ RankIn(c, r) \in Nat
<1>1. r \in Seq(ChunkIds) /\ Distinct(r)
  BY DEF Ranking
<1>2. Len(r) \in Nat /\ DOMAIN r = 1 .. Len(r)
  BY <1>1, LenProperties
<1>3. ToSet(r) \in SUBSET ChunkIds
  BY <1>1, <1>2, ElementOfSeq DEF ToSet
<1>4. Len(r) <= Longest
  BY <1>1, <1>3, CountOfDistinct, ChunksAssumption, FS_Subset DEF Longest
<1>5. \A c \in ToSet(r) : RankIn(c, r) \in 1 .. Len(r)
  BY <1>2, RankIsPlace
<1> QED
  BY <1>2, <1>4, <1>5, LongestIsNat

\* Place of a chunk in a ranking, past its end when it is absent.
PlaceIn(c, r) == IF c \in ToSet(r) THEN RankIn(c, r) ELSE Longest + 1

LEMMA ShareIsGraded ==
  ASSUME NEW r, Ranking(r), NEW c
  PROVE  PlaceIn(c, r) \in 1 .. Longest + 1 /\ Share(c, r) = Graded(PlaceIn(c, r))
<1>1. Longest \in Nat
  BY LongestIsNat
<1>2. CASE c \in ToSet(r)
  BY <1>1, <1>2, RankingIsShort DEF Share, Graded, PlaceIn
<1>3. CASE c \notin ToSet(r)
  BY <1>1, <1>3 DEF Share, Graded, PlaceIn
<1> QED
  BY <1>2, <1>3

LEMMA ScoreIsGraded ==
  ASSUME NEW a, Ranking(a), NEW b, Ranking(b), NEW c
  PROVE  /\ Score(c, << a, b >>) = Graded(PlaceIn(c, a)) + Graded(PlaceIn(c, b))
         /\ Score(c, << a, b >>) \in Nat
<1>1. /\ Share(c, a) = Graded(PlaceIn(c, a)) /\ Graded(PlaceIn(c, a)) \in Nat
      /\ Share(c, b) = Graded(PlaceIn(c, b)) /\ Graded(PlaceIn(c, b)) \in Nat
  BY ShareIsGraded, GradedFalls
<1>2. Score(c, << a, b >>) = Share(c, a) + Share(c, b)
  BY <1>1, ScoreOfPair
<1> QED
  BY <1>1, <1>2

\* All chunks of both rankings, once each, in the order of fusion.
LEMMA OrderedIsSorted ==
  ASSUME NEW a, Ranking(a), NEW b, Ranking(b)
  PROVE  LET met == Met(<< a, b >>)
             order == Ordered(met, << a, b >>)
         IN  /\ Ranking(order)
             /\ ToSet(order) = ToSet(a) \cup ToSet(b)
             /\ Len(order) = Cardinality(ToSet(a) \cup ToSet(b))
             /\ \A i, j \in DOMAIN order :
                  i < j => Before(order[i], order[j], met, << a, b >>)
<1> DEFINE rankings == << a, b >>
           met == Met(rankings)
           S == ToSet(met)
           order == Ordered(met, rankings)
           R == {p \in S \X S : Before(p[1], p[2], met, rankings)}
<1>1. a \in Seq(ChunkIds) /\ b \in Seq(ChunkIds)
  BY DEF Ranking
<1>2. met \in Seq(ChunkIds) /\ S = ToSet(a) \cup ToSet(b)
  BY <1>1, MetHoldsBoth
<1>3. \A c : Score(c, rankings) \in Nat
  BY ScoreIsGraded
<1>4. \A c \in S : RankIn(c, met) \in DOMAIN met /\ met[RankIn(c, met)] = c
  BY RankIsPlace
<1> HIDE DEF rankings, met
<1>5. DOMAIN met = 1 .. Len(met) /\ Len(met) \in Nat
  BY <1>2, LenProperties
<1>6. S \in SUBSET ChunkIds /\ IsFiniteSet(S)
  <2>1. S \in SUBSET ChunkIds
    BY <1>2, <1>5, ElementOfSeq DEF ToSet
  <2> QED
    BY <2>1, ChunksAssumption, FS_Subset
<1>7. StrictOrder(R, S)
  <2>1. \A c \in S : RankIn(c, met) \in Nat
    BY <1>4, <1>5
  <2>2. \A c, d \in S : c # d => RankIn(c, met) # RankIn(d, met)
    BY <1>4
  <2>3. ASSUME NEW c \in S, NEW d \in S, c # d
        PROVE  << c, d >> \in R \/ << d, c >> \in R
    BY <1>3, <2>1, <2>2, <2>3 DEF Before
  <2>4. ASSUME NEW c \in S, NEW d \in S, NEW e \in S, << c, d >> \in R, << d, e >> \in R
        PROVE  << c, e >> \in R
    <3>1. Before(c, d, met, rankings) /\ Before(d, e, met, rankings)
      BY <2>4
    <3>2. Before(c, e, met, rankings)
      BY <1>3, <2>1, <3>1 DEF Before
    <3> QED
      BY <3>2
  <2> QED
    BY <2>3, <2>4 DEF StrictOrder
<1> DEFINE n == Cardinality(S)
<1>8. n \in Nat
  BY <1>6, FS_CardinalityType
<1>9. \E o \in SetToSeqs(S) :
        \A i, j \in DOMAIN o : i < j => Before(o[i], o[j], met, rankings)
  <2>1. PICK f \in [1 .. n -> S] :
          /\ \A i, j \in 1 .. n : i # j => f[i] # f[j]
          /\ \A i, j \in 1 .. n : i < j => << f[i], f[j] >> \in R
    <3> HIDE DEF R, S
    <3> QED
      BY <1>6, <1>7, SortedEnumeration
  <2>2. f \in SetToSeqs(S) /\ DOMAIN f = 1 .. n
    BY <2>1 DEF SetToSeqs
  <2> QED
    BY <2>1, <2>2
<1>10. /\ order \in SetToSeqs(S)
       /\ \A i, j \in DOMAIN order : i < j => Before(order[i], order[j], met, rankings)
  BY <1>9 DEF Ordered
<1> HIDE DEF order, S
<1>11. /\ order \in [1 .. n -> S]
       /\ \A i, j \in 1 .. n : i # j => order[i] # order[j]
  BY <1>10 DEF SetToSeqs
<1>12. order \in Seq(S) /\ Len(order) = n /\ DOMAIN order = 1 .. n
  BY <1>8, <1>11
<1>13. order \in Seq(ChunkIds) /\ Distinct(order)
  BY <1>6, <1>11, <1>12, SeqMonotonic DEF Distinct
<1>14. ToSet(order) = S
  <2>1. ToSet(order) \in SUBSET S
    BY <1>11, <1>12 DEF ToSet
  <2>2. Cardinality(ToSet(order)) = n
    BY <1>12, <1>13, CountOfDistinct
  <2> QED
    BY <1>6, <2>1, <2>2, FS_Subset
<1> QED
  BY <1>2, <1>10, <1>12, <1>13, <1>14 DEF order, S, met, rankings, Ranking

\* A chunk with places at least as good, one of them better, comes first.
Betters(c, d, a, b) ==
  \/ /\ PlaceIn(c, a) <= PlaceIn(d, a) /\ PlaceIn(c, b) <= PlaceIn(d, b)
     /\ PlaceIn(c, a) < PlaceIn(d, a) \/ PlaceIn(c, b) < PlaceIn(d, b)
  \/ /\ PlaceIn(c, a) <= PlaceIn(d, b) /\ PlaceIn(c, b) <= PlaceIn(d, a)
     /\ PlaceIn(c, a) < PlaceIn(d, b) \/ PlaceIn(c, b) < PlaceIn(d, a)

LEMMA BetterScores ==
  ASSUME NEW a, Ranking(a), NEW b, Ranking(b), NEW c, NEW d, Betters(c, d, a, b)
  PROVE  Score(c, << a, b >>) > Score(d, << a, b >>)
<1>1. /\ PlaceIn(c, a) \in 1 .. Longest + 1 /\ PlaceIn(c, b) \in 1 .. Longest + 1
      /\ PlaceIn(d, a) \in 1 .. Longest + 1 /\ PlaceIn(d, b) \in 1 .. Longest + 1
  BY ShareIsGraded
<1>2. /\ Score(c, << a, b >>) = Graded(PlaceIn(c, a)) + Graded(PlaceIn(c, b))
      /\ Score(d, << a, b >>) = Graded(PlaceIn(d, a)) + Graded(PlaceIn(d, b))
  BY ScoreIsGraded
<1>3. \A p, q \in 1 .. Longest + 1 :
        /\ Graded(p) \in Nat
        /\ p < q => Graded(p) > Graded(q)
        /\ p <= q => Graded(p) >= Graded(q)
  BY GradedFalls
<1> DEFINE ca == PlaceIn(c, a)  cb == PlaceIn(c, b)  da == PlaceIn(d, a)  db == PlaceIn(d, b)
<1>4. CASE ca <= da /\ cb <= db /\ (ca < da \/ cb < db)
  BY <1>1, <1>2, <1>3, <1>4
<1>5. CASE ca <= db /\ cb <= da /\ (ca < db \/ cb < da)
  BY <1>1, <1>2, <1>3, <1>5
<1> QED
  BY <1>4, <1>5 DEF Betters

LEMMA FusedRespects ==
  ASSUME NEW a, Ranking(a), NEW b, Ranking(b), NEW limit \in Nat
  PROVE  LET fused == Fused(<< a, b >>, limit) IN
           /\ Ranking(fused)
           /\ ToSet(fused) \subseteq ToSet(a) \cup ToSet(b)
           /\ Len(fused) = Min({limit, Cardinality(ToSet(a) \cup ToSet(b))})
           /\ \A d \in ToSet(fused), c \in ToSet(a) \cup ToSet(b) :
                Betters(c, d, a, b) => c \in ToSet(fused) /\ RankIn(c, fused) < RankIn(d, fused)
<1> DEFINE rankings == << a, b >>
           met == Met(rankings)
           order == Ordered(met, rankings)
           fused == FirstOf(order, limit)
<1>1. /\ Ranking(order)
      /\ ToSet(order) = ToSet(a) \cup ToSet(b)
      /\ Len(order) = Cardinality(ToSet(a) \cup ToSet(b))
      /\ \A i, j \in DOMAIN order : i < j => Before(order[i], order[j], met, rankings)
  BY OrderedIsSorted
<1>2. fused = Fused(rankings, limit)
  BY DEF Fused
<1> HIDE DEF met, order
<1>3. order \in Seq(ChunkIds) /\ Distinct(order)
  BY <1>1 DEF Ranking
<1>4. /\ fused \in Seq(ChunkIds)
      /\ Len(fused) = Min({limit, Len(order)})
      /\ Distinct(fused)
      /\ ToSet(fused) \subseteq ToSet(order)
      /\ \A c \in ToSet(fused) : RankIn(c, fused) = RankIn(c, order)
      /\ \A c \in ToSet(order) : RankIn(c, order) <= Len(fused) => c \in ToSet(fused)
  BY <1>3, FirstOfKeeps, FirstOfDistinct
<1> HIDE DEF fused
<1>5. ASSUME NEW d \in ToSet(fused), NEW c \in ToSet(order), Betters(c, d, a, b)
      PROVE  c \in ToSet(fused) /\ RankIn(c, fused) < RankIn(d, fused)
  <2> DEFINE i == RankIn(c, order)
             j == RankIn(d, order)
  <2>1. i \in DOMAIN order /\ order[i] = c /\ j \in DOMAIN order /\ order[j] = d
    BY <1>4, RankIsPlace
  <2>2. i \in Nat /\ j \in Nat
    BY <1>1, <2>1, RankingIsShort
  <2>3. Score(c, rankings) > Score(d, rankings)
    BY <1>5, BetterScores
  <2>4. Score(c, rankings) \in Nat /\ Score(d, rankings) \in Nat
    BY ScoreIsGraded
  <2> HIDE DEF i, j, rankings
  <2>5. i # j
    BY <2>1, <2>3, <2>4
  <2>6. ~(j < i)
    <3> SUFFICES ASSUME j < i PROVE FALSE
      OBVIOUS
    <3>1. Before(d, c, met, rankings)
      BY <1>1, <2>1
    <3> QED
      BY <2>3, <2>4, <3>1 DEF Before
  <2>7. i < j
    BY <2>2, <2>5, <2>6
  <2>8. j = RankIn(d, fused) /\ j <= Len(fused)
    <3>1. Ranking(fused)
      BY <1>4 DEF Ranking
    <3>2. RankIn(d, fused) \in DOMAIN fused /\ DOMAIN fused = 1 .. Len(fused)
      BY <1>4, <3>1, RankIsPlace, RankingIsShort
    <3>3. j = RankIn(d, fused)
      BY <1>4 DEF j
    <3> QED
      BY <3>2, <3>3
  <2>9. Len(fused) \in Nat
    BY <1>4, LenProperties
  <2>10. c \in ToSet(fused)
    BY <1>4, <2>2, <2>7, <2>8, <2>9 DEF i
  <2> QED
    BY <1>4, <2>7, <2>8, <2>10 DEF i
<1> QED
  BY <1>1, <1>2, <1>4, <1>5 DEF Ranking

LEMMA RerankedKeeps ==
  ASSUME NEW r, Ranking(r), NEW limit \in Nat, NEW t \in Reranked(r, limit)
  PROVE  Ranking(t) /\ ToSet(t) \subseteq ToSet(r)
<1> DEFINE S == ToSet(r)
           n == Cardinality(S)
<1>1. r \in Seq(ChunkIds) /\ Distinct(r) /\ DOMAIN r = 1 .. Len(r) /\ Len(r) \in Nat
  BY LenProperties DEF Ranking
<1>2. S \in SUBSET ChunkIds /\ n \in Nat
  <2>1. S \in SUBSET ChunkIds
    BY <1>1, ElementOfSeq DEF ToSet
  <2> QED
    BY <1>1, <2>1, CountOfDistinct
<1>3. PICK o \in SetToSeqs(S) : t = FirstOf(o, limit)
  BY DEF Reranked
<1> HIDE DEF n, S
<1>4. o \in [1 .. n -> S] /\ \A i, j \in 1 .. n : i # j => o[i] # o[j]
  BY DEF SetToSeqs, n
<1>5. o \in Seq(S) /\ DOMAIN o = 1 .. n
  BY <1>2, <1>4
<1>6. o \in Seq(ChunkIds) /\ Distinct(o)
  BY <1>2, <1>4, <1>5, SeqMonotonic DEF Distinct
<1>7. ToSet(o) \subseteq S
  BY <1>4, <1>5 DEF ToSet
<1> QED
  BY <1>3, <1>6, <1>7, FirstOfKeeps, FirstOfDistinct DEF Ranking, S

-----------------------------------------------------------------------------
(* The context.                                                               *)

Increases(s, results) ==
  \A i, j \in DOMAIN s : i < j => RankIn(s[i], results) < RankIn(s[j], results)

LEMMA IncreasesAppend ==
  ASSUME NEW results, NEW T, NEW s \in Seq(T), NEW c \in T, Increases(s, results),
         \A d \in ToSet(s) : RankIn(d, results) < RankIn(c, results)
  PROVE  Increases(Append(s, c), results)
<1> DEFINE t == Append(s, c)
<1>1. Len(s) \in Nat /\ DOMAIN s = 1 .. Len(s)
  BY LenProperties
<1>2. /\ DOMAIN t = 1 .. Len(s) + 1
      /\ \A i \in 1 .. Len(s) : t[i] = s[i]
      /\ t[Len(s) + 1] = c
  BY ToSetOfAppend
<1> HIDE DEF t
<1>3. ASSUME NEW i \in DOMAIN t, NEW j \in DOMAIN t, i < j
      PROVE  RankIn(t[i], results) < RankIn(t[j], results)
  <2>1. i \in 1 .. Len(s) /\ (j \in 1 .. Len(s) \/ j = Len(s) + 1)
    BY <1>1, <1>2, <1>3
  <2>2. CASE j \in 1 .. Len(s)
    BY <1>1, <1>2, <1>3, <2>1, <2>2 DEF Increases
  <2>3. CASE j = Len(s) + 1
    <3>1. t[i] = s[i] /\ s[i] \in ToSet(s) /\ t[j] = c
      BY <1>1, <1>2, <2>1, <2>3 DEF ToSet
    <3> QED
      BY <3>1
  <2> QED
    BY <2>1, <2>2, <2>3
<1> QED
  BY <1>3 DEF Increases, t

LEMMA IncreasesDistinct ==
  ASSUME NEW results, NEW s, NEW T, s \in Seq(T), Increases(s, results),
         \A c \in ToSet(s) : RankIn(c, results) \in Nat
  PROVE  Distinct(s)
<1>1. DOMAIN s = 1 .. Len(s) /\ Len(s) \in Nat
  BY LenProperties
<1>2. \A i \in DOMAIN s : s[i] \in ToSet(s)
  BY DEF ToSet
<1>3. ASSUME NEW i \in DOMAIN s, NEW j \in DOMAIN s, i < j PROVE s[i] # s[j]
  <2>1. RankIn(s[i], results) < RankIn(s[j], results) /\ RankIn(s[i], results) \in Nat
    BY <1>2, <1>3 DEF Increases
  <2> QED
    BY <2>1
<1>4. \A i, j \in DOMAIN s : i # j => i < j \/ j < i
  BY <1>1
<1> QED
  BY <1>3, <1>4 DEF Distinct

\* The evidence without instructions, in the order of the results.
LEMMA SafeKeepsOrder ==
  ASSUME NEW results, Ranking(results)
  PROVE  /\ Safe(results) \in Seq(ChunkIds)
         /\ ToSet(Safe(results)) = {c \in ToSet(results) : ~Chunk[c].instructs}
         /\ Increases(Safe(results), results)
<1> DEFINE Kept(k) == {results[i] : i \in {n \in 1 .. k : ~Chunk[results[n]].instructs}}
           R == {p \in Nat \X Seq(ChunkIds) :
                   ToSet(p[2]) = Kept(p[1]) /\ Increases(p[2], results)}
<1>1. /\ results \in Seq(ChunkIds) /\ Distinct(results)
      /\ DOMAIN results = 1 .. Len(results) /\ Len(results) \in Nat
  BY LenProperties DEF Ranking
<1>2. \A i \in 1 .. Len(results) : RankIn(results[i], results) = i
  BY <1>1, RankOfPlace
<1>3. << 0, << >> >> \in R
  <2>1. << >> \in Seq(ChunkIds) /\ ToSet(<< >>) = {} /\ Kept(0) = {} /\ Increases(<< >>, results)
    BY DEF ToSet, Increases
  <2> QED
    BY <2>1
<1>4. ASSUME NEW k \in 1 .. Len(results), NEW s, << k - 1, s >> \in R
      PROVE  << k, KeepSafe(s, results[k]) >> \in R
  <2>1. /\ s \in Seq(ChunkIds) /\ ToSet(s) = Kept(k - 1) /\ Increases(s, results)
        /\ k \in Nat /\ results[k] \in ChunkIds
    BY <1>1, <1>4, ElementOfSeq
  <2>2. \A i \in 1 .. k : i = k \/ i \in 1 .. k - 1
    BY <2>1
  <2>3. k \in 1 .. k /\ \A i \in 1 .. k - 1 : i \in 1 .. k
    BY <2>1
  <2>4. CASE Chunk[results[k]].instructs
    <3>1. Kept(k) = Kept(k - 1)
      BY <2>2, <2>3, <2>4
    <3> QED
      BY <2>1, <2>4, <3>1 DEF KeepSafe
  <2>5. CASE ~Chunk[results[k]].instructs
    <3>1. Kept(k) = Kept(k - 1) \cup {results[k]}
      BY <2>2, <2>3, <2>5
    <3> DEFINE t == Append(s, results[k])
    <3>2. t \in Seq(ChunkIds) /\ ToSet(t) = Kept(k)
      BY <2>1, <3>1, ToSetOfAppend
    <3>3. ASSUME NEW d \in ToSet(s) PROVE RankIn(d, results) < RankIn(results[k], results)
      <4>1. PICK i \in 1 .. k - 1 : d = results[i]
        BY <2>1
      <4>2. i \in 1 .. Len(results) /\ i < k
        BY <1>1, <4>1
      <4> QED
        BY <1>2, <4>1, <4>2
    <3>4. Increases(t, results)
      BY <2>1, <3>3, IncreasesAppend
    <3> QED
      BY <2>1, <2>5, <3>2, <3>4 DEF KeepSafe
  <2> QED
    BY <2>4, <2>5
<1>5. << Len(results), SafeFold!Folded(<< >>, results) >> \in R
  <2> HIDE DEF R
  <2> QED
    BY <1>1, <1>3, <1>4, SafeFold!FoldPassesOn
<1>6. Kept(Len(results)) = {c \in ToSet(results) : ~Chunk[c].instructs}
  BY <1>1 DEF ToSet
<1> QED
  BY <1>5, <1>6, SafeIsFold

\* What adding a chunk to a context does to its tokens and its documents.
LEMMA AppendFits ==
  ASSUME NEW a \in Seq(ChunkIds), NEW c \in ChunkIds
  PROVE  LET t == Append(a, c) IN
           /\ TokensIn(t) = TokensIn(a) + Chunk[c].tokens
           /\ \A d : FromDocument(t, d) =
                IF Chunk[c].doc = Chunk[d].doc THEN FromDocument(a, d) \cup {c} ELSE FromDocument(a, d)
<1>1. TokensIn(Append(a, c)) = AddTokens(TokensIn(a), c)
  BY TokensIsFold, TokenFold!FoldTakesLast
<1>2. ToSet(Append(a, c)) = ToSet(a) \cup {c}
  BY ToSetOfAppend
<1> QED
  BY <1>1, <1>2 DEF AddTokens, FromDocument

LEMMA DocumentsAreFinite ==
  ASSUME NEW a \in Seq(ChunkIds), NEW c
  PROVE  IsFiniteSet(FromDocument(a, c)) /\ Cardinality(FromDocument(a, c)) \in Nat
<1>1. DOMAIN a = 1 .. Len(a)
  BY LenProperties
<1>2. FromDocument(a, c) \in SUBSET ChunkIds
  BY <1>1, ElementOfSeq DEF FromDocument, ToSet
<1> QED
  BY <1>2, ChunksAssumption, FS_Subset, FS_CardinalityType

\* What did not fit does not fit later.
LEMMA UnfitStaysUnfit ==
  ASSUME NEW a \in Seq(ChunkIds), NEW c \in ChunkIds, NEW d \in ChunkIds, ~Fits(a, d),
         TokensIn(a) \in Nat
  PROVE  ~Fits(Append(a, c), d)
<1> DEFINE t == Append(a, c)
<1>1. t \in Seq(ChunkIds) /\ ToSet(t) = ToSet(a) \cup {c}
  BY ToSetOfAppend
<1>2. /\ TokensIn(t) = TokensIn(a) + Chunk[c].tokens
      /\ FromDocument(a, d) \subseteq FromDocument(t, d)
  BY AppendFits
<1> HIDE DEF t
<1>3. Cardinality(FromDocument(a, d)) <= Cardinality(FromDocument(t, d))
  BY <1>1, <1>2, DocumentsAreFinite, FS_Subset
<1>4. /\ Cardinality(FromDocument(a, d)) \in Nat /\ Cardinality(FromDocument(t, d)) \in Nat
      /\ Chunk[c].tokens \in Nat /\ Chunk[d].tokens \in Nat
      /\ MaxTokens \in Nat /\ MaxPerDocument \in Nat
  BY <1>1, DocumentsAreFinite, ChunksAssumption, BudgetAssumption
<1>5. CASE d \in ToSet(a)
  BY <1>1, <1>5 DEF Fits, t
<1>6. CASE ~(Cardinality(FromDocument(a, d)) < MaxPerDocument)
  <2>1. ~(Cardinality(FromDocument(t, d)) < MaxPerDocument)
    BY <1>3, <1>4, <1>6
  <2> QED
    BY <2>1 DEF Fits, t
<1>7. CASE ~(TokensIn(a) + Chunk[d].tokens <= MaxTokens)
  <2> DEFINE before == TokensIn(a)  more == Chunk[c].tokens  wanted == Chunk[d].tokens
  <2>2. before \in Nat /\ more \in Nat /\ wanted \in Nat /\ ~(before + wanted <= MaxTokens)
    BY <1>4, <1>7
  <2>3. TokensIn(t) = before + more
    BY <1>2
  <2> HIDE DEF before, more, wanted
  <2>4. ~((before + more) + wanted <= MaxTokens)
    BY <1>4, <2>2
  <2>1. ~(TokensIn(t) + Chunk[d].tokens <= MaxTokens)
    BY <2>3, <2>4 DEF wanted
  <2> QED
    BY <2>1 DEF Fits, t
<1> QED
  BY <1>5, <1>6, <1>7 DEF Fits

\* A context within its budgets that takes only from the first k of the evidence
\* and refuses the rest of them.
Selects(a, s, k) ==
  /\ ToSet(a) \subseteq {s[i] : i \in 1 .. k}
  /\ TokensIn(a) \in Nat /\ TokensIn(a) <= MaxTokens
  /\ \A c \in ToSet(a) : Cardinality(FromDocument(a, c)) <= MaxPerDocument
  /\ \A i \in 1 .. k : ~Fits(a, s[i])

LEMMA ContextSelects ==
  ASSUME NEW results, NEW s \in Seq(ChunkIds), Increases(s, results)
  PROVE  /\ Context(s) \in Seq(ChunkIds)
         /\ Selects(Context(s), s, Len(s))
         /\ Increases(Context(s), results)
<1> DEFINE R == {p \in Nat \X Seq(ChunkIds) : Selects(p[2], s, p[1]) /\ Increases(p[2], results)}
<1>1. DOMAIN s = 1 .. Len(s) /\ Len(s) \in Nat
  BY LenProperties
<1>2. << 0, << >> >> \in R
  <2>1. << >> \in Seq(ChunkIds) /\ ToSet(<< >>) = {} /\ Increases(<< >>, results)
    BY DEF ToSet, Increases
  <2>2. TokensIn(<< >>) = 0
    BY TokensIsFold, TokenFold!FoldOfFew
  <2>3. Selects(<< >>, s, 0)
    BY <2>1, <2>2, BudgetAssumption DEF Selects
  <2> QED
    BY <2>1, <2>3
<1>3. ASSUME NEW k \in 1 .. Len(s), NEW a, << k - 1, a >> \in R
      PROVE  << k, AddFitting(a, s[k]) >> \in R
  <2> DEFINE c == s[k]
             t == Append(a, c)
  <2>1. a \in Seq(ChunkIds) /\ Selects(a, s, k - 1) /\ Increases(a, results)
    BY <1>3
  <2>2. k \in Nat /\ c \in ChunkIds /\ k \in DOMAIN s
    BY <1>1, ElementOfSeq
  <2>3. /\ \A i \in 1 .. k : i = k \/ i \in 1 .. k - 1
        /\ \A i \in 1 .. k - 1 : i \in 1 .. k /\ i < k /\ i \in DOMAIN s
        /\ k \in 1 .. k
    BY <1>1, <2>2
  <2> HIDE DEF c
  <2>4. CASE ~Fits(a, c)
    <3>1. Selects(a, s, k)
      BY <2>1, <2>3, <2>4 DEF Selects, c
    <3> QED
      BY <2>1, <2>2, <2>4, <3>1 DEF AddFitting, c
  <2>5. CASE Fits(a, c)
    <3>1. t \in Seq(ChunkIds) /\ ToSet(t) = ToSet(a) \cup {c}
      BY <2>1, <2>2, ToSetOfAppend
    <3>2. /\ TokensIn(t) = TokensIn(a) + Chunk[c].tokens
          /\ \A d : FromDocument(t, d) =
               IF Chunk[c].doc = Chunk[d].doc THEN FromDocument(a, d) \cup {c} ELSE FromDocument(a, d)
      BY <2>1, <2>2, AppendFits
    <3>3. \A i \in 1 .. k : ~Fits(t, s[i])
      <4>1. ~Fits(t, c)
        BY <3>1 DEF Fits
      <4>2. ASSUME NEW i \in 1 .. k - 1 PROVE ~Fits(t, s[i])
        <5>1. s[i] \in ChunkIds /\ ~Fits(a, s[i]) /\ TokensIn(a) \in Nat
          BY <1>1, <2>1, <2>3, ElementOfSeq DEF Selects
        <5> QED
          BY <2>1, <2>2, <5>1, UnfitStaysUnfit
      <4> QED
        BY <2>3, <4>1, <4>2 DEF c
    <3>4. ASSUME NEW d \in ToSet(t)
          PROVE  Cardinality(FromDocument(t, d)) <= MaxPerDocument
      <4>1. CASE Chunk[c].doc = Chunk[d].doc
        <5>1. FromDocument(t, d) = FromDocument(a, c) \cup {c}
          BY <3>2, <4>1 DEF FromDocument
        <5>2. c \notin FromDocument(a, c) /\ Cardinality(FromDocument(a, c)) < MaxPerDocument
          BY <2>5 DEF Fits, FromDocument
        <5>3. Cardinality(FromDocument(t, d)) = Cardinality(FromDocument(a, c)) + 1
          BY <2>1, <5>1, <5>2, DocumentsAreFinite, FS_AddElement
        <5>4. Cardinality(FromDocument(a, c)) \in Nat /\ MaxPerDocument \in Nat
          BY <2>1, DocumentsAreFinite, BudgetAssumption
        <5> QED
          BY <5>2, <5>3, <5>4
      <4>2. CASE Chunk[c].doc # Chunk[d].doc
        <5>1. d \in ToSet(a) /\ FromDocument(t, d) = FromDocument(a, d)
          BY <3>1, <3>2, <4>2
        <5> QED
          BY <2>1, <5>1 DEF Selects
      <4> QED
        BY <4>1, <4>2
    <3>5. TokensIn(t) \in Nat /\ TokensIn(t) <= MaxTokens
      BY <2>1, <2>2, <2>5, <3>2, ChunksAssumption DEF Selects, Fits
    <3>6. ToSet(t) \subseteq {s[i] : i \in 1 .. k}
      BY <2>1, <2>3, <3>1 DEF Selects, c
    <3>7. Increases(t, results)
      <4>1. ASSUME NEW d \in ToSet(a) PROVE RankIn(d, results) < RankIn(c, results)
        <5>1. PICK i \in 1 .. k - 1 : d = s[i]
          BY <2>1 DEF Selects
        <5> QED
          BY <2>2, <2>3, <5>1 DEF Increases, c
      <4> QED
        BY <2>1, <2>2, <4>1, IncreasesAppend
    <3>8. Selects(t, s, k)
      BY <3>3, <3>4, <3>5, <3>6 DEF Selects
    <3> QED
      BY <2>2, <2>5, <3>1, <3>7, <3>8 DEF AddFitting, c
  <2> QED
    BY <2>4, <2>5
<1>4. << Len(s), ContextFold!Folded(<< >>, s) >> \in R
  <2> HIDE DEF R
  <2> QED
    BY <1>2, <1>3, ContextFold!FoldPassesOn
<1> QED
  BY <1>4, ContextIsFold

-----------------------------------------------------------------------------
(* Requests.                                                                  *)

\* What a request is made of at every step.
Subjects == Questions(MaxPhrases) \cup Questions(1) \cup [years : SUBSET Years, risky : BOOLEAN]
Answers  == [year : Years \cup {None}, citations : Replies \cup {<< >>}, gaveUp : BOOLEAN]
RequestTypeOK ==
  request \in [pc : {"asked", "retrieving", "searching", "ranking", "selecting", "generating", "done"},
               endpoint : {"query", "retrieve"}, question : Subjects,
               supplied : Years \cup {None}, year : Years \cup {None}, minimum : {1, 2},
               limit : Limits \cup {None}, mode : Modes \cup {None},
               dense : Seq(ChunkIds), sparse : Seq(ChunkIds), results : Seq(ChunkIds),
               found : SUBSET ChunkIds, context : Seq(ChunkIds), answer : Answers \cup {None},
               status : {None, "answered", "abstained", "refused", "clarification_required", "failed",
                         "retrieved", "temporal", "cross_year"}]

\* A routed question concerns one year at most, the one that was settled for
\* it; a risky one has a year and needs two pieces of evidence.
Working == request.pc \notin {"asked", "done"} \/ request.status = "answered"
Dated ==
  (Working /\ request.endpoint = "query") =>
    /\ request.supplied = request.year
    /\ request.question.years # {} => request.question.years = {request.year}
    /\ request.question.risky => request.minimum = 2 /\ request.year # None
Searched ==
  request.pc = "ranking" =>
    /\ Ranking(request.dense) /\ Ranking(request.sparse)
    /\ request.found = ToSet(request.dense) \cup ToSet(request.sparse)
    /\ request.limit \in Nat
OfTheYear(chunks) == request.year # None => \A c \in chunks : Chunk[c].year = request.year
Ready ==
  request.pc = "selecting" =>
    /\ request.endpoint = "query"
    /\ Ranking(request.results) /\ ToSet(request.results) \subseteq request.found
    /\ OfTheYear(ToSet(request.results))
Supported ==
  (request.pc = "generating" \/ request.status = "answered") =>
    /\ request.endpoint = "query"
    /\ Distinct(request.context) /\ Len(request.context) >= request.minimum
    /\ \A c \in ToSet(request.context) : c \in request.found /\ ~Chunk[c].instructs
    /\ OfTheYear(ToSet(request.context))
Shown ==
  request.status = "answered" =>
    /\ request.pc = "done"
    /\ request.answer.citations # << >> /\ NoRepeat(CitedChunks(request.answer))
    /\ \A i \in DOMAIN request.answer.citations :
         Exact(request.answer.citations[i], request.context)
    /\ request.year # None => request.answer.year = request.year

AnswerInv == Dated /\ Searched /\ Ready /\ Supported /\ Shown

LEMMA RankingsAreDistinct ==
  ASSUME NEW chunks \in SUBSET ChunkIds, NEW limit, NEW r \in Rankings(chunks, limit)
  PROVE  Ranking(r)
<1>1. PICK S \in SUBSET chunks : r \in SetToSeqs(S)
  BY DEF Rankings, SetToAllKPermutations
<1> DEFINE n == Cardinality(S)
<1>2. n \in Nat
  BY ChunksAssumption, FS_Subset, FS_CardinalityType
<1> HIDE DEF n
<1>3. r \in [1 .. n -> S] /\ \A i, j \in 1 .. n : i # j => r[i] # r[j]
  BY <1>1 DEF SetToSeqs, n
<1>4. r \in Seq(S) /\ DOMAIN r = 1 .. n
  BY <1>2, <1>3
<1> QED
  BY <1>3, <1>4, SeqMonotonic DEF Ranking, Distinct

LEMMA SeqInSet ==
  ASSUME NEW T, NEW r \in Seq(T)
  PROVE  ToSet(r) \in SUBSET T
<1>1. DOMAIN r = 1 .. Len(r)
  BY LenProperties
<1> QED
  BY <1>1, ElementOfSeq DEF ToSet

LEMMA NoneFound == Ranking(<< >>)
BY DEF Ranking, Distinct

\* A search only returns chunks, none twice.
Finds(mode, limit, dense, sparse) ==
  /\ Ranking(dense) /\ Ranking(sparse)
  /\ request' = [request EXCEPT !.pc = "ranking", !.dense = dense, !.sparse = sparse,
                 !.mode = mode, !.limit = limit, !.found = ToSet(dense) \cup ToSet(sparse)]

LEMMA SearchFinds ==
  ASSUME NEW mode, NEW limit, Search(mode, limit)
  PROVE  \E dense, sparse : Finds(mode, limit, dense, sparse)
<1> DEFINE n == SearchLimit(mode, limit)
           years == Filter(request.year)
<1> HIDE DEF n, years
<1>1. PICK obeys \in BOOLEAN :
        \E dense \in IF mode = "sparse" THEN {<< >>} ELSE DenseRankings(years, n, obeys),
           sparse \in IF mode = "dense" THEN {<< >>} ELSE SparseRankings(years, n) :
          request' = [request EXCEPT !.pc = "ranking", !.dense = dense, !.sparse = sparse,
                 !.mode = mode, !.limit = limit, !.found = ToSet(dense) \cup ToSet(sparse)]
  BY DEF Search, n, years
<1>2. PICK dense \in IF mode = "sparse" THEN {<< >>} ELSE DenseRankings(years, n, obeys),
           sparse \in IF mode = "dense" THEN {<< >>} ELSE SparseRankings(years, n) :
        request' = [request EXCEPT !.pc = "ranking", !.dense = dense, !.sparse = sparse,
                 !.mode = mode, !.limit = limit, !.found = ToSet(dense) \cup ToSet(sparse)]
  BY <1>1
<1>3. Matching(years) \in SUBSET ChunkIds
  BY DEF Matching
<1>4. Ranking(dense)
  <2>1. CASE mode = "sparse"
    BY <2>1, NoneFound
  <2>2. CASE mode # "sparse"
    BY <1>3, <2>2, RankingsAreDistinct DEF DenseRankings
  <2> QED
    BY <2>1, <2>2
<1>5. Ranking(sparse)
  <2>1. CASE mode = "dense"
    BY <2>1, NoneFound
  <2>2. CASE mode # "dense"
    BY <1>3, <2>2, RankingsAreDistinct DEF SparseRankings
  <2> QED
    BY <2>1, <2>2
<1>6. Finds(mode, limit, dense, sparse)
  BY <1>2, <1>4, <1>5 DEF Finds
<1> QED
  BY <1>6

LEMMA YearsOf == \A q \in Subjects : q.years \in SUBSET Years
BY DEF Subjects, Questions

\* The year of a question that mentions one at most.
LEMMA ResolvesTo ==
  ASSUME NEW q, q.years \in SUBSET Years
  PROVE  /\ Resolve(q).ambiguous \in BOOLEAN
         /\ ~Resolve(q).ambiguous =>
              \/ q.years = {} /\ Resolve(q).year = None
              \/ q.years = {Resolve(q).year} /\ Resolve(q).year \in Years
         /\ Resolve(q).year \in Years \cup {None}
         /\ q.years = {} => ~Resolve(q).ambiguous
         /\ \A y : q.years = {y} => ~Resolve(q).ambiguous /\ Resolve(q).year = y
<1> DEFINE S == q.years
           n == Cardinality(S)
<1>1. IsFiniteSet(S) /\ n \in Nat
  BY YearsAssumption, FS_Subset, FS_CardinalityType
<1>2. Resolve(q).ambiguous = (n > 1) /\ Resolve(q).year = IF n = 1 THEN CHOOSE y \in S : TRUE ELSE None
  BY DEF Resolve
<1>3. (n = 0 <=> S = {}) /\ (n = 1 <=> \E y : S = {y})
  BY <1>1, FS_EmptySet, FS_Singleton
<1>4. n = 1 => (CHOOSE y \in S : TRUE) \in S
  BY <1>3
<1>5. n = 1 => S = {Resolve(q).year} /\ Resolve(q).year \in Years
  BY <1>2, <1>3, <1>4
<1> HIDE DEF n
<1>6. Resolve(q).ambiguous \in BOOLEAN /\ (Resolve(q).ambiguous <=> n > 1)
  <2>1. (n > 1) \in BOOLEAN
    OBVIOUS
  <2> QED
    BY <1>2, <2>1, Zenon
<1>7. n = 0 \/ n = 1 \/ (n > 1 /\ n # 0 /\ n # 1)
  BY <1>1
<1>8. n = 0 \/ n = 1 => ~(n > 1)
  OBVIOUS
<1>9. n # 1 => Resolve(q).year = None
  BY <1>2
<1> HIDE DEF n
<1>10. CASE n = 0
  BY <1>3, <1>6, <1>8, <1>9, <1>10, Zenon
<1>11. CASE n = 1
  <2>1. ~Resolve(q).ambiguous /\ S = {Resolve(q).year} /\ Resolve(q).year \in Years
    BY <1>5, <1>6, <1>8, <1>11, Zenon
  <2> QED
    BY <1>6, <2>1
<1>12. CASE n > 1 /\ n # 0 /\ n # 1
  <2>1. Resolve(q).ambiguous /\ Resolve(q).year = None /\ S # {} /\ \A y : S # {y}
    BY <1>3, <1>6, <1>9, <1>12, Zenon
  <2> QED
    BY <1>6, <2>1
<1> QED
  BY <1>7, <1>10, <1>11, <1>12

\* A question with a risky phrase is only routed to retrieval with a year, and
\* asks for two pieces of evidence.
LEMMA RiskyNeedsYear ==
  ASSUME NEW q, NEW year, Facts(q).risky
  PROVE  MinimumEvidence(q) = 2 /\ (Route(q, year) = "retrieve" => year # None)
<1>1. Risk(q) = "high"
  BY DEF Facts, Risk, RiskyPhrases
<1>2. RequiresTaxYear(q)
  BY <1>1 DEF RequiresTaxYear
<1> QED
  BY <1>1, <1>2 DEF MinimumEvidence, Route

Ends == \/ \E status \in {"abstained", "refused", "clarification_required", "failed",
                           "temporal", "cross_year"} : End(status)
        \/ \E year \in Years \cup {None} : Abstain(year)

LEMMA UnderstandCases ==
  ASSUME RequestTypeOK, Understand
  PROVE  LET q == request.question
             resolution == Resolve(q)
             year == EffectiveYear(resolution, request.supplied)
         IN  \/ Ends
             \/ /\ request.pc = "asked" /\ request.endpoint = "query"
                /\ ~resolution.ambiguous /\ ~Conflict(resolution, request.supplied)
                /\ Route(q, year) = "retrieve"
                /\ request' = [request EXCEPT !.pc = "retrieving", !.year = year,
                     !.supplied = year, !.minimum = MinimumEvidence(q), !.question = Facts(q)]
<1> DEFINE q == request.question
           resolution == Resolve(q)
           year == EffectiveYear(resolution, request.supplied)
<1>1. year \in Years \cup {None}
  BY ResolvesTo, YearsOf DEF EffectiveYear, RequestTypeOK
<1>2. CASE resolution.ambiguous
  BY <1>2 DEF Understand, Ends
<1>3. CASE ~resolution.ambiguous /\ Refuses(resolution, request.supplied)
  BY <1>3 DEF Understand, Ends
<1>4. CASE ~resolution.ambiguous /\ ~Refuses(resolution, request.supplied)
  <2>1. /\ request.pc = "asked" /\ request.endpoint = "query"
        /\ CASE Route(q, year) = "clarify"  -> End("clarification_required")
             [] Route(q, year) = "abstain"  -> Abstain(year)
             [] Route(q, year) = "retrieve" ->
                  request' = [request EXCEPT !.pc = "retrieving", !.year = year,
                    !.supplied = year, !.minimum = MinimumEvidence(q), !.question = Facts(q)]
    BY <1>4 DEF Understand
  <2>2. Route(q, year) \in {"clarify", "abstain", "retrieve"}
    BY DEF Route
  <2> HIDE DEF year, resolution, q
  <2>3. CASE Route(q, year) = "clarify"
    BY <2>1, <2>3 DEF Ends
  <2>4. CASE Route(q, year) = "abstain"
    BY <1>1, <2>1, <2>4 DEF Ends
  <2>5. CASE Route(q, year) = "retrieve"
    BY <1>4, <2>1, <2>5 DEF Refuses, year, resolution, q
  <2> QED
    BY <2>2, <2>3, <2>4, <2>5
<1> QED
  BY <1>2, <1>3, <1>4

LEMMA RaisesEnds ==
  ASSUME NEW error \in {"temporal", "cross_year", "value", "unavailable"}, RetrievalRaises(error)
  PROVE  Ends
BY DEF RetrievalRaises, Ends

\* An outcome keeps the type and has nothing to show.
LEMMA EndsKeep ==
  ASSUME RequestTypeOK, Ends
  PROVE  RequestTypeOK' /\ request'.pc = "done" /\ request'.status # "answered"
<1>1. << >> \in Seq(ChunkIds)
  OBVIOUS
<1>2. ASSUME NEW status \in {"abstained", "refused", "clarification_required", "failed",
                             "temporal", "cross_year"}, End(status)
      PROVE  RequestTypeOK' /\ request'.pc = "done" /\ request'.status # "answered"
  BY <1>1, <1>2 DEF RequestTypeOK, End
<1>3. ASSUME NEW year \in Years \cup {None}, Abstain(year)
      PROVE  RequestTypeOK' /\ request'.pc = "done" /\ request'.status # "answered"
  <2>1. [year |-> year, citations |-> << >>, gaveUp |-> TRUE] \in Answers
    BY DEF Answers
  <2> QED
    BY <1>1, <1>3, <2>1 DEF RequestTypeOK, Abstain
<1> QED
  BY <1>2, <1>3 DEF Ends

LEMMA EndsKeepInv ==
  ASSUME RequestTypeOK, Ends
  PROVE  AnswerInv'
BY EndsKeep DEF AnswerInv, Working, Dated, Searched, Ready, Supported, Shown

LEMMA FactsType ==
  ASSUME NEW q \in Subjects
  PROVE  Facts(q) \in Subjects /\ Facts(q).years = q.years /\ MinimumEvidence(q) \in {1, 2}
BY YearsOf DEF Facts, Subjects, MinimumEvidence

\* What the retriever returns: distinct chunks that were found.
LEMMA RankedAreFound ==
  ASSUME RequestTypeOK, Searched, request.pc = "ranking", NEW results \in Ranked(request.limit)
  PROVE  Ranking(results) /\ ToSet(results) \subseteq request.found
<1> DEFINE a == request.dense
           b == request.sparse
           n == IF request.mode = "reranked" THEN CandidateLimit ELSE request.limit
           fused == Fused(<< a, b >>, n)
<1>1. Ranking(a) /\ Ranking(b) /\ request.found = ToSet(a) \cup ToSet(b) /\ request.limit \in Nat
  BY DEF Searched
<1>2. n \in Nat
  BY <1>1, LimitsAssumption
<1> HIDE DEF n
<1>3. Ranking(fused) /\ ToSet(fused) \subseteq request.found
  <2> HIDE DEF a, b
  <2> QED
    BY <1>1, <1>2, FusedRespects
<1>4. results = fused \/ results \in Reranked(fused, request.limit)
  BY DEF Ranked, n
<1> HIDE DEF fused
<1> QED
  BY <1>1, <1>3, <1>4, RerankedKeeps

\* The context is evidence from the results, each piece once.
LEMMA ContextIsEvidence ==
  ASSUME NEW results, Ranking(results)
  PROVE  LET context == Context(Safe(results)) IN
           /\ context \in Seq(ChunkIds) /\ Distinct(context)
           /\ \A c \in ToSet(context) : c \in ToSet(results) /\ ~Chunk[c].instructs
           /\ Increases(context, results)
           /\ Selects(context, Safe(results), Len(Safe(results)))
<1> DEFINE safe == Safe(results)
           context == Context(safe)
<1>1. /\ safe \in Seq(ChunkIds) /\ Increases(safe, results)
      /\ ToSet(safe) = {c \in ToSet(results) : ~Chunk[c].instructs}
  BY SafeKeepsOrder
<1>2. DOMAIN safe = 1 .. Len(safe)
  BY <1>1, LenProperties
<1> HIDE DEF safe
<1>3. context \in Seq(ChunkIds) /\ Selects(context, safe, Len(safe)) /\ Increases(context, results)
  BY <1>1, ContextSelects
<1> HIDE DEF context
<1>4. ToSet(context) \subseteq ToSet(safe)
  BY <1>2, <1>3 DEF Selects, ToSet
<1>5. Distinct(context)
  BY <1>1, <1>3, <1>4, RankingIsShort, IncreasesDistinct
<1> QED
  BY <1>1, <1>3, <1>4, <1>5 DEF context, safe

LEMMA RequestTypeStep == RequestTypeOK /\ Searched /\ Ready /\ [Next]_vars => RequestTypeOK'
<1> SUFFICES ASSUME RequestTypeOK, Searched, Ready, [Next]_vars PROVE RequestTypeOK'
  OBVIOUS
<1>0. << >> \in Seq(ChunkIds)
  OBVIOUS
<1>1. CASE Understand
  <2> DEFINE q == request.question
             year == EffectiveYear(Resolve(q), request.supplied)
  <2>1. year \in Years \cup {None} /\ Facts(q) \in Subjects /\ MinimumEvidence(q) \in {1, 2}
    BY FactsType, ResolvesTo, YearsOf DEF EffectiveYear, RequestTypeOK
  <2>2. CASE Ends
    BY <2>2, EndsKeep
  <2>3. CASE request' = [request EXCEPT !.pc = "retrieving", !.year = year,
                 !.supplied = year, !.minimum = MinimumEvidence(q), !.question = Facts(q)]
    <3> HIDE DEF year, q
    <3> QED
      BY <2>1, <2>3 DEF RequestTypeOK
  <2> QED
    BY <1>1, <2>2, <2>3, UnderstandCases
<1>2. CASE Inspect
  <2>1. Facts(request.question) \in Subjects
    BY FactsType DEF RequestTypeOK
  <2> QED
    BY <1>2, <2>1 DEF Inspect, RequestTypeOK
<1>3. CASE ResolveAgain
  <2> DEFINE year == EffectiveYear(Resolve(request.question), request.supplied)
  <2>1. year \in Years \cup {None}
    BY ResolvesTo, YearsOf DEF EffectiveYear, RequestTypeOK
  <2>2. Ends \/ request' = [request EXCEPT !.pc = "searching", !.year = year]
    BY <1>3, RaisesEnds DEF ResolveAgain
  <2> HIDE DEF year
  <2>3. CASE Ends
    BY <2>3, EndsKeep
  <2>4. CASE request' = [request EXCEPT !.pc = "searching", !.year = year]
    BY <2>1, <2>4 DEF RequestTypeOK
  <2> QED
    BY <2>2, <2>3, <2>4
<1>4. ASSUME NEW mode \in Modes, NEW limit \in Limits, Search(mode, limit)
      PROVE  RequestTypeOK'
  <2>1. PICK dense, sparse : Finds(mode, limit, dense, sparse)
    BY <1>4, SearchFinds
  <2>2. dense \in Seq(ChunkIds) /\ sparse \in Seq(ChunkIds)
    BY <2>1 DEF Finds, Ranking
  <2>3. ToSet(dense) \cup ToSet(sparse) \in SUBSET ChunkIds
    BY <2>2, SeqInSet
  <2> QED
    BY <2>1, <2>2, <2>3 DEF RequestTypeOK, Finds
<1>5. CASE SearchFails
  BY <1>5, RaisesEnds, EndsKeep DEF SearchFails
<1>6. CASE Rank
  <2>1. PICK results \in Ranked(request.limit) :
          \/ Ends
          \/ request' = [request EXCEPT !.pc = "done", !.status = "retrieved",
                                !.context = results, !.dense = << >>, !.sparse = << >>]
          \/ request' = [request EXCEPT !.pc = "selecting", !.results = results,
                                !.dense = << >>, !.sparse = << >>,
                                !.mode = None, !.limit = None]
    BY <1>6, RaisesEnds DEF Rank
  <2>2. results \in Seq(ChunkIds)
    BY <1>6, <2>1, RankedAreFound DEF Rank, Ranking
  <2>3. CASE Ends
    BY <2>3, EndsKeep
  <2>4. CASE request' = [request EXCEPT !.pc = "done", !.status = "retrieved",
                                !.context = results, !.dense = << >>, !.sparse = << >>]
    BY <1>0, <2>2, <2>4 DEF RequestTypeOK
  <2>5. CASE request' = [request EXCEPT !.pc = "selecting", !.results = results,
                                !.dense = << >>, !.sparse = << >>,
                                !.mode = None, !.limit = None]
    BY <1>0, <2>2, <2>5 DEF RequestTypeOK
  <2> QED
    BY <2>1, <2>3, <2>4, <2>5
<1>7. CASE Select
  <2> DEFINE context == Context(Safe(request.results))
             answer == [year |-> request.year, citations |-> << >>, gaveUp |-> TRUE]
  <2>1. context \in Seq(ChunkIds)
    BY <1>7, ContextIsEvidence DEF Ready, Select
  <2>2. answer \in Answers
    BY DEF Answers, RequestTypeOK
  <2>3. request' = [request EXCEPT
         !.context = context, !.results = << >>,
         !.pc     = IF TooLittle(context) THEN "done" ELSE "generating",
         !.status = IF TooLittle(context) THEN "abstained" ELSE None,
         !.answer = IF TooLittle(context) THEN answer ELSE None]
    BY <1>7 DEF Select
  <2> HIDE DEF context, answer
  <2>4. CASE TooLittle(context)
    <3>1. request' = [request EXCEPT !.context = context, !.results = << >>, !.pc = "done",
                                     !.status = "abstained", !.answer = answer]
      BY <2>3, <2>4
    <3> QED
      BY <1>0, <2>1, <2>2, <3>1 DEF RequestTypeOK
  <2>5. CASE ~TooLittle(context)
    <3>1. request' = [request EXCEPT !.context = context, !.results = << >>, !.pc = "generating",
                                     !.status = None, !.answer = None]
      BY <2>3, <2>5
    <3> QED
      BY <1>0, <2>1, <3>1 DEF RequestTypeOK
  <2> QED
    BY <2>4, <2>5
<1>8. ASSUME NEW citations \in Replies, NEW year \in Years \cup {None}, NEW unsure \in BOOLEAN,
             Generate(citations, year, unsure)
      PROVE  RequestTypeOK'
  <2> DEFINE answer == [year |-> year, citations |-> citations,
                        gaveUp |-> citations = << >> /\ unsure]
  <2>1. answer \in Answers
    BY DEF Answers
  <2>2. \/ Ends
        \/ request' = [request EXCEPT !.pc = "done", !.status = "answered", !.answer = answer]
    BY <1>8 DEF Generate, Ends, RequestTypeOK
  <2> HIDE DEF answer
  <2>3. CASE Ends
    BY <2>3, EndsKeep
  <2>4. CASE request' = [request EXCEPT !.pc = "done", !.status = "answered", !.answer = answer]
    BY <2>1, <2>4 DEF RequestTypeOK
  <2> QED
    BY <2>2, <2>3, <2>4
<1>9. CASE GenerateFails
  BY <1>9, EndsKeep DEF GenerateFails, Ends
<1>10. CASE UNCHANGED vars
  BY <1>10 DEF vars, RequestTypeOK
<1> QED
  BY <1>1, <1>2, <1>3, <1>4, <1>5, <1>6, <1>7, <1>8, <1>9, <1>10 DEF Next

\* A question without a contradiction concerns the year settled for it...
LEMMA SettledOnce ==
  ASSUME NEW q, q.years \in SUBSET Years, NEW supplied,
         ~Resolve(q).ambiguous, ~Conflict(Resolve(q), supplied)
  PROVE  q.years # {} => q.years = {EffectiveYear(Resolve(q), supplied)}
BY ResolvesTo, YearsAssumption DEF Conflict, EffectiveYear

\* ...and settling it again, with that year, settles the same.
LEMMA SettledAgain ==
  ASSUME NEW q, q.years \in SUBSET Years, NEW year, q.years # {} => q.years = {year}
  PROVE  /\ ~Resolve(q).ambiguous
         /\ ~Conflict(Resolve(q), year)
         /\ EffectiveYear(Resolve(q), year) = year
<1>1. CASE q.years = {}
  <2>1. ~Resolve(q).ambiguous /\ Resolve(q).year = None
    BY <1>1, ResolvesTo, YearsAssumption
  <2> QED
    BY <2>1 DEF Conflict, EffectiveYear
<1>2. CASE q.years = {year}
  BY <1>2, ResolvesTo DEF Conflict, EffectiveYear
<1> QED
  BY <1>1, <1>2

LEMMA AnswerInvStep == RequestTypeOK /\ AnswerInv /\ [Next]_vars => AnswerInv'
<1> SUFFICES ASSUME RequestTypeOK, AnswerInv, [Next]_vars PROVE AnswerInv'
  OBVIOUS
<1>0. Dated /\ Searched /\ Ready /\ Supported /\ Shown
  BY DEF AnswerInv
<1>1. CASE Understand
  <2> DEFINE q == request.question
             resolution == Resolve(q)
             year == EffectiveYear(resolution, request.supplied)
  <2>1. CASE Ends
    BY <2>1, EndsKeepInv
  <2>2. ASSUME request.pc = "asked", ~resolution.ambiguous,
               ~Conflict(resolution, request.supplied), Route(q, year) = "retrieve",
               request' = [request EXCEPT !.pc = "retrieving", !.year = year,
                 !.supplied = year, !.minimum = MinimumEvidence(q), !.question = Facts(q)]
        PROVE  AnswerInv'
    <3>1. q \in Subjects /\ q.years \in SUBSET Years /\ Facts(q).years = q.years
      BY YearsOf, FactsType DEF RequestTypeOK
    <3>2. q.years # {} => q.years = {year}
      BY <2>2, <3>1, SettledOnce
    <3>3. Facts(q).risky => MinimumEvidence(q) = 2 /\ year # None
      BY <2>2, RiskyNeedsYear
    <3> HIDE DEF year, resolution, q
    <3>4. /\ request'.pc = "retrieving" /\ request'.status = request.status
          /\ request'.year = year /\ request'.supplied = year
          /\ request'.minimum = MinimumEvidence(q) /\ request'.question = Facts(q)
      <4> DEFINE needed == MinimumEvidence(q)
                 facts == Facts(q)
      <4>1. request' = [request EXCEPT !.pc = "retrieving", !.year = year,
                         !.supplied = year, !.minimum = needed, !.question = facts]
        BY <2>2
      <4> HIDE DEF needed, facts
      <4>2. /\ request'.pc = "retrieving" /\ request'.status = request.status
            /\ request'.year = year /\ request'.supplied = year
            /\ request'.minimum = needed /\ request'.question = facts
        BY <4>1 DEF RequestTypeOK
      <4> QED
        BY <4>2 DEF needed, facts
    <3>5. Dated'
      <4>1. request'.question.years = q.years /\ (request'.question.risky <=> Facts(q).risky)
        BY <3>1, <3>4
      <4>2. request'.question.risky => request'.minimum = 2 /\ request'.year # None
        BY <3>3, <3>4, <4>1
      <4> QED
        BY <3>2, <3>4, <4>1, <4>2 DEF Dated
    <3>6. request'.status # "answered"
      BY <1>0, <2>2, <3>4 DEF Shown
    <3> QED
      BY <3>4, <3>5, <3>6 DEF AnswerInv, Searched, Ready, Supported, Shown
  <2> QED
    BY <1>1, <2>1, <2>2, UnderstandCases
<1>2. CASE Inspect
  <2>1. /\ request'.pc = "retrieving" /\ request'.endpoint = "retrieve"
        /\ request'.status = request.status /\ request.pc = "asked"
    BY <1>2 DEF Inspect, RequestTypeOK
  <2> QED
    BY <1>0, <2>1 DEF AnswerInv, Dated, Searched, Ready, Supported, Shown
<1>3. CASE ResolveAgain
  <2> DEFINE q == request.question
             year == EffectiveYear(Resolve(q), request.supplied)
  <2>1. request.pc = "retrieving" /\ (Ends \/ request' = [request EXCEPT !.pc = "searching", !.year = year])
    BY <1>3, RaisesEnds DEF ResolveAgain
  <2>2. CASE Ends
    BY <2>2, EndsKeepInv
  <2>3. CASE request' = [request EXCEPT !.pc = "searching", !.year = year]
    <3>1. request.endpoint = "query" => year = request.year
      <4> SUFFICES ASSUME request.endpoint = "query" PROVE year = request.year
        OBVIOUS
      <4>1. /\ request.supplied = request.year
            /\ request.question.years # {} => request.question.years = {request.year}
        BY <1>0, <2>1 DEF Dated, Working
      <4>2. q.years \in SUBSET Years
        BY YearsOf DEF RequestTypeOK
      <4> QED
        BY <4>1, <4>2, SettledAgain
    <3> HIDE DEF year
    <3>2. /\ request'.pc = "searching" /\ request'.year = year
          /\ request'.status = request.status /\ request'.endpoint = request.endpoint
          /\ request'.supplied = request.supplied /\ request'.question = request.question
          /\ request'.minimum = request.minimum
      BY <2>3 DEF RequestTypeOK
    <3>3. Dated'
      BY <1>0, <2>1, <3>1, <3>2 DEF Dated, Working
    <3> QED
      BY <1>0, <2>1, <3>2, <3>3 DEF AnswerInv, Searched, Ready, Supported, Shown
  <2> QED
    BY <2>1, <2>2, <2>3
<1>4. ASSUME NEW mode \in Modes, NEW limit \in Limits, Search(mode, limit)
      PROVE  AnswerInv'
  <2>1. PICK dense, sparse : Finds(mode, limit, dense, sparse)
    BY <1>4, SearchFinds
  <2>2. /\ request'.pc = "ranking" /\ request'.dense = dense /\ request'.sparse = sparse
        /\ request'.found = ToSet(dense) \cup ToSet(sparse) /\ request'.limit = limit
        /\ request'.status = request.status /\ request'.endpoint = request.endpoint
        /\ request'.supplied = request.supplied /\ request'.question = request.question
        /\ request'.minimum = request.minimum /\ request'.year = request.year
    BY <2>1 DEF Finds, RequestTypeOK
  <2>3. request.pc = "searching"
    BY <1>4 DEF Search
  <2>4. Searched'
    BY <2>1, <2>2, LimitsAssumption DEF Finds, Searched
  <2>5. Dated'
    BY <1>0, <2>2, <2>3 DEF Dated, Working
  <2> QED
    BY <1>0, <2>2, <2>3, <2>4, <2>5 DEF AnswerInv, Ready, Supported, Shown
<1>5. CASE SearchFails
  BY <1>5, RaisesEnds, EndsKeepInv DEF SearchFails
<1>6. CASE Rank
  <2>1. PICK results \in Ranked(request.limit) :
          \/ Ends
          \/ request' = [request EXCEPT !.pc = "done", !.status = "retrieved",
                                !.context = results, !.dense = << >>, !.sparse = << >>]
          \/ /\ request.endpoint # "retrieve" /\ EnsureTaxYear(results, request.year)
             /\ request' = [request EXCEPT !.pc = "selecting", !.results = results,
                                !.dense = << >>, !.sparse = << >>,
                                !.mode = None, !.limit = None]
    BY <1>6, RaisesEnds DEF Rank
  <2>2. request.pc = "ranking"
    BY <1>6 DEF Rank
  <2>3. CASE Ends
    BY <2>3, EndsKeepInv
  <2>4. CASE request' = [request EXCEPT !.pc = "done", !.status = "retrieved",
                                !.context = results, !.dense = << >>, !.sparse = << >>]
    <3>1. request'.pc = "done" /\ request'.status = "retrieved"
      BY <2>4 DEF RequestTypeOK
    <3> QED
      BY <3>1 DEF AnswerInv, Dated, Working, Searched, Ready, Supported, Shown
  <2>5. ASSUME request.endpoint # "retrieve", EnsureTaxYear(results, request.year),
               request' = [request EXCEPT !.pc = "selecting", !.results = results,
                                !.dense = << >>, !.sparse = << >>,
                                !.mode = None, !.limit = None]
        PROVE  AnswerInv'
    <3>1. /\ request'.pc = "selecting" /\ request'.results = results
          /\ request'.found = request.found
          /\ request'.status = request.status /\ request'.endpoint = "query"
          /\ request.endpoint = "query"
          /\ request'.supplied = request.supplied /\ request'.question = request.question
          /\ request'.minimum = request.minimum /\ request'.year = request.year
      BY <2>5 DEF RequestTypeOK
    <3>2. Ranking(results) /\ ToSet(results) \subseteq request.found
      BY <1>0, <2>2, RankedAreFound
    <3>3. Ready'
      BY <2>5, <3>1, <3>2 DEF Ready, OfTheYear, EnsureTaxYear
    <3>4. Dated'
      BY <1>0, <2>2, <3>1 DEF Dated, Working
    <3> QED
      BY <1>0, <2>2, <3>1, <3>3, <3>4 DEF AnswerInv, Searched, Supported, Shown
  <2> QED
    BY <2>1, <2>3, <2>4, <2>5
<1>7. CASE Select
  <2> DEFINE context == Context(Safe(request.results))
  <2>1. /\ context \in Seq(ChunkIds) /\ Distinct(context)
        /\ \A c \in ToSet(context) : c \in ToSet(request.results) /\ ~Chunk[c].instructs
    BY <1>0, <1>7, ContextIsEvidence DEF Ready, Select
  <2>2. request.pc = "selecting"
    BY <1>7 DEF Select
  <2>3. /\ request'.pc = IF TooLittle(context) THEN "done" ELSE "generating"
        /\ request'.status = IF TooLittle(context) THEN "abstained" ELSE None
        /\ request'.context = context /\ request'.found = request.found
        /\ request'.endpoint = request.endpoint
        /\ request'.supplied = request.supplied /\ request'.question = request.question
        /\ request'.minimum = request.minimum /\ request'.year = request.year
    BY <1>7 DEF Select, RequestTypeOK
  <2> HIDE DEF context
  <2>4. request'.status # "answered"
    BY <2>3, NoneAssumption
  <2>5. Dated'
    BY <1>0, <2>2, <2>3, <2>4 DEF Dated, Working
  <2>6. Supported'
    <3> SUFFICES ASSUME ~TooLittle(context) PROVE Supported'
      BY <2>3, <2>4 DEF Supported
    <3>1. Len(context) \in Nat /\ request.minimum \in Nat
      BY <2>1, LenProperties DEF RequestTypeOK
    <3>2. Len(context) >= request.minimum
      BY <3>1 DEF TooLittle
    <3>3. \A c \in ToSet(context) : c \in request.found /\ ~Chunk[c].instructs
      BY <1>0, <2>1, <2>2 DEF Ready
    <3>4. request.year # None => \A c \in ToSet(context) : Chunk[c].year = request.year
      BY <1>0, <2>1, <2>2 DEF Ready, OfTheYear
    <3>5. request.endpoint = "query"
      BY <1>0, <2>2 DEF Ready
    <3> QED
      BY <2>1, <2>3, <3>2, <3>3, <3>4, <3>5 DEF Supported, OfTheYear
  <2> QED
    BY <2>3, <2>4, <2>5, <2>6 DEF AnswerInv, Searched, Ready, Shown
<1>8. ASSUME NEW citations \in Replies, NEW year \in Years \cup {None}, NEW unsure \in BOOLEAN,
             Generate(citations, year, unsure)
      PROVE  AnswerInv'
  <2> DEFINE answer == [year |-> year, citations |-> citations,
                        gaveUp |-> citations = << >> /\ unsure]
  <2>1. request.pc = "generating"
    BY <1>8 DEF Generate
  <2>2. \/ Ends
        \/ /\ Valid(answer) /\ ~answer.gaveUp
           /\ request' = [request EXCEPT !.pc = "done", !.status = "answered", !.answer = answer]
    BY <1>8 DEF Generate, Ends, RequestTypeOK
  <2>3. CASE Ends
    BY <2>3, EndsKeepInv
  <2>4. ASSUME Valid(answer), ~answer.gaveUp,
               request' = [request EXCEPT !.pc = "done", !.status = "answered", !.answer = answer]
        PROVE  AnswerInv'
    <3> HIDE DEF answer
    <3>1. /\ request'.pc = "done" /\ request'.status = "answered" /\ request'.answer = answer
          /\ request'.context = request.context /\ request'.found = request.found
          /\ request'.endpoint = request.endpoint
          /\ request'.supplied = request.supplied /\ request'.question = request.question
          /\ request'.minimum = request.minimum /\ request'.year = request.year
      BY <2>4 DEF RequestTypeOK
    <3>2. Shown'
      BY <2>4, <3>1 DEF Shown, Valid
    <3>3. Supported'
      BY <1>0, <2>1, <3>1 DEF Supported, OfTheYear
    <3>4. Dated'
      BY <1>0, <2>1, <3>1 DEF Dated, Working
    <3> QED
      BY <3>1, <3>2, <3>3, <3>4 DEF AnswerInv, Searched, Ready
  <2> QED
    BY <2>2, <2>3, <2>4
<1>9. CASE GenerateFails
  BY <1>9, EndsKeepInv DEF GenerateFails, Ends
<1>10. CASE UNCHANGED vars
  BY <1>0, <1>10 DEF vars, AnswerInv, Dated, Working, Searched, Ready, Supported, Shown, OfTheYear
<1> QED
  BY <1>1, <1>2, <1>3, <1>4, <1>5, <1>6, <1>7, <1>8, <1>9, <1>10 DEF Next

LEMMA AnswerInit == Init => RequestTypeOK /\ AnswerInv
<1> SUFFICES ASSUME Init PROVE RequestTypeOK /\ AnswerInv
  OBVIOUS
<1>1. PICK endpoint \in {"query", "retrieve"}, q \in Subjects, y \in Years \cup {None} :
        request = Asked(endpoint, q, y)
  BY DEF Init, Subjects
<1>2. /\ request.pc = "asked" /\ request.status = None
      /\ request \in [pc : {"asked"}, endpoint : {"query", "retrieve"}, question : Subjects,
                      supplied : Years \cup {None}, year : {None}, minimum : {1},
                      limit : {None}, mode : {None}, dense : {<< >>}, sparse : {<< >>},
                      results : {<< >>}, found : {{}}, context : {<< >>}, answer : {None},
                      status : {None}]
  BY <1>1 DEF Nothing, Asked
<1>3. << >> \in Seq(ChunkIds) /\ {} \in SUBSET ChunkIds
  OBVIOUS
<1>4. RequestTypeOK
  BY <1>2, <1>3 DEF RequestTypeOK
<1>5. request.pc = "asked" /\ request.status # "answered"
  BY <1>2, NoneAssumption
<1> QED
  BY <1>4, <1>5 DEF AnswerInv, Working, Dated, Searched, Ready, Supported, Shown

LEMMA AnswerInvariant == Spec => [](RequestTypeOK /\ AnswerInv)
<1>1. Init => RequestTypeOK /\ AnswerInv
  BY AnswerInit
<1>2. RequestTypeOK /\ AnswerInv /\ [Next]_vars => (RequestTypeOK /\ AnswerInv)'
  BY RequestTypeStep, AnswerInvStep DEF AnswerInv
<1> QED
  BY <1>1, <1>2, PTL DEF Spec

\* Every answer that is shown cites, exactly, evidence that was found for the
\* question, carries no instructions and is of the year that was settled: it
\* holds for any corpus, any replies and any order the services rank in.
THEOREM AnswersHaveEvidence == Spec => []AnswersAreGrounded
<1>1. RequestTypeOK /\ AnswerInv => AnswersAreGrounded
  <2> SUFFICES ASSUME AnswerInv, request.status = "answered" PROVE AnswersAreGrounded
    BY DEF AnswersAreGrounded
  <2>1. Dated /\ Supported /\ Shown
    BY DEF AnswerInv
  <2>2. request.endpoint = "query" /\ OfTheYear(ToSet(request.context))
    BY <2>1 DEF Supported
  <2>3. request.question.years # {} => request.question.years = {request.year}
    BY <2>1, <2>2 DEF Dated, Working
  <2> QED
    BY <2>1, <2>2, <2>3 DEF AnswersAreGrounded, Supported, Shown, OfTheYear
<1> QED
  BY <1>1, AnswerInvariant, PTL

\* A question with a risky phrase is only answered for one year and from two
\* pieces of evidence of that year.
THEOREM RiskyAnswersHaveYears == Spec => []RiskyAnswersAreDated
<1>1. RequestTypeOK /\ AnswerInv => RiskyAnswersAreDated
  <2> SUFFICES ASSUME RequestTypeOK, AnswerInv, request.status = "answered", request.question.risky
               PROVE  /\ request.year # None
                      /\ Cardinality({c \in ToSet(request.context) : Chunk[c].year = request.year}) >= 2
    BY DEF RiskyAnswersAreDated
  <2>1. Dated /\ Supported
    BY DEF AnswerInv
  <2>2. request.endpoint = "query" /\ Distinct(request.context)
    BY <2>1 DEF Supported
  <2>3. request.minimum = 2 /\ request.year # None
    BY <2>1, <2>2 DEF Dated, Working
  <2>4. {c \in ToSet(request.context) : Chunk[c].year = request.year} = ToSet(request.context)
    BY <2>1, <2>3 DEF Supported, OfTheYear
  <2>5. Cardinality(ToSet(request.context)) = Len(request.context)
    BY <2>2, CountOfDistinct DEF RequestTypeOK
  <2>6. Len(request.context) >= 2
    BY <2>1, <2>3 DEF Supported
  <2> QED
    BY <2>3, <2>4, <2>5, <2>6
<1> QED
  BY <1>1, AnswerInvariant, PTL

\* The service and the retriever settle the year of a question each on its own
\* and never disagree.
THEOREM YearIsSettledOnce == Spec => []LayersAgree
<1>1. RequestTypeOK /\ AnswerInv => LayersAgree
  <2> SUFFICES ASSUME RequestTypeOK, AnswerInv, request.endpoint = "query", request.pc = "retrieving"
               PROVE  LET resolution == Resolve(request.question) IN
                        /\ ~resolution.ambiguous /\ ~Conflict(resolution, request.supplied)
                        /\ EffectiveYear(resolution, request.supplied) = request.year
    BY DEF LayersAgree
  <2>1. /\ request.supplied = request.year
        /\ request.question.years # {} => request.question.years = {request.year}
    BY DEF AnswerInv, Dated, Working
  <2>2. request.question.years \in SUBSET Years
    BY YearsOf DEF RequestTypeOK
  <2> QED
    BY <2>1, <2>2, SettledAgain
<1> QED
  BY <1>1, AnswerInvariant, PTL

LEMMA BetterIsBetters ==
  ASSUME NEW c, NEW d, Better(c, d)
  PROVE  Betters(c, d, request.dense, request.sparse)
<1> DEFINE places(e) == << Place(e, request.dense), Place(e, request.sparse) >>
<1>1. PICK other \in {<< 1, 2 >>, << 2, 1 >>} :
        /\ \A i \in 1 .. 2 : places(c)[i] <= places(d)[other[i]]
        /\ \E i \in 1 .. 2 : places(c)[i] < places(d)[other[i]]
  BY DEF Better
<1>2. \A e : /\ places(e)[1] = PlaceIn(e, request.dense)
             /\ places(e)[2] = PlaceIn(e, request.sparse)
  BY DEF Place, PlaceIn
<1> HIDE DEF places
<1>3. /\ places(c)[1] <= places(d)[other[1]] /\ places(c)[2] <= places(d)[other[2]]
      /\ places(c)[1] < places(d)[other[1]] \/ places(c)[2] < places(d)[other[2]]
  BY <1>1
<1>4. CASE other = << 1, 2 >>
  BY <1>2, <1>3, <1>4 DEF Betters
<1>5. CASE other = << 2, 1 >>
  BY <1>2, <1>3, <1>5 DEF Betters
<1> QED
  BY <1>1, <1>4, <1>5

\* Whatever two rankings the searches return, fusion repeats nothing, fills its
\* limit, and never puts a chunk before one with better places.
THEOREM FusionIsFair == Spec => []FusionRespectsRankings
<1>1. RequestTypeOK /\ AnswerInv => FusionRespectsRankings
  <2> SUFFICES ASSUME AnswerInv, request.pc = "ranking" PROVE FusionRespectsRankings
    BY DEF FusionRespectsRankings
  <2> DEFINE a == request.dense
             b == request.sparse
             fused == Fused(<< a, b >>, request.limit)
  <2>1. Ranking(a) /\ Ranking(b) /\ request.found = ToSet(a) \cup ToSet(b) /\ request.limit \in Nat
    BY DEF AnswerInv, Searched
  <2>2. /\ Ranking(fused)
        /\ Len(fused) = Min({request.limit, Cardinality(request.found)})
        /\ \A d \in ToSet(fused), c \in request.found :
             Betters(c, d, a, b) => c \in ToSet(fused) /\ RankIn(c, fused) < RankIn(d, fused)
    <3> HIDE DEF a, b
    <3> QED
      BY <2>1, FusedRespects
  <2>3. NoRepeat(fused)
    BY <2>2, CountOfDistinct DEF NoRepeat, Ranking
  <2>4. \A d \in ToSet(fused), c \in request.found :
          Better(c, d) => c \in ToSet(fused) /\ RankIn(c, fused) < RankIn(d, fused)
    BY <2>2, BetterIsBetters
  <2> QED
    BY <2>2, <2>3, <2>4 DEF FusionRespectsRankings
<1> QED
  BY <1>1, AnswerInvariant, PTL

\* The context keeps the order of the results within its budgets, and leaves out
\* nothing that would still fit.
THEOREM ContextsAreMaximal == Spec => []ContextIsMaximal
<1>1. RequestTypeOK /\ AnswerInv => ContextIsMaximal
  <2> SUFFICES ASSUME AnswerInv, request.pc = "selecting" PROVE ContextIsMaximal
    BY DEF ContextIsMaximal
  <2> DEFINE results == request.results
             safe == Safe(results)
             context == Context(safe)
  <2>1. Ranking(results)
    BY DEF AnswerInv, Ready
  <2>2. /\ \A c \in ToSet(context) : c \in ToSet(results)
        /\ Increases(context, results)
        /\ Selects(context, safe, Len(safe))
        /\ safe \in Seq(ChunkIds)
    <3> HIDE DEF results
    <3> QED
      BY <2>1, ContextIsEvidence, SafeKeepsOrder
  <2>3. \A c \in ToSet(safe) : ~Fits(context, c)
    <3>1. DOMAIN safe = 1 .. Len(safe)
      BY <2>2, LenProperties
    <3> HIDE DEF context, safe
    <3> QED
      BY <2>2, <3>1 DEF Selects, ToSet
  <2> QED
    BY <2>2, <2>3 DEF ContextIsMaximal, Selects, Increases
<1> QED
  BY <1>1, AnswerInvariant, PTL

============================================================================
