------------------------------ MODULE FoldLemmas ------------------------------
(***************************************************************************)
(* What FoldLeft computes, for any base and any sequence.  The operator is   *)
(* a parameter of the module: the library's induction theorems quantify     *)
(* over operators, which the backends cannot instantiate, while an INSTANCE *)
(* of this module gives its theorems for one operator as first-order facts. *)
(* Induction is over a set of numbers instead of a predicate.               *)
(***************************************************************************)
EXTENDS Integers, Sequences, SequencesExt, SequenceTheorems, WellFoundedInduction, TLAPS

CONSTANT Op(_, _)

Folded(base, s) == FoldLeft(Op, base, s)

-----------------------------------------------------------------------------

\* Induction over the natural numbers for membership in a set.
Less == {p \in Nat \X Nat : p[1] < p[2]}

LEMMA LessIsWellFounded == IsWellFoundedOn(Less, Nat)
<1>1. Less = OpToRel(<, Nat)
  BY DEF Less, OpToRel
<1> QED
  BY <1>1, NatLessThanWellFounded

THEOREM SetInduction ==
  ASSUME NEW S, 0 \in S, \A n \in Nat : n \in S => n + 1 \in S
  PROVE  \A n \in Nat : n \in S
<1> SUFFICES ASSUME Nat \ S # {} PROVE FALSE
  OBVIOUS
<1>1. PICK m \in Nat \ S : \A y \in Nat \ S : ~(<<y, m>> \in Less)
  <2>1. Nat \ S \subseteq Nat
    OBVIOUS
  <2> QED
    BY <2>1, LessIsWellFounded, WFMin
<1>2. m # 0 /\ m - 1 \in Nat /\ (m - 1) + 1 = m
  BY <1>1
<1>3. <<m - 1, m>> \in Less
  BY <1>1, <1>2 DEF Less
<1>4. m - 1 \in S
  BY <1>1, <1>2, <1>3
<1> QED
  BY <1>1, <1>2, <1>4

\* A set of natural numbers that is not empty has a least one.
THEOREM LeastExists ==
  ASSUME NEW S \in SUBSET Nat, S # {}
  PROVE  \E m \in S : \A y \in S : m <= y
<1>1. PICK m \in S : \A y \in S : ~(<<y, m>> \in Less)
  BY LessIsWellFounded, WFMin
<1>2. ASSUME NEW y \in S PROVE m <= y
  <2>1. <<y, m>> \in Nat \X Nat /\ ~(<<y, m>> \in Less) /\ y \in Nat /\ m \in Nat
    BY <1>1
  <2>2. ~(y < m)
    BY <2>1 DEF Less
  <2> QED
    BY <2>1, <2>2
<1> QED
  BY <1>2

-----------------------------------------------------------------------------
(* The function over sets of indices by which the library defines folds *)

\* The greatest index of a set that ends at n.
LEMMA MaxIsLast ==
  ASSUME NEW n \in Nat, NEW t \in SUBSET (1..n), n \in t
  PROVE  Max(t) = n
<1>1. \A x \in t : x \in Int /\ n >= x
  OBVIOUS
<1>2. \E x \in t : \A y \in t : x >= y
  BY <1>1
<1>3. Max(t) \in t /\ \A y \in t : Max(t) >= y
  BY <1>2 DEF Max
<1>4. Max(t) \in Int /\ Max(t) >= n /\ n >= Max(t)
  BY <1>1, <1>3
<1> QED
  BY <1>4

\* One unfolding of that function.
Unfold(base, g, s, D) ==
  [t \in SUBSET D |->
     IF t = {} THEN base ELSE Op(g[t \ {Max(t)}], s[Max(t)])]

\* A function that satisfies the recursion exists for every initial segment.
LEMMA UnfoldExists ==
  ASSUME NEW base, NEW s, NEW n \in Nat
  PROVE  \E g : g = Unfold(base, g, s, 1..n)
<1> DEFINE S == {m \in Nat : \E g : g = Unfold(base, g, s, 1..m)}
<1>1. 0 \in S
  <2> DEFINE g == [t \in SUBSET (1..0) |-> base]
  <2>1. \A t \in SUBSET (1..0) : t = {}
    OBVIOUS
  <2>2. g = Unfold(base, g, s, 1..0)
    BY <2>1 DEF Unfold
  <2> QED
    BY <2>2
<1>2. ASSUME NEW m \in Nat, m \in S
      PROVE  m + 1 \in S
  <2>1. PICK g : g = Unfold(base, g, s, 1..m)
    BY <1>2
  <2> DEFINE h == [t \in SUBSET (1..m+1) |->
                     IF m + 1 \in t THEN Op(g[t \ {m + 1}], s[m + 1]) ELSE g[t]]
  <2>2. ASSUME NEW t \in SUBSET (1..m+1)
        PROVE  h[t] = IF t = {} THEN base ELSE Op(h[t \ {Max(t)}], s[Max(t)])
    <3>1. CASE m + 1 \in t
      <4>1. Max(t) = m + 1
        BY <3>1, MaxIsLast
      <4>2. h[t \ {m + 1}] = g[t \ {m + 1}]
        OBVIOUS
      <4>3. h[t] = Op(g[t \ {m + 1}], s[m + 1])
        BY <3>1
      <4> QED
        BY <3>1, <4>1, <4>2, <4>3
    <3>2. CASE m + 1 \notin t
      <4>1. t \in SUBSET (1..m)
        <5>1. ASSUME NEW x \in t PROVE x \in 1..m
          BY <3>2
        <5> QED
          BY <5>1
      <4>2. h[t] = g[t]
        BY <3>2
      <4>4. m + 1 \notin t \ {Max(t)}
        BY <3>2
      <4>6. t \ {Max(t)} \in SUBSET (1..m+1)
        OBVIOUS
      <4>5. h[t \ {Max(t)}] = g[t \ {Max(t)}]
        BY <4>4, <4>6
      <4>3. g[t] = IF t = {} THEN base ELSE Op(g[t \ {Max(t)}], s[Max(t)])
        BY <2>1, <4>1 DEF Unfold
      <4> HIDE DEF h
      <4> QED
        BY <4>2, <4>3, <4>5
    <3> QED
      BY <3>1, <3>2
  <2>3. h = Unfold(base, h, s, 1..m+1)
    <3> HIDE DEF h
    <3>1. h = [t \in SUBSET (1..m+1) |-> h[t]]
      BY DEF h
    <3> QED
      BY <2>2, <3>1 DEF Unfold
  <2> QED
    BY <2>3
<1> QED
  BY <1>1, <1>2, SetInduction

\* Any function that satisfies it adds the last index of a segment last.
LEMMA UnfoldSteps ==
  ASSUME NEW base, NEW s, NEW n \in Nat, NEW g, g = Unfold(base, g, s, 1..n)
  PROVE  /\ g[1..0] = base
         /\ \A k \in 1..n : g[1..k] = Op(g[1..(k-1)], s[k])
<1>1. g[1..0] = base
  <2>1. 1..0 = {} /\ 1..0 \in SUBSET (1..n)
    OBVIOUS
  <2> QED
    BY <2>1 DEF Unfold
<1>2. ASSUME NEW k \in 1..n
      PROVE  g[1..k] = Op(g[1..(k-1)], s[k])
  <2>1. 1..k \in SUBSET (1..n) /\ 1..k # {} /\ (1..k) \ {k} = 1..(k-1)
    OBVIOUS
  <2>2. Max(1..k) = k
    BY MaxIsLast
  <2> QED
    BY <2>1, <2>2 DEF Unfold
<1> QED
  BY <1>1, <1>2

-----------------------------------------------------------------------------

Run(f, base, s) ==
  /\ f = [k \in 0..Len(s) |-> f[k]]
  /\ f[0] = base
  /\ \A k \in 1..Len(s) : f[k] = Op(f[k-1], s[k])
  /\ Folded(base, s) = f[Len(s)]

\* A fold goes from left to right: its value on s is the last of a run of values
\* that begins with the base and takes one element at a time.
THEOREM FoldLeftSteps ==
  ASSUME NEW base, NEW T, NEW s \in Seq(T)
  PROVE  \E f : Run(f, base, s)
<1> DEFINE iter == CHOOSE g : g = Unfold(base, g, s, 1..Len(s))
           f == [k \in 0..Len(s) |-> iter[1..k]]
<1>1. Len(s) \in Nat /\ DOMAIN s = 1..Len(s)
  OBVIOUS
<1>2. iter = Unfold(base, iter, s, 1..Len(s))
  BY <1>1, UnfoldExists
<1>3. Folded(base, s) = iter[1..Len(s)]
  BY <1>1 DEF Folded, FoldLeft, MapThenFoldSet, Unfold
<1> HIDE DEF iter
<1>4. /\ iter[1..0] = base
      /\ \A k \in 1..Len(s) : iter[1..k] = Op(iter[1..(k-1)], s[k])
  BY <1>1, <1>2, UnfoldSteps
<1>5. f[0] = base /\ f[Len(s)] = Folded(base, s)
  BY <1>1, <1>3, <1>4
<1>6. ASSUME NEW k \in 1..Len(s) PROVE f[k] = Op(f[k-1], s[k])
  <2>1. k \in 0..Len(s) /\ k - 1 \in 0..Len(s)
    OBVIOUS
  <2> QED
    BY <2>1, <1>4
<1>7. Run(f, base, s)
  BY <1>5, <1>6 DEF Run
<1> QED
  BY <1>7

\* What holds of the base for nothing and is passed on by each element holds of
\* the fold for the whole sequence.  R relates a number of elements to the value.
THEOREM FoldPassesOn ==
  ASSUME NEW base, NEW T, NEW s \in Seq(T), NEW R,
         <<0, base>> \in R,
         \A k \in 1..Len(s) : \A a : <<k-1, a>> \in R => <<k, Op(a, s[k])>> \in R
  PROVE  <<Len(s), Folded(base, s)>> \in R
<1>1. PICK f : Run(f, base, s)
  BY FoldLeftSteps
<1> DEFINE S == {m \in Nat : m <= Len(s) => <<m, f[m]>> \in R}
<1>2. 0 \in S
  BY <1>1 DEF Run
<1>3. ASSUME NEW m \in Nat, m \in S
      PROVE  m + 1 \in S
  <2>1. CASE m + 1 <= Len(s)
    <3>1. m + 1 \in 1..Len(s) /\ m <= Len(s) /\ (m + 1) - 1 = m
      BY <2>1
    <3>2. <<m, f[m]>> \in R
      BY <1>3, <3>1
    <3>3. <<m + 1, Op(f[m], s[m + 1])>> \in R
      BY <3>1, <3>2
    <3>4. f[m + 1] = Op(f[m], s[m + 1])
      BY <1>1, <3>1 DEF Run
    <3> QED
      BY <3>3, <3>4
  <2> QED
    BY <2>1
<1>4. Len(s) \in S
  <2> HIDE DEF S
  <2>1. \A m \in Nat : m \in S
    BY <1>2, <1>3, SetInduction
  <2> QED
    BY <2>1
<1> QED
  BY <1>1, <1>4 DEF Run

\* A set closed under the operator holds the fold.
THEOREM FoldStaysIn ==
  ASSUME NEW base, NEW T, NEW s \in Seq(T), NEW I, base \in I,
         \A a \in I, x \in T : Op(a, x) \in I
  PROVE  Folded(base, s) \in I
<1> DEFINE R == Nat \X I
<1>1. <<0, base>> \in R
  OBVIOUS
<1>2. ASSUME NEW k \in 1..Len(s), NEW a, <<k-1, a>> \in R
      PROVE  <<k, Op(a, s[k])>> \in R
  <2>1. s[k] \in T /\ k \in Nat /\ a \in I
    BY <1>2
  <2> QED
    BY <2>1
<1>3. <<Len(s), Folded(base, s)>> \in R
  <2> HIDE DEF R
  <2> QED
    BY <1>1, <1>2, FoldPassesOn
<1> QED
  BY <1>3

\* The element appended last is folded in last.
THEOREM FoldTakesLast ==
  ASSUME NEW base, NEW T, NEW s \in Seq(T), NEW x \in T
  PROVE  Folded(base, Append(s, x)) = Op(Folded(base, s), x)
<1> DEFINE t == Append(s, x)
<1>1. t \in Seq(T) /\ Len(t) = Len(s) + 1 /\ t[Len(s) + 1] = x
  OBVIOUS
<1>2. \A k \in 1..Len(s) : t[k] = s[k]
  OBVIOUS
<1> HIDE DEF t
<1>3. PICK f : Run(f, base, t)
  BY <1>1, FoldLeftSteps
<1> DEFINE R == {p \in Nat \X {f[k] : k \in Nat} : p[2] = f[p[1]]}
<1>4. <<0, base>> \in R
  BY <1>3 DEF Run
<1>5. ASSUME NEW k \in 1..Len(s), NEW a, <<k-1, a>> \in R
      PROVE  <<k, Op(a, s[k])>> \in R
  <2>1. a = f[k-1]
    BY <1>5
  <2>2. k \in Nat /\ k \in 1..Len(t)
    BY <1>1
  <2>3. Op(a, s[k]) = f[k]
    BY <1>2, <1>3, <2>1, <2>2 DEF Run
  <2> QED
    BY <2>2, <2>3
<1>6. <<Len(s), Folded(base, s)>> \in R
  <2> HIDE DEF R
  <2> QED
    BY <1>4, <1>5, FoldPassesOn
<1>7. Folded(base, s) = f[Len(s)]
  BY <1>6
<1>8. f[Len(s) + 1] = Op(f[Len(s)], x)
  <2>1. Len(s) + 1 \in 1..Len(t) /\ (Len(s) + 1) - 1 = Len(s)
    BY <1>1
  <2> QED
    BY <1>1, <1>3, <2>1 DEF Run
<1> QED
  BY <1>1, <1>3, <1>7, <1>8 DEF t, Run

\* Nothing is added to the base by an empty sequence, one thing by one element.
THEOREM FoldOfFew ==
  ASSUME NEW base
  PROVE  /\ Folded(base, << >>) = base
         /\ \A x : Folded(base, << x >>) = Op(base, x)
         /\ \A x, y : Folded(base, << x, y >>) = Op(Op(base, x), y)
<1>1. Folded(base, << >>) = base
  <2>1. << >> \in Seq({}) /\ Len(<< >>) = 0
    OBVIOUS
  <2> QED
    BY <2>1, FoldLeftSteps DEF Run
<1>2. ASSUME NEW x PROVE Folded(base, << x >>) = Op(base, x)
  <2>1. << >> \in Seq({x}) /\ Append(<< >>, x) = << x >>
    OBVIOUS
  <2>2. Folded(base, Append(<< >>, x)) = Op(Folded(base, << >>), x)
    <3>1. x \in {x}
      OBVIOUS
    <3> QED
      BY <2>1, <3>1, FoldTakesLast, Zenon
  <2> QED
    BY <1>1, <2>1, <2>2, Zenon
<1>3. ASSUME NEW x, NEW y PROVE Folded(base, << x, y >>) = Op(Op(base, x), y)
  <2> DEFINE s == << x, y >>
  <2>1. s \in Seq({x, y}) /\ Len(s) = 2 /\ s[1] = x /\ s[2] = y
    OBVIOUS
  <2> HIDE DEF s
  <2>2. PICK f : Run(f, base, s)
    BY <2>1, FoldLeftSteps
  <2>3. f[1] = Op(f[0], x) /\ f[2] = Op(f[1], y)
    BY <2>1, <2>2 DEF Run
  <2> QED
    BY <2>1, <2>2, <2>3 DEF s, Run
<1> QED
  BY <1>1, <1>2, <1>3

=============================================================================
