---------------------------- MODULE ChunkingProofs ----------------------------
(* What the chunkers of taxguide.chunking make of a document: every token of   *)
(* its text is in a chunk, and no chunk is longer than the limit; structural  *)
(* and recursive chunks follow one another without an overlap.  The pieces    *)
(* that one level of splitting makes are tilings, and every operator of       *)
(* Chunking that joins pieces keeps tilings.                                  *)
EXTENDS Chunking, SequenceTheorems, TLAPS

Joins == INSTANCE FoldLemmas WITH Op <- Extend
Packs == INSTANCE FoldLemmas WITH Op <- AddPiece

\* Spans, and chunks, which have a path besides.
ChunkRecord == [path : Nat, from : Nat, to : Nat]
Pieces == Spans \cup ChunkRecord

\* The pieces are not empty, follow one another from the token first to the
\* token last, and none has more than max tokens.
Tiling(ps, first, last, max) ==
  /\ ps \in Seq(Pieces) /\ ps # << >>
  /\ ps[1].from = first /\ ps[Len(ps)].to = last
  /\ \A i \in DOMAIN ps : ps[i].from <= ps[i].to /\ Size(ps[i]) <= max
  /\ \A i \in 1 .. Len(ps) - 1 : ps[i + 1].from = ps[i].to + 1

Covered(ps) == UNION {TokensOf(ps[i]) : i \in DOMAIN ps}

LEMMA PieceTypes ==
  ASSUME NEW ps \in Seq(Pieces), NEW i \in DOMAIN ps
  PROVE  ps[i] \in Pieces /\ ps[i].from \in Nat /\ ps[i].to \in Nat
<1>1. ps[i] \in Pieces
  OBVIOUS
<1>2. \A p \in Pieces : p.from \in Nat /\ p.to \in Nat
  BY DEF Pieces, Spans, ChunkRecord
<1> QED
  BY <1>1, <1>2

\* A tiling covers exactly the tokens between its ends.
LEMMA TilingStaysAbove ==
  ASSUME NEW ps, NEW first \in Nat, NEW last \in Nat, NEW max, Tiling(ps, first, last, max)
  PROVE  \A i \in DOMAIN ps : first <= ps[i].from
<1> DEFINE S == {i \in DOMAIN ps : ps[i].from < first}
<1>1. ps \in Seq(Pieces)
  BY DEF Tiling
<1> SUFFICES ASSUME S # {} PROVE FALSE
  BY <1>1, PieceTypes
<1>2. S \in SUBSET Nat
  BY <1>1
<1>3. PICK m \in S : \A y \in S : m <= y
  <2> HIDE DEF S
  <2> QED
    BY <1>2, Joins!LeastExists
<1>4. m \in DOMAIN ps /\ ps[m].from < first /\ m # 1 /\ m \in Nat
  BY <1>1 DEF Tiling
<1>5. m - 1 \in 1 .. Len(ps) - 1 /\ m - 1 \in DOMAIN ps /\ (m - 1) + 1 = m
  BY <1>1, <1>4
<1>6. m - 1 \notin S
  BY <1>3, <1>4
<1>7. ps[m].from = ps[m - 1].to + 1 /\ ps[m - 1].from <= ps[m - 1].to
  BY <1>5 DEF Tiling
<1>8. ps[m - 1].from \in Nat /\ ps[m - 1].to \in Nat /\ ps[m].from \in Nat
  BY <1>1, <1>4, <1>5, PieceTypes
<1> QED
  BY <1>4, <1>5, <1>6, <1>7, <1>8

LEMMA TilingStaysBelow ==
  ASSUME NEW ps, NEW first \in Nat, NEW last \in Nat, NEW max, Tiling(ps, first, last, max)
  PROVE  \A i \in DOMAIN ps : ps[i].to <= last
<1> DEFINE S == {n \in 0 .. Len(ps) - 1 : last < ps[Len(ps) - n].to}
<1>1. ps \in Seq(Pieces) /\ Len(ps) \in Nat /\ DOMAIN ps = 1 .. Len(ps)
  BY DEF Tiling
<1>2. S # {} => FALSE
  <2> SUFFICES ASSUME S # {} PROVE FALSE
    OBVIOUS
  <2>1. S \in SUBSET Nat
    BY <1>1
  <2>2. PICK m \in S : \A y \in S : m <= y
    <3> HIDE DEF S
    <3> QED
      BY <2>1, Joins!LeastExists
  <2>3. m # 0 /\ m \in 1 .. Len(ps) - 1
    BY <1>1 DEF Tiling
  <2> DEFINE j == Len(ps) - m
  <2>4. j \in 1 .. Len(ps) - 1 /\ j \in DOMAIN ps /\ j + 1 \in DOMAIN ps
        /\ m - 1 \in 0 .. Len(ps) - 1 /\ Len(ps) - (m - 1) = j + 1
    BY <1>1, <2>3
  <2>5. m - 1 \notin S
    <3> HIDE DEF S, j
    <3> QED
      BY <2>2, <2>3
  <2>6. ~(last < ps[j + 1].to) /\ last < ps[j].to
    BY <2>4, <2>5
  <2> HIDE DEF j
  <2>7. ps[j + 1].from = ps[j].to + 1 /\ ps[j + 1].from <= ps[j + 1].to
    BY <2>4 DEF Tiling
  <2>8. ps[j].to \in Nat /\ ps[j + 1].from \in Nat /\ ps[j + 1].to \in Nat
    BY <1>1, <2>4, PieceTypes
  <2> QED
    BY <2>4, <2>6, <2>7, <2>8, SMTT(30)
<1>3. ASSUME NEW i \in DOMAIN ps PROVE ps[i].to <= last
  <2>1. Len(ps) - i \in 0 .. Len(ps) - 1 /\ Len(ps) - (Len(ps) - i) = i
    BY <1>1
  <2>2. ~(last < ps[i].to)
    BY <1>2, <2>1
  <2> QED
    BY <1>1, <2>2, PieceTypes
<1> QED
  BY <1>3

LEMMA TilingCovers ==
  ASSUME NEW ps, NEW first \in Nat, NEW last \in Nat, NEW max, Tiling(ps, first, last, max)
  PROVE  Covered(ps) = first .. last /\ first <= last
<1>1. ps \in Seq(Pieces) /\ Len(ps) \in Nat /\ DOMAIN ps = 1 .. Len(ps) /\ Len(ps) # 0
  BY DEF Tiling
<1>2. \A i \in DOMAIN ps : ps[i].from \in Nat /\ ps[i].to \in Nat
  BY <1>1, PieceTypes
<1>3. ASSUME NEW x \in Covered(ps) PROVE x \in first .. last
  <2>1. PICK i \in DOMAIN ps : x \in ps[i].from .. ps[i].to
    BY DEF Covered, TokensOf
  <2>2. first <= ps[i].from /\ ps[i].to <= last
    BY TilingStaysAbove, TilingStaysBelow
  <2> QED
    BY <1>2, <2>1, <2>2
<1>4. ASSUME NEW x \in first .. last PROVE x \in Covered(ps)
  <2> DEFINE S == {i \in DOMAIN ps : x <= ps[i].to}
  <2>1. S \in SUBSET Nat /\ Len(ps) \in S
    BY <1>1 DEF Tiling
  <2>2. PICK m \in S : \A y \in S : m <= y
    <3> HIDE DEF S
    <3> QED
      BY <2>1, Joins!LeastExists
  <2>3. m \in DOMAIN ps /\ x <= ps[m].to
    OBVIOUS
  <2>4. ps[m].from <= x
    <3>1. CASE m = 1
      BY <3>1 DEF Tiling
    <3>2. CASE m # 1
      <4>1. m - 1 \in 1 .. Len(ps) - 1 /\ m - 1 \in DOMAIN ps /\ (m - 1) + 1 = m /\ m \in Nat
        BY <1>1, <2>3, <3>2
      <4>2. ~(x <= ps[m - 1].to)
        BY <2>2, <4>1
      <4>3. ps[m].from = ps[m - 1].to + 1
        BY <4>1 DEF Tiling
      <4> QED
        BY <1>2, <2>3, <4>1, <4>2, <4>3
    <3> QED
      BY <3>1, <3>2
  <2>5. x \in TokensOf(ps[m])
    BY <1>2, <2>3, <2>4 DEF TokensOf
  <2> QED
    BY <2>3, <2>5 DEF Covered
<1>5. first <= last
  <2>1. 1 \in DOMAIN ps
    BY <1>1
  <2>2. ps[1].from = first /\ ps[1].from <= ps[1].to /\ ps[1].to <= last
    BY <2>1, TilingStaysBelow DEF Tiling
  <2> QED
    BY <1>2, <2>1, <2>2
<1> QED
  BY <1>3, <1>4, <1>5

-----------------------------------------------------------------------------
(* Joining tilings *)

LEMMA OneTile ==
  ASSUME NEW p \in Pieces, NEW max, p.from <= p.to, Size(p) <= max
  PROVE  Tiling(<< p >>, p.from, p.to, max)
<1> DEFINE ps == << p >>
<1>1. ps \in Seq(Pieces) /\ Len(ps) = 1 /\ ps[1] = p /\ DOMAIN ps = 1 .. 1 /\ ps # << >>
  OBVIOUS
<1>2. \A i \in 1 .. 1 : i = 1
  OBVIOUS
<1>3. 1 .. (1 - 1) = {}
  OBVIOUS
<1> HIDE DEF ps
<1>4. Tiling(ps, p.from, p.to, max)
  BY <1>1, <1>2, <1>3 DEF Tiling
<1> QED
  BY <1>4 DEF ps

LEMMA TilingsJoin ==
  ASSUME NEW ps, NEW qs, NEW first, NEW mid \in Nat, NEW last, NEW max,
         Tiling(ps, first, mid, max), Tiling(qs, mid + 1, last, max)
  PROVE  Tiling(ps \o qs, first, last, max)
<1>1. ps \in Seq(Pieces) /\ qs \in Seq(Pieces) /\ Len(ps) \in Nat \ {0} /\ Len(qs) \in Nat \ {0}
  BY DEF Tiling
<1>2. PICK rs : rs = ps \o qs
  OBVIOUS
<1>3. rs \in Seq(Pieces) /\ Len(rs) = Len(ps) + Len(qs) /\ DOMAIN rs = 1 .. Len(rs)
  BY <1>1, <1>2
<1>4. \A i \in 1 .. Len(ps) : rs[i] = ps[i]
  BY <1>1, <1>2
<1>5. \A i \in Len(ps) + 1 .. Len(rs) : rs[i] = qs[i - Len(ps)]
  BY <1>1, <1>2, <1>3
<1>6. rs # << >> /\ rs[1].from = first
  <2>1. 1 \in 1 .. Len(ps)
    BY <1>1
  <2> QED
    BY <1>1, <1>3, <1>4, <2>1 DEF Tiling
<1>7. rs[Len(rs)].to = last
  <2>1. Len(rs) \in Len(ps) + 1 .. Len(rs) /\ Len(rs) - Len(ps) = Len(qs)
    BY <1>1, <1>3
  <2> QED
    BY <1>5, <2>1 DEF Tiling
<1>8. ASSUME NEW i \in DOMAIN rs PROVE rs[i].from <= rs[i].to /\ Size(rs[i]) <= max
  <2>1. CASE i \in 1 .. Len(ps)
    BY <1>1, <1>4, <2>1 DEF Tiling
  <2>2. CASE i \notin 1 .. Len(ps)
    <3>1. i \in Len(ps) + 1 .. Len(rs) /\ i - Len(ps) \in DOMAIN qs
      BY <1>1, <1>3, <2>2
    <3> QED
      BY <1>5, <3>1 DEF Tiling
  <2> QED
    BY <2>1, <2>2
<1>9. ASSUME NEW i \in 1 .. Len(rs) - 1 PROVE rs[i + 1].from = rs[i].to + 1
  <2>1. CASE i + 1 <= Len(ps)
    <3>1. i \in 1 .. Len(ps) - 1 /\ i \in 1 .. Len(ps) /\ i + 1 \in 1 .. Len(ps)
      BY <1>1, <1>3, <2>1
    <3> QED
      BY <1>4, <3>1 DEF Tiling
  <2>2. CASE i = Len(ps)
    <3>1. i \in 1 .. Len(ps) /\ i + 1 \in Len(ps) + 1 .. Len(rs) /\ (i + 1) - Len(ps) = 1
      BY <1>1, <1>3, <2>2
    <3>2. rs[i + 1] = qs[1] /\ rs[i] = ps[Len(ps)]
      BY <1>4, <1>5, <2>2, <3>1
    <3> QED
      BY <3>2 DEF Tiling
  <2>3. CASE i > Len(ps)
    <3>1. /\ i \in Len(ps) + 1 .. Len(rs) /\ i + 1 \in Len(ps) + 1 .. Len(rs)
          /\ i - Len(ps) \in 1 .. Len(qs) - 1 /\ (i + 1) - Len(ps) = (i - Len(ps)) + 1
      BY <1>1, <1>3, <2>3
    <3>2. rs[i + 1] = qs[(i - Len(ps)) + 1] /\ rs[i] = qs[i - Len(ps)]
      BY <1>5, <3>1
    <3> QED
      BY <3>1, <3>2 DEF Tiling
  <2> QED
    BY <1>1, <1>3, <2>1, <2>2, <2>3
<1>10. Tiling(rs, first, last, max)
  BY <1>3, <1>6, <1>7, <1>8, <1>9 DEF Tiling
<1> QED
  BY <1>2, <1>10

LEMMA JoinedIsFold == \A lists : Joined(lists) = Joins!Folded(<< >>, lists)
BY DEF Joined, Joins!Folded, FoldLeft, Joins!FoldLeft, MapThenFoldSet, Joins!MapThenFoldSet,
       Max, Joins!Max

\* Tilings of spans that follow one another are, joined, a tiling of the whole.
LEMMA JoinedTiles ==
  ASSUME NEW spans, Contiguous(spans), spans \in Seq(Spans), NEW max,
         NEW lists, lists = [i \in DOMAIN spans |-> lists[i]],
         \A i \in DOMAIN spans : Tiling(lists[i], spans[i].from, spans[i].to, max)
  PROVE  Tiling(Joined(lists), spans[1].from, spans[Len(spans)].to, max)
<1> DEFINE n == Len(spans)
           R == {p \in Nat \X Seq(Pieces) :
                   \/ p[1] = 0 /\ p[2] = << >>
                   \/ /\ p[1] \in 1 .. n
                      /\ Tiling(p[2], spans[1].from, spans[p[1]].to, max)}
<1>1. n \in Nat \ {0} /\ DOMAIN spans = 1 .. n
  BY DEF Contiguous
<1>2. \A i \in 1 .. n : lists[i] \in Seq(Pieces)
  BY <1>1 DEF Tiling
<1>3. lists \in Seq(Seq(Pieces)) /\ Len(lists) = n
  BY <1>1, <1>2
<1>4. <<0, << >> >> \in R
  <2>1. << >> \in Seq(Pieces)
    OBVIOUS
  <2> QED
    BY <2>1
<1>5. ASSUME NEW k \in 1 .. Len(lists), NEW a, <<k - 1, a>> \in R
      PROVE  <<k, Extend(a, lists[k])>> \in R
  <2>1. k \in 1 .. n /\ k \in Nat /\ Tiling(lists[k], spans[k].from, spans[k].to, max)
    BY <1>1, <1>3
  <2>2. a \in Seq(Pieces) /\ lists[k] \in Seq(Pieces)
    BY <1>2, <1>5, <2>1
  <2>3. a \o lists[k] \in Seq(Pieces)
    BY <2>2
  <2>4. CASE k - 1 = 0
    <3>1. k = 1 /\ a = << >>
      BY <1>5, <2>1, <2>4
    <3>2. a \o lists[k] = lists[k]
      BY <2>2, <3>1
    <3> QED
      BY <2>1, <2>2, <3>1, <3>2 DEF Extend
  <2>5. CASE k - 1 # 0
    <3>1. k - 1 \in 1 .. n /\ Tiling(a, spans[1].from, spans[k - 1].to, max)
      BY <1>5, <2>5
    <3>2. k - 1 \in 1 .. Len(spans) - 1 /\ (k - 1) + 1 = k
      BY <2>1, <3>1
    <3>3. spans[k].from = spans[k - 1].to + 1
      BY <3>2 DEF Contiguous
    <3>4. spans[k - 1].to \in Nat
      <4>1. spans[k - 1] \in Spans
        BY <1>1, <3>1
      <4> QED
        BY <4>1 DEF Spans
    <3>5. Tiling(a \o lists[k], spans[1].from, spans[k].to, max)
      BY <2>1, <3>1, <3>3, <3>4, TilingsJoin
    <3> QED
      BY <2>1, <2>3, <3>5 DEF Extend
  <2> QED
    BY <2>4, <2>5
<1>6. <<Len(lists), Joins!Folded(<< >>, lists)>> \in R
  <2> HIDE DEF R
  <2> QED
    BY <1>3, <1>4, <1>5, Joins!FoldPassesOn
<1> QED
  BY <1>1, <1>3, <1>6, JoinedIsFold

-----------------------------------------------------------------------------
(* Windows *)

LEMMA Rounding ==
  ASSUME NEW size \in Nat \ {0}, NEW step \in Nat \ {0}, NEW n, n = (size + step - 1) \div step
  PROVE  n \in Nat \ {0} /\ (n - 1) * step < size /\ size <= n * step
<1>1. n \in Nat /\ n * step <= size + step - 1 /\ size + step - 1 < n * step + step
  OBVIOUS
<1>2. (n - 1) * step = n * step - step /\ n * step \in Nat
  BY <1>1
<1>3. n # 0
  BY <1>1
<1> QED
  BY <1>1, <1>2, <1>3

\* Where the windows begin and end: in steps from the first token on, cut off
\* at the last token.
StartOf(s, step, k) == s.from + (k - 1) * step
AreWindows(ws, s, max, step) ==
  /\ ws \in Seq(Spans) /\ ws # << >>
  /\ \A k \in DOMAIN ws :
       /\ StartOf(s, step, k) \in Nat /\ StartOf(s, step, k) <= s.to
       /\ ws[k].from = StartOf(s, step, k)
       /\ ws[k].to = IF StartOf(s, step, k) + max - 1 <= s.to
                     THEN StartOf(s, step, k) + max - 1 ELSE s.to
  /\ s.to < StartOf(s, step, Len(ws)) + step
  /\ \A k \in 1 .. Len(ws) - 1 : StartOf(s, step, k + 1) = StartOf(s, step, k) + step

LEMMA WindowsShape ==
  ASSUME NEW s \in Spans, s.from <= s.to, NEW max \in Nat \ {0}, NEW step \in Nat \ {0}
  PROVE  AreWindows(Windows(s, max, step), s, max, step)
<1> DEFINE ws == Windows(s, max, step)
           start(k) == StartOf(s, step, k)
           n == (Size(s) + step - 1) \div step
<1>1. s.from \in Nat /\ s.to \in Nat /\ Size(s) \in Nat \ {0} /\ Size(s) = s.to - s.from + 1
  BY DEF Spans, Size
<1>2. n \in Nat \ {0} /\ (n - 1) * step < Size(s) /\ Size(s) <= n * step
  BY <1>1, Rounding
<1>3. ws = [k \in 1 .. n |-> Span(start(k), Min({start(k) + max - 1, s.to}))]
  BY DEF Windows, StartOf
<1> HIDE DEF n, ws
<1>4. n * step = (n - 1) * step + step
  BY <1>2
<1>5. ASSUME NEW k \in 1 .. n
      PROVE  start(k) \in Nat /\ start(k) <= s.to
  <2>1. k - 1 \in Nat /\ n - 1 \in Nat /\ k - 1 <= n - 1
    BY <1>2
  <2>2. (k - 1) * step \in Nat /\ (n - 1) * step \in Nat /\ (k - 1) * step <= (n - 1) * step
    BY <2>1
  <2> QED
    BY <1>1, <1>2, <2>2 DEF StartOf
<1>6. ASSUME NEW k \in 1 .. n
      PROVE  /\ ws[k] \in Spans /\ ws[k].from = start(k)
             /\ ws[k].to = IF start(k) + max - 1 <= s.to THEN start(k) + max - 1 ELSE s.to
  <2>1. PICK a \in Nat : a = start(k)
    BY <1>5
  <2>2. Min({a + max - 1, s.to}) = IF a + max - 1 <= s.to THEN a + max - 1 ELSE s.to
    BY <1>1 DEF Min
  <2>3. ws[k] = [from |-> a, to |-> IF a + max - 1 <= s.to THEN a + max - 1 ELSE s.to]
    <3> HIDE DEF start
    <3> QED
      BY <1>3, <2>1, <2>2 DEF Span
  <2> QED
    BY <1>1, <2>1, <2>3 DEF Spans
<1>7. ws \in Seq(Spans) /\ Len(ws) = n /\ DOMAIN ws = 1 .. n /\ ws # << >>
  <2>1. \A k \in 1 .. n : ws[k] \in Spans
    BY <1>6
  <2>2. ws = [k \in 1 .. n |-> ws[k]]
    BY <1>3
  <2>3. ws \in Seq(Spans) /\ Len(ws) = n /\ DOMAIN ws = 1 .. n
    <3> HIDE DEF start
    <3> QED
      BY <1>2, <2>1, <2>2
  <2> QED
    BY <1>2, <2>3
<1>8. s.to < start(n) + step
  BY <1>1, <1>2, <1>4 DEF StartOf
<1>9. ASSUME NEW k \in 1 .. n - 1 PROVE start(k + 1) = start(k) + step
  BY <1>1, <1>2 DEF StartOf
<1>10. AreWindows(ws, s, max, step)
  BY <1>5, <1>6, <1>7, <1>8, <1>9 DEF AreWindows
<1> QED
  BY <1>10 DEF ws

\* Windows that do not overlap tile the span.
LEMMA WindowsTile ==
  ASSUME NEW s \in Spans, s.from <= s.to, NEW max \in Nat \ {0}
  PROVE  Tiling(Windows(s, max, max), s.from, s.to, max)
<1> DEFINE start(k) == StartOf(s, max, k)
<1>1. PICK ws : ws = Windows(s, max, max)
  OBVIOUS
<1>2. /\ ws \in Seq(Spans) /\ ws # << >>
      /\ \A k \in DOMAIN ws :
           /\ start(k) \in Nat /\ start(k) <= s.to
           /\ ws[k].from = start(k)
           /\ ws[k].to = IF start(k) + max - 1 <= s.to THEN start(k) + max - 1 ELSE s.to
      /\ s.to < start(Len(ws)) + max
      /\ \A k \in 1 .. Len(ws) - 1 : start(k + 1) = start(k) + max
  BY <1>1, WindowsShape DEF AreWindows
<1>3. start(1) = s.from
  BY DEF Spans, StartOf
<1> HIDE DEF start
<1>4. s.from \in Nat /\ s.to \in Nat
  BY DEF Spans
<1>5. ws \in Seq(Pieces) /\ DOMAIN ws = 1 .. Len(ws) /\ Len(ws) \in Nat \ {0}
  BY <1>2 DEF Pieces
<1>6. ASSUME NEW k \in DOMAIN ws PROVE ws[k].from <= ws[k].to /\ Size(ws[k]) <= max
  BY <1>2, <1>4 DEF Size
<1>7. ASSUME NEW k \in 1 .. Len(ws) - 1 PROVE ws[k + 1].from = ws[k].to + 1
  <2>1. k \in DOMAIN ws /\ k + 1 \in DOMAIN ws
    BY <1>5
  <2>2. start(k + 1) = start(k) + max /\ start(k + 1) <= s.to /\ start(k) \in Nat
    BY <1>2, <2>1
  <2> QED
    BY <1>2, <1>4, <2>1, <2>2
<1>8. ws[1].from = s.from
  BY <1>2, <1>3, <1>5
<1>9. ws[Len(ws)].to = s.to
  <2>1. PICK n \in DOMAIN ws : n = Len(ws)
    BY <1>5
  <2>2. start(n) \in Nat /\ s.to < start(n) + max
        /\ ws[n].to = IF start(n) + max - 1 <= s.to THEN start(n) + max - 1 ELSE s.to
    BY <1>2, <2>1
  <2>3. ws[n].to = s.to
    BY <1>4, <2>2
  <2> QED
    BY <2>1, <2>3
<1>10. Tiling(ws, s.from, s.to, max)
  BY <1>2, <1>5, <1>6, <1>7, <1>8, <1>9 DEF Tiling
<1> QED
  BY <1>1, <1>10

\* Windows that overlap cover the span all the same, also without a last
\* window that the one before it contains.
LEMMA FixedPiecesCover ==
  ASSUME NEW d, DocumentSpan(d) \in Spans, DocumentSpan(d).from <= DocumentSpan(d).to,
         NEW max \in Nat \ {0}, NEW overlap \in Nat, overlap < max
  PROVE  /\ FixedPieces(d, max, overlap) \in Seq(Spans)
         /\ Covered(FixedPieces(d, max, overlap)) = TokensOf(DocumentSpan(d))
         /\ \A i \in DOMAIN FixedPieces(d, max, overlap) :
              Size(FixedPieces(d, max, overlap)[i]) \in 1 .. max
<1>1. PICK s \in Spans : s = DocumentSpan(d)
  OBVIOUS
<1>2. PICK step \in Nat \ {0} : step = max - overlap
  OBVIOUS
<1> DEFINE start(k) == StartOf(s, step, k)
<1>3. PICK ws : ws = Windows(s, max, step)
  OBVIOUS
<1>4. PICK ts : ts = Windows(s, step, step)
  OBVIOUS
<1>5. /\ ws \in Seq(Spans) /\ ws # << >>
      /\ \A k \in DOMAIN ws :
           /\ start(k) \in Nat /\ start(k) <= s.to
           /\ ws[k].from = start(k)
           /\ ws[k].to = IF start(k) + max - 1 <= s.to THEN start(k) + max - 1 ELSE s.to
      /\ s.to < start(Len(ws)) + step
      /\ \A k \in 1 .. Len(ws) - 1 : start(k + 1) = start(k) + step
  BY <1>1, <1>3, WindowsShape DEF AreWindows
<1>6. /\ ts \in Seq(Spans)
      /\ \A k \in DOMAIN ts :
           /\ start(k) \in Nat /\ start(k) <= s.to
           /\ ts[k].from = start(k)
           /\ ts[k].to = IF start(k) + step - 1 <= s.to THEN start(k) + step - 1 ELSE s.to
  BY <1>1, <1>4, WindowsShape DEF AreWindows
<1>7. DOMAIN ts = DOMAIN ws
  BY <1>3, <1>4 DEF Windows
<1> HIDE DEF start
<1>8. s.from \in Nat /\ s.to \in Nat /\ s.from <= s.to
  BY <1>1 DEF Spans
<1>9. Covered(ts) = s.from .. s.to
  <2>1. Tiling(ts, s.from, s.to, step)
    BY <1>1, <1>4, WindowsTile
  <2> QED
    BY <1>8, <2>1, TilingCovers
<1>10. \A k \in DOMAIN ws : TokensOf(ts[k]) \subseteq TokensOf(ws[k])
  BY <1>2, <1>5, <1>6, <1>7, <1>8 DEF TokensOf
<1>11. start(1) = s.from /\ \A k \in DOMAIN ws : s.from <= start(k)
  <2>1. start(1) = s.from
    BY <1>8 DEF start, StartOf
  <2>2. ASSUME NEW k \in DOMAIN ws PROVE s.from <= start(k)
    <3>1. k - 1 \in Nat
      BY <1>5
    <3>2. (k - 1) * step \in Nat
      BY <3>1
    <3> QED
      BY <1>8, <3>2 DEF start, StartOf
  <2> QED
    BY <2>1, <2>2
<1>12. Covered(ws) = s.from .. s.to
  <2>1. ASSUME NEW x \in s.from .. s.to PROVE x \in Covered(ws)
    BY <1>7, <1>9, <1>10, <2>1 DEF Covered
  <2>2. ASSUME NEW k \in DOMAIN ws PROVE TokensOf(ws[k]) \subseteq s.from .. s.to
    BY <1>5, <1>8, <1>11 DEF TokensOf
  <2> QED
    BY <2>1, <2>2 DEF Covered
<1>13. \A k \in DOMAIN ws : Size(ws[k]) \in 1 .. max
  BY <1>5, <1>8 DEF Size
<1> DEFINE n == Len(ws)
<1>14. n \in Nat \ {0} /\ DOMAIN ws = 1 .. n
  BY <1>5
<1>15. CASE ~(n > 1 /\ Size(Last(ws)) <= overlap)
  <2>1. FixedPieces(d, max, overlap) = ws
    BY <1>1, <1>2, <1>3, <1>15 DEF FixedPieces
  <2> QED
    BY <1>1, <1>5, <1>12, <1>13, <2>1 DEF TokensOf
<1>16. CASE n > 1 /\ Size(Last(ws)) <= overlap
  <2>1. PICK fs : fs = Front(ws)
    OBVIOUS
  <2>2. FixedPieces(d, max, overlap) = fs
    BY <1>1, <1>2, <1>3, <1>16, <2>1 DEF FixedPieces
  <2>3. /\ fs \in Seq(Spans) /\ DOMAIN fs = 1 .. n - 1
        /\ \A k \in 1 .. n - 1 : fs[k] = ws[k]
    BY <1>5, <1>14, <2>1 DEF Front
  <2>4. n \in DOMAIN ws /\ n - 1 \in DOMAIN ws /\ n - 1 \in 1 .. n - 1 /\ (n - 1) + 1 = n
    BY <1>14, <1>16
  <2>5. Size(ws[n]) <= overlap
    BY <1>16 DEF Last
  <2>6. start(n) = start(n - 1) + step /\ start(n) \in Nat /\ start(n - 1) \in Nat
    BY <1>5, <2>4
  <2>7. /\ ws[n].from = start(n) /\ ws[n - 1].from = start(n - 1)
        /\ ws[n].to = IF start(n) + max - 1 <= s.to THEN start(n) + max - 1 ELSE s.to
        /\ ws[n - 1].to = IF start(n - 1) + max - 1 <= s.to
                          THEN start(n - 1) + max - 1 ELSE s.to
    BY <1>5, <2>4
  <2>8. ws[n].to = s.to
    <3> HIDE DEF n
    <3> QED
      BY <1>8, <2>5, <2>6, <2>7 DEF Size
  <2>9. s.to - start(n) + 1 <= overlap
    BY <2>5, <2>7, <2>8 DEF Size
  <2>10. ws[n - 1].to = s.to
    <3> HIDE DEF n
    <3> QED
      BY <1>2, <1>8, <2>6, <2>7, <2>9
  <2>11. TokensOf(ws[n]) \subseteq TokensOf(ws[n - 1])
    <3> HIDE DEF n
    <3> QED
      BY <1>8, <2>6, <2>7, <2>8, <2>10 DEF TokensOf
  <2>12. Covered(fs) = Covered(ws)
    <3>1. ASSUME NEW x, NEW k \in DOMAIN ws, x \in TokensOf(ws[k]) PROVE x \in Covered(fs)
      <4>1. CASE k = n
        <5>1. x \in TokensOf(fs[n - 1]) /\ n - 1 \in DOMAIN fs
          BY <2>3, <2>4, <2>11, <3>1, <4>1
        <5> QED
          BY <5>1 DEF Covered
      <4>2. CASE k # n
        <5>1. k \in 1 .. n - 1
          BY <1>14, <4>2
        <5>2. x \in TokensOf(fs[k]) /\ k \in DOMAIN fs
          BY <2>3, <3>1, <5>1
        <5> QED
          BY <5>2 DEF Covered
      <4> QED
        BY <4>1, <4>2
    <3>2. ASSUME NEW k \in DOMAIN fs PROVE fs[k] = ws[k] /\ k \in DOMAIN ws
      BY <1>14, <2>3
    <3> QED
      BY <3>1, <3>2 DEF Covered
  <2>13. \A k \in DOMAIN fs : Size(fs[k]) \in 1 .. max
    BY <1>13, <1>14, <2>3
  <2> QED
    BY <1>1, <1>12, <2>2, <2>3, <2>12, <2>13 DEF TokensOf
<1> QED
  BY <1>15, <1>16

-----------------------------------------------------------------------------
(* Splitting *)

\* Spans that follow one another have ends, and text between them.
LEMMA EndsOf ==
  ASSUME NEW spans \in Seq(Spans), Contiguous(spans),
         NEW e, e = Join(spans[1], spans[Len(spans)])
  PROVE  /\ e \in Spans /\ e.from <= e.to
         /\ e.from = spans[1].from /\ e.to = spans[Len(spans)].to
<1>1. Len(spans) \in Nat \ {0} /\ DOMAIN spans = 1 .. Len(spans)
  BY DEF Contiguous
<1>2. spans[1] \in Spans /\ spans[Len(spans)] \in Spans
  BY <1>1
<1> DEFINE lists == [i \in DOMAIN spans |-> Windows(spans[i], 1, 1)]
<1>3. \A i \in DOMAIN spans : Tiling(lists[i], spans[i].from, spans[i].to, 1)
  <2>1. ASSUME NEW i \in DOMAIN spans
        PROVE  Tiling(Windows(spans[i], 1, 1), spans[i].from, spans[i].to, 1)
    <3>1. spans[i] \in Spans /\ spans[i].from <= spans[i].to
      BY DEF Contiguous
    <3> QED
      BY <3>1, WindowsTile
  <2> QED
    BY <2>1
<1>4. lists = [i \in DOMAIN spans |-> lists[i]]
  OBVIOUS
<1> HIDE DEF lists
<1>5. Tiling(Joined(lists), spans[1].from, spans[Len(spans)].to, 1)
  BY <1>3, <1>4, JoinedTiles
<1>6. spans[1].from \in Nat /\ spans[Len(spans)].to \in Nat
  BY <1>2 DEF Spans
<1>7. spans[1].from <= spans[Len(spans)].to
  BY <1>5, <1>6, TilingCovers
<1> QED
  BY <1>6, <1>7 DEF Join, Span, Spans

LEMMA SpanTile ==
  ASSUME NEW s \in Spans, s.from <= s.to, NEW max, Size(s) <= max
  PROVE  Tiling(<< s >>, s.from, s.to, max)
BY OneTile DEF Pieces

LEMMA ParagraphTiles ==
  ASSUME NEW p, IsParagraph(p), NEW max \in Nat \ {0}
  PROVE  /\ ParagraphSpan(p) \in Spans /\ ParagraphSpan(p).from <= ParagraphSpan(p).to
         /\ Tiling(SplitParagraph(p, max), ParagraphSpan(p).from, ParagraphSpan(p).to, max)
<1>1. p \in Seq(Spans) /\ Contiguous(p) /\ p # << >>
  BY DEF IsParagraph, Contiguous
<1>2. PICK s : s = ParagraphSpan(p)
  OBVIOUS
<1>3. s = Join(p[1], p[Len(p)])
  BY <1>1, <1>2 DEF ParagraphSpan, Head, Last
<1>4. s \in Spans /\ s.from <= s.to /\ s.from = p[1].from /\ s.to = p[Len(p)].to
  BY <1>1, <1>3, EndsOf
<1>5. CASE Size(s) <= max
  <2>1. Tiling(<< s >>, s.from, s.to, max)
    BY <1>4, <1>5, SpanTile
  <2> QED
    BY <1>2, <1>4, <1>5, <2>1 DEF SplitParagraph
<1>6. CASE ~(Size(s) <= max)
  <2> DEFINE lists == [i \in DOMAIN p |-> SplitSentence(p[i], max)]
  <2>1. ASSUME NEW i \in DOMAIN p PROVE Tiling(lists[i], p[i].from, p[i].to, max)
    <3>1. p[i] \in Spans /\ p[i].from <= p[i].to
      BY <1>1 DEF Contiguous
    <3> QED
      BY <3>1, WindowsTile DEF SplitSentence
  <2>2. lists = [i \in DOMAIN p |-> lists[i]]
    OBVIOUS
  <2>3. SplitParagraph(p, max) = Joined(lists)
    BY <1>2, <1>6 DEF SplitParagraph
  <2> HIDE DEF lists
  <2>4. Tiling(Joined(lists), p[1].from, p[Len(p)].to, max)
    BY <1>1, <2>1, <2>2, JoinedTiles
  <2> QED
    BY <1>2, <1>4, <2>3, <2>4
<1> QED
  BY <1>5, <1>6

LEMMA SectionTiles ==
  ASSUME NEW s, IsSection(s), NEW max \in Nat \ {0}
  PROVE  /\ SectionSpan(s) \in Spans /\ SectionSpan(s).from <= SectionSpan(s).to
         /\ Tiling(SplitSection(s, max), SectionSpan(s).from, SectionSpan(s).to, max)
<1>1. s \in Seq(Seq(Spans)) /\ \A i \in DOMAIN s : IsParagraph(s[i])
  BY DEF IsSection
<1>2. PICK spans : spans = [i \in DOMAIN s |-> ParagraphSpan(s[i])]
  OBVIOUS
<1>3. Contiguous(spans)
  BY <1>2 DEF IsSection
<1>4. \A i \in DOMAIN s : spans[i] \in Spans
  BY <1>1, <1>2, ParagraphTiles
<1>5. spans \in Seq(Spans) /\ Len(spans) = Len(s) /\ DOMAIN spans = DOMAIN s
  <2>1. Len(s) \in Nat /\ DOMAIN s = 1 .. Len(s)
    BY <1>1
  <2>2. spans = [i \in 1 .. Len(s) |-> spans[i]]
    BY <1>2, <2>1
  <2> QED
    BY <1>4, <2>1, <2>2
<1>6. Len(s) \in Nat \ {0} /\ 1 \in DOMAIN s /\ Len(s) \in DOMAIN s
  BY <1>1, <1>3, <1>5 DEF Contiguous
<1>7. PICK e : e = SectionSpan(s)
  OBVIOUS
<1>8. e = Join(spans[1], spans[Len(spans)])
  BY <1>2, <1>5, <1>6, <1>7 DEF SectionSpan, Head, Last
<1>9. e \in Spans /\ e.from <= e.to /\ e.from = spans[1].from /\ e.to = spans[Len(spans)].to
  BY <1>3, <1>5, <1>8, EndsOf
<1>10. CASE Size(e) <= max
  <2>1. Tiling(<< e >>, e.from, e.to, max)
    BY <1>9, <1>10, SpanTile
  <2> QED
    BY <1>7, <1>9, <1>10, <2>1 DEF SplitSection
<1>11. CASE ~(Size(e) <= max)
  <2> DEFINE lists == [i \in DOMAIN s |-> SplitParagraph(s[i], max)]
  <2>1. ASSUME NEW i \in DOMAIN spans PROVE Tiling(lists[i], spans[i].from, spans[i].to, max)
    BY <1>1, <1>2, <1>5, ParagraphTiles
  <2>2. lists = [i \in DOMAIN spans |-> lists[i]]
    BY <1>5
  <2>3. SplitSection(s, max) = Joined(lists)
    BY <1>7, <1>11 DEF SplitSection
  <2> HIDE DEF lists
  <2>4. Tiling(Joined(lists), spans[1].from, spans[Len(spans)].to, max)
    BY <1>3, <1>5, <2>1, <2>2, JoinedTiles
  <2> QED
    BY <1>7, <1>9, <2>3, <2>4
<1> QED
  BY <1>10, <1>11

LEMMA ListOfSpans ==
  ASSUME NEW n \in Nat, NEW f, f = [i \in 1 .. n |-> f[i]], \A i \in 1 .. n : f[i] \in Spans
  PROVE  f \in Seq(Spans) /\ Len(f) = n /\ DOMAIN f = 1 .. n
OBVIOUS

\* The spans of the sections of a document.
LEMMA SectionSpans ==
  ASSUME NEW d, IsDocument(d),
         NEW spans, spans = [i \in DOMAIN d.sections |-> SectionSpan(d.sections[i])]
  PROVE  /\ spans \in Seq(Spans) /\ Contiguous(spans) /\ DOMAIN spans = DOMAIN d.sections
         /\ DocumentSpan(d) \in Spans /\ DocumentSpan(d).from <= DocumentSpan(d).to
         /\ DocumentSpan(d).from = spans[1].from /\ DocumentSpan(d).to = spans[Len(spans)].to
<1>1. PICK ss : ss = d.sections
  OBVIOUS
<1>2. ss \in Seq(Seq(Seq(Spans))) /\ \A i \in DOMAIN ss : IsSection(ss[i])
  BY <1>1 DEF IsDocument
<1>3. Contiguous(spans)
  BY DEF IsDocument
<1>4. \A i \in DOMAIN ss : spans[i] \in Spans
  <2>1. ASSUME NEW i \in DOMAIN ss PROVE SectionSpan(ss[i]) \in Spans
    BY <1>2, SectionTiles
  <2> QED
    BY <1>1, <2>1
<1>5. spans \in Seq(Spans) /\ Len(spans) = Len(ss) /\ DOMAIN spans = DOMAIN ss
  <2>1. Len(ss) \in Nat /\ DOMAIN ss = 1 .. Len(ss)
    BY <1>2
  <2>2. spans = [i \in 1 .. Len(ss) |-> spans[i]]
    BY <1>1, <2>1
  <2>3. \A i \in 1 .. Len(ss) : spans[i] \in Spans
    BY <1>4, <2>1
  <2>4. PICK n \in Nat : n = Len(ss)
    BY <2>1
  <2>5. spans \in Seq(Spans) /\ Len(spans) = n /\ DOMAIN spans = 1 .. n
    BY <2>2, <2>3, <2>4, ListOfSpans
  <2> QED
    BY <2>1, <2>4, <2>5
<1>6. Len(ss) \in Nat \ {0} /\ 1 \in DOMAIN ss /\ Len(ss) \in DOMAIN ss /\ ss # << >>
  BY <1>2, <1>3, <1>5 DEF Contiguous
<1>7. DocumentSpan(d) = Join(spans[1], spans[Len(spans)])
  BY <1>1, <1>5, <1>6 DEF DocumentSpan, Head, Last
<1> QED
  BY <1>1, <1>3, <1>5, <1>7, EndsOf

LEMMA SplitsTile ==
  ASSUME NEW d, IsDocument(d), NEW max \in Nat \ {0}
  PROVE  Tiling(SplitDocument(d, max), DocumentSpan(d).from, DocumentSpan(d).to, max)
<1>1. PICK spans : spans = [i \in DOMAIN d.sections |-> SectionSpan(d.sections[i])]
  OBVIOUS
<1>2. /\ spans \in Seq(Spans) /\ Contiguous(spans) /\ DOMAIN spans = DOMAIN d.sections
      /\ DocumentSpan(d) \in Spans /\ DocumentSpan(d).from <= DocumentSpan(d).to
      /\ DocumentSpan(d).from = spans[1].from /\ DocumentSpan(d).to = spans[Len(spans)].to
  BY <1>1, SectionSpans
<1>3. CASE Size(DocumentSpan(d)) \in 1 .. max
  <2>1. Size(DocumentSpan(d)) <= max
    BY <1>3
  <2>2. Tiling(<< DocumentSpan(d) >>, DocumentSpan(d).from, DocumentSpan(d).to, max)
    BY <1>2, <2>1, SpanTile
  <2> QED
    BY <1>3, <2>2 DEF SplitDocument
<1>4. CASE ~(Size(DocumentSpan(d)) \in 1 .. max)
  <2> DEFINE lists == [i \in DOMAIN d.sections |-> SplitSection(d.sections[i], max)]
  <2>1. ASSUME NEW i \in DOMAIN spans PROVE Tiling(lists[i], spans[i].from, spans[i].to, max)
    <3>1. IsSection(d.sections[i])
      BY <1>2 DEF IsDocument
    <3>2. Tiling(SplitSection(d.sections[i], max), SectionSpan(d.sections[i]).from,
                 SectionSpan(d.sections[i]).to, max)
      BY <3>1, SectionTiles
    <3> QED
      BY <1>1, <1>2, <3>2
  <2>2. lists = [i \in DOMAIN spans |-> lists[i]]
    BY <1>2
  <2>3. SplitDocument(d, max) = Joined(lists)
    BY <1>4 DEF SplitDocument
  <2> HIDE DEF lists
  <2>4. Tiling(Joined(lists), spans[1].from, spans[Len(spans)].to, max)
    BY <1>2, <2>1, <2>2, JoinedTiles
  <2> QED
    BY <1>2, <2>3, <2>4
<1> QED
  BY <1>3, <1>4

-----------------------------------------------------------------------------
(* Packing *)

LEMMA PackIsFold ==
  \A pieces, max : Pack(pieces, max) = Packs!Folded([max |-> max, groups |-> << >>], pieces).groups
BY DEF Pack, Packs!Folded, FoldLeft, Packs!FoldLeft, MapThenFoldSet, Packs!MapThenFoldSet,
       Max, Packs!Max

\* The next piece opens a group, or fits into the last one.
LEMMA GroupOpens ==
  ASSUME NEW g, NEW first, NEW mid \in Nat, NEW max, Tiling(g, first, mid, max),
         NEW p \in Pieces, p.from = mid + 1, p.from <= p.to, Size(p) <= max
  PROVE  Tiling(Append(g, p), first, p.to, max)
<1>1. Tiling(<< p >>, mid + 1, p.to, max)
  BY OneTile
<1>2. Tiling(g \o << p >>, first, p.to, max)
  BY <1>1, TilingsJoin
<1>3. g \o << p >> = Append(g, p)
  <2>1. g \in Seq(Pieces)
    BY DEF Tiling
  <2> QED
    BY <2>1, AppendProperties, ConcatProperties, SeqEqual
<1> QED
  BY <1>2, <1>3

LEMMA GroupGrows ==
  ASSUME NEW g, NEW first, NEW mid \in Nat, NEW max \in Nat, Tiling(g, first, mid, max),
         NEW p \in Pieces, p.from = mid + 1, p.from <= p.to, Size(Last(g)) + Size(p) <= max
  PROVE  Tiling(Append(Front(g), Join(Last(g), p)), first, p.to, max)
<1>1. g \in Seq(Pieces) /\ Len(g) \in Nat \ {0} /\ DOMAIN g = 1 .. Len(g)
  BY DEF Tiling
<1>2. PICK n \in Nat \ {0} : n = Len(g)
  BY <1>1
<1>3. n \in DOMAIN g /\ Last(g) = g[n] /\ g[n].from \in Nat /\ g[n].to = mid
      /\ g[n].from <= g[n].to
  BY <1>1, <1>2, PieceTypes DEF Last, Tiling
<1>4. p.from \in Nat /\ p.to \in Nat
  BY DEF Pieces, Spans, ChunkRecord
<1>5. PICK j : j = Join(Last(g), p)
  OBVIOUS
<1>6. j = [from |-> g[n].from, to |-> p.to]
  BY <1>3, <1>5 DEF Join, Span
<1>7. j \in Pieces /\ j.from = g[n].from /\ j.to = p.to
  BY <1>3, <1>4, <1>6 DEF Pieces, Spans
<1>8. j.from <= j.to /\ Size(j) <= max
  BY <1>3, <1>4, <1>7 DEF Size
<1>9. PICK front : front = Front(g)
  OBVIOUS
<1>10. front \in Seq(Pieces) /\ Len(front) = n - 1 /\ \A i \in 1 .. n - 1 : front[i] = g[i]
  BY <1>1, <1>2, <1>9 DEF Front
<1>11. PICK rs : rs = Append(front, j)
  OBVIOUS
<1>12. /\ rs \in Seq(Pieces) /\ Len(rs) = n /\ DOMAIN rs = 1 .. n /\ rs # << >> /\ rs[n] = j
       /\ \A i \in 1 .. n - 1 : rs[i] = g[i]
  BY <1>7, <1>10, <1>11
<1>13. rs[1].from = first
  <2>1. CASE n = 1
    BY <1>7, <1>12, <2>1 DEF Tiling
  <2>2. CASE n # 1
    BY <1>12, <2>2 DEF Tiling
  <2> QED
    BY <2>1, <2>2
<1>14. ASSUME NEW i \in 1 .. n PROVE rs[i].from <= rs[i].to /\ Size(rs[i]) <= max
  <2>1. CASE i = n
    BY <1>8, <1>12, <2>1
  <2>2. CASE i # n
    <3>1. i \in 1 .. n - 1
      BY <2>2
    <3>2. i \in DOMAIN g
      BY <1>1, <1>2
    <3> QED
      BY <1>12, <3>1, <3>2 DEF Tiling
  <2> QED
    BY <2>1, <2>2
<1>15. ASSUME NEW i \in 1 .. n - 1 PROVE rs[i + 1].from = rs[i].to + 1
  <2>1. i \in 1 .. Len(g) - 1 /\ rs[i] = g[i]
    BY <1>2, <1>12
  <2>2. g[i + 1].from = g[i].to + 1
    BY <2>1 DEF Tiling
  <2>3. rs[i + 1].from = g[i + 1].from
    <3>1. CASE i + 1 = n
      BY <1>7, <1>12, <3>1
    <3>2. CASE i + 1 # n
      <4>1. i + 1 \in 1 .. n - 1
        BY <3>2
      <4> QED
        BY <1>12, <4>1
    <3> QED
      BY <3>1, <3>2
  <2> QED
    BY <2>1, <2>2, <2>3
<1>16. Tiling(rs, first, p.to, max)
  BY <1>7, <1>12, <1>13, <1>14, <1>15 DEF Tiling
<1> QED
  BY <1>5, <1>9, <1>11, <1>16

LEMMA PackTiles ==
  ASSUME NEW ps, NEW first, NEW last, NEW max \in Nat \ {0}, Tiling(ps, first, last, max)
  PROVE  Tiling(Pack(ps, max), first, last, max)
<1> DEFINE n == Len(ps)
           base == [max |-> max, groups |-> << >>]
           R == {q \in Nat \X [max : {max}, groups : Seq(Pieces)] :
                   \/ q[1] = 0 /\ q[2].groups = << >>
                   \/ q[1] \in 1 .. n /\ Tiling(q[2].groups, first, ps[q[1]].to, max)}
<1>1. ps \in Seq(Pieces) /\ n \in Nat \ {0} /\ DOMAIN ps = 1 .. n
  BY DEF Tiling
<1>2. <<0, base>> \in R
  <2>1. << >> \in Seq(Pieces)
    OBVIOUS
  <2> QED
    BY <2>1
<1>3. ASSUME NEW k \in 1 .. Len(ps), NEW a, <<k - 1, a>> \in R
      PROVE  <<k, AddPiece(a, ps[k])>> \in R
  <2>1. PICK g \in Seq(Pieces) : a = [max |-> max, groups |-> g]
    BY <1>3
  <2>2. PICK p \in Pieces : p = ps[k]
    BY <1>1
  <2>3. p.from <= p.to /\ Size(p) <= max /\ k \in 1 .. n /\ k \in Nat
    BY <1>1, <2>2 DEF Tiling
  <2>4. ASSUME NEW h \in Seq(Pieces), Tiling(h, first, p.to, max),
               AddPiece(a, p) = [max |-> max, groups |-> h]
        PROVE  <<k, AddPiece(a, ps[k])>> \in R
    BY <2>2, <2>3, <2>4
  <2>5. CASE k - 1 = 0
    <3>1. k = 1 /\ g = << >>
      BY <1>3, <2>1, <2>3, <2>5
    <3>2. AddPiece(a, p) = [max |-> max, groups |-> Append(g, p)]
      BY <2>1, <3>1 DEF AddPiece
    <3>3. Append(g, p) = << p >> /\ first = p.from
      BY <2>2, <3>1 DEF Tiling
    <3>4. Tiling(<< p >>, first, p.to, max) /\ << p >> \in Seq(Pieces)
      BY <2>3, <3>3, OneTile
    <3> HIDE DEF R
    <3> QED
      BY <2>4, <3>2, <3>3, <3>4
  <2>6. CASE k - 1 # 0
    <3>1. k - 1 \in 1 .. n /\ Tiling(g, first, ps[k - 1].to, max)
      BY <1>3, <2>1, <2>6
    <3>2. k - 1 \in 1 .. Len(ps) - 1 /\ (k - 1) + 1 = k
      BY <2>3, <3>1
    <3>3. p.from = ps[k - 1].to + 1
      BY <2>2, <3>2 DEF Tiling
    <3>4. PICK mid \in Nat : mid = ps[k - 1].to
      BY <1>1, <3>1, PieceTypes
    <3>5. Tiling(g, first, mid, max) /\ p.from = mid + 1 /\ g # << >>
      BY <3>1, <3>3, <3>4 DEF Tiling
    <3>6. CASE Size(Last(g)) + Size(p) <= max
      <4>1. PICK h : h = Append(Front(g), Join(Last(g), p))
        OBVIOUS
      <4>4. max \in Nat
        OBVIOUS
      <4>5. Tiling(h, first, p.to, max)
        BY <2>3, <3>5, <3>6, <4>1, <4>4, GroupGrows
      <4>2. Tiling(h, first, p.to, max) /\ h \in Seq(Pieces)
        BY <4>5 DEF Tiling
      <4>3. AddPiece(a, p) = [max |-> max, groups |-> h]
        BY <2>1, <3>5, <3>6, <4>1 DEF AddPiece
      <4> HIDE DEF R
      <4> QED
        BY <2>4, <4>2, <4>3
    <3>7. CASE ~(Size(Last(g)) + Size(p) <= max)
      <4>1. PICK h : h = Append(g, p)
        OBVIOUS
      <4>4. max \in Nat
        OBVIOUS
      <4>5. Tiling(h, first, p.to, max)
        BY <2>3, <3>5, <4>1, <4>4, GroupOpens
      <4>2. Tiling(h, first, p.to, max) /\ h \in Seq(Pieces)
        BY <4>5 DEF Tiling
      <4>3. AddPiece(a, p) = [max |-> max, groups |-> h]
        BY <2>1, <3>5, <3>7, <4>1 DEF AddPiece
      <4> HIDE DEF R
      <4> QED
        BY <2>4, <4>2, <4>3
    <3> HIDE DEF R
    <3> QED
      BY <3>6, <3>7
  <2> HIDE DEF R
  <2> QED
    BY <2>5, <2>6
<1>4. <<Len(ps), Packs!Folded(base, ps)>> \in R
  <2> HIDE DEF R, base
  <2> QED
    BY <1>1, <1>2, <1>3, Packs!FoldPassesOn
<1>5. Tiling(Packs!Folded(base, ps).groups, first, ps[n].to, max)
  BY <1>1, <1>4
<1> QED
  BY <1>5, PackIsFold DEF Tiling

-----------------------------------------------------------------------------
(* The three chunkers *)

\* A path added to each piece changes no span.
LEMMA PathsKeepSpans ==
  ASSUME NEW ps \in Seq(Pieces), NEW path \in Nat, NEW cs, cs = WithPath(ps, path)
  PROVE  /\ cs \in Seq(ChunkRecord) /\ Len(cs) = Len(ps) /\ DOMAIN cs = DOMAIN ps
         /\ \A i \in DOMAIN ps : cs[i].from = ps[i].from /\ cs[i].to = ps[i].to
<1>1. Len(ps) \in Nat /\ DOMAIN ps = 1 .. Len(ps)
  OBVIOUS
<1>2. cs = [i \in DOMAIN ps |-> [path |-> path, from |-> ps[i].from, to |-> ps[i].to]]
  BY DEF WithPath
<1>3. ASSUME NEW i \in DOMAIN ps
      PROVE  cs[i] \in ChunkRecord /\ cs[i].from = ps[i].from /\ cs[i].to = ps[i].to
  <2>1. ps[i].from \in Nat /\ ps[i].to \in Nat
    BY PieceTypes
  <2> QED
    BY <1>2, <2>1 DEF ChunkRecord
<1>4. PICK n \in Nat : n = Len(ps)
  BY <1>1
<1>5. PICK f : f = cs
  OBVIOUS
<1>6. f = [i \in 1 .. n |-> f[i]] /\ \A i \in 1 .. n : f[i] \in ChunkRecord
  BY <1>1, <1>2, <1>3, <1>4, <1>5
<1>7. f \in Seq(ChunkRecord) /\ Len(f) = n /\ DOMAIN f = 1 .. n
  BY <1>6
<1> QED
  BY <1>1, <1>3, <1>4, <1>5, <1>7

LEMMA PathsKeepTilings ==
  ASSUME NEW ps, NEW first, NEW last, NEW max, Tiling(ps, first, last, max),
         NEW path \in Nat, NEW cs, cs = WithPath(ps, path)
  PROVE  cs \in Seq(ChunkRecord) /\ Tiling(cs, first, last, max)
<1>1. ps \in Seq(Pieces) /\ Len(ps) \in Nat \ {0} /\ DOMAIN ps = 1 .. Len(ps)
  BY DEF Tiling
<1>2. /\ cs \in Seq(ChunkRecord) /\ Len(cs) = Len(ps) /\ DOMAIN cs = DOMAIN ps
      /\ \A i \in DOMAIN ps : cs[i].from = ps[i].from /\ cs[i].to = ps[i].to
  BY <1>1, PathsKeepSpans
<1>3. cs \in Seq(Pieces) /\ cs # << >>
  <2>1. ChunkRecord \subseteq Pieces
    BY DEF Pieces
  <2>2. \A i \in 1 .. Len(cs) : cs[i] \in Pieces
    BY <1>2, <2>1
  <2> QED
    BY <1>1, <1>2, <2>2
<1>4. cs[1].from = first /\ cs[Len(cs)].to = last
  BY <1>1, <1>2 DEF Tiling
<1>5. \A i \in DOMAIN cs : cs[i].from <= cs[i].to /\ Size(cs[i]) <= max
  BY <1>2 DEF Tiling, Size
<1>6. ASSUME NEW i \in 1 .. Len(cs) - 1 PROVE cs[i + 1].from = cs[i].to + 1
  <2>1. i \in DOMAIN ps /\ i + 1 \in DOMAIN ps /\ i \in 1 .. Len(ps) - 1
    BY <1>1, <1>2
  <2>2. ps[i + 1].from = ps[i].to + 1
    BY <2>1 DEF Tiling
  <2> QED
    BY <1>2, <2>1, <2>2
<1> QED
  BY <1>2, <1>3, <1>4, <1>5, <1>6 DEF Tiling

\* Joining lists of chunks gives a list of chunks.
LEMMA JoinedChunks ==
  ASSUME NEW lists \in Seq(Seq(ChunkRecord))
  PROVE  Joined(lists) \in Seq(ChunkRecord)
<1>1. << >> \in Seq(ChunkRecord)
  OBVIOUS
<1>2. \A a \in Seq(ChunkRecord), x \in Seq(ChunkRecord) : Extend(a, x) \in Seq(ChunkRecord)
  BY DEF Extend
<1>3. Joins!Folded(<< >>, lists) \in Seq(ChunkRecord)
  BY <1>1, <1>2, Joins!FoldStaysIn
<1> QED
  BY <1>3, JoinedIsFold

LEMMA StructuralTiles ==
  ASSUME NEW d, IsDocument(d), NEW max \in Nat \ {0}
  PROVE  /\ StructuralChunks(d, max) \in Seq(ChunkRecord)
         /\ Tiling(StructuralChunks(d, max), DocumentSpan(d).from, DocumentSpan(d).to, max)
<1>1. PICK spans : spans = [i \in DOMAIN d.sections |-> SectionSpan(d.sections[i])]
  OBVIOUS
<1>2. /\ spans \in Seq(Spans) /\ Contiguous(spans) /\ DOMAIN spans = DOMAIN d.sections
      /\ DocumentSpan(d) \in Spans /\ DocumentSpan(d).from <= DocumentSpan(d).to
      /\ DocumentSpan(d).from = spans[1].from /\ DocumentSpan(d).to = spans[Len(spans)].to
  BY <1>1, SectionSpans
<1>3. CASE IsShortRatePage(d, max)
  <2>1. Size(DocumentSpan(d)) <= max
    BY <1>3 DEF IsShortRatePage
  <2>2. Tiling(<< DocumentSpan(d) >>, DocumentSpan(d).from, DocumentSpan(d).to, max)
    BY <1>2, <2>1, SpanTile
  <2>3. Root \in Nat
    BY DEF Root
  <2> QED
    BY <1>3, <2>2, <2>3, PathsKeepTilings DEF StructuralChunks
<1>4. CASE ~IsShortRatePage(d, max)
  <2> DEFINE lists == [i \in DOMAIN d.sections |-> WithPath(SectionPieces(d.sections[i], max), i)]
  <2>1. ASSUME NEW i \in DOMAIN spans
        PROVE  lists[i] \in Seq(ChunkRecord) /\ Tiling(lists[i], spans[i].from, spans[i].to, max)
    <3>1. i \in Nat /\ spans[i] \in Spans /\ spans[i].from <= spans[i].to
      BY <1>2 DEF Contiguous
    <3>2. Tiling(SectionPieces(d.sections[i], max), spans[i].from, spans[i].to, max)
      BY <1>1, <1>2, <3>1, WindowsTile DEF SectionPieces
    <3> QED
      BY <1>2, <3>1, <3>2, PathsKeepTilings
  <2>2. lists = [i \in DOMAIN spans |-> lists[i]]
    BY <1>2
  <2>3. StructuralChunks(d, max) = Joined(lists)
    BY <1>4 DEF StructuralChunks
  <2> HIDE DEF lists
  <2>4. Tiling(Joined(lists), spans[1].from, spans[Len(spans)].to, max)
    BY <1>2, <2>1, <2>2, JoinedTiles
  <2>5. lists \in Seq(Seq(ChunkRecord))
    <3>1. Len(spans) \in Nat /\ DOMAIN spans = 1 .. Len(spans)
      BY <1>2
    <3> QED
      BY <2>1, <2>2, <3>1
  <2>6. Joined(lists) \in Seq(ChunkRecord)
    BY <2>5, JoinedChunks
  <2> QED
    BY <1>2, <2>3, <2>4, <2>6
<1> QED
  BY <1>3, <1>4

\* Settings a chunker accepts: a limit, and an overlap below it.
IsChunker(s) ==
  /\ s.strategy \in {"fixed", "recursive", "structural"}
  /\ s.max \in Nat \ {0} /\ s.overlap \in Nat /\ s.overlap < s.max

\* Structural and recursive chunks are the text of the document cut into
\* pieces: none overlaps the next, none is empty or longer than the limit,
\* and no token between them is lost.
THEOREM ChunksTileTheText ==
  ASSUME NEW d, IsDocument(d), NEW s, IsChunker(s), s.strategy # "fixed"
  PROVE  /\ Chunks(d, s) \in Seq(ChunkRecord)
         /\ Tiling(Chunks(d, s), DocumentSpan(d).from, DocumentSpan(d).to, s.max)
<1>1. s.max \in Nat \ {0}
  BY DEF IsChunker
<1>2. CASE s.strategy = "recursive"
  <2>1. Tiling(RecursivePieces(d, s.max), DocumentSpan(d).from, DocumentSpan(d).to, s.max)
    BY <1>1, SplitsTile, PackTiles DEF RecursivePieces
  <2>2. Chunks(d, s) = WithPath(RecursivePieces(d, s.max), Root) /\ Root \in Nat
    BY <1>2 DEF Chunks, Root
  <2> QED
    BY <2>1, <2>2, PathsKeepTilings
<1>3. CASE s.strategy = "structural"
  <2>1. Chunks(d, s) = StructuralChunks(d, s.max)
    BY <1>3 DEF Chunks
  <2> QED
    BY <1>1, <2>1, StructuralTiles
<1> QED
  BY <1>2, <1>3 DEF IsChunker

\* Whatever the chunker, every token of the text is in a chunk, a document has
\* a chunk, and no chunk is empty or longer than the limit.
THEOREM ChunksCoverTheText ==
  ASSUME NEW d, IsDocument(d), NEW s, IsChunker(s)
  PROVE  /\ Chunks(d, s) \in Seq(ChunkRecord) /\ Chunks(d, s) # << >>
         /\ Covered(Chunks(d, s)) = TokensOf(DocumentSpan(d))
         /\ \A i \in DOMAIN Chunks(d, s) : Size(Chunks(d, s)[i]) \in 1 .. s.max
<1>1. PICK c : c = Chunks(d, s)
  OBVIOUS
<1>2. PICK e \in Spans : e = DocumentSpan(d) /\ e.from <= e.to
  BY SectionSpans
<1>3. e.from \in Nat /\ e.to \in Nat
  BY <1>2 DEF Spans
<1>4. CASE s.strategy # "fixed"
  <2>1. c \in Seq(ChunkRecord) /\ Tiling(c, e.from, e.to, s.max)
    BY <1>1, <1>2, <1>4, ChunksTileTheText
  <2>2. Covered(c) = TokensOf(e)
    BY <1>3, <2>1, TilingCovers DEF TokensOf
  <2>3. ASSUME NEW i \in DOMAIN c PROVE Size(c[i]) \in 1 .. s.max
    <3>1. c[i].from <= c[i].to /\ Size(c[i]) <= s.max
      BY <2>1 DEF Tiling
    <3>2. c[i].from \in Nat /\ c[i].to \in Nat
      <4>1. c \in Seq(Pieces)
        BY <2>1 DEF Tiling
      <4> QED
        BY <4>1, PieceTypes
    <3> QED
      BY <3>1, <3>2 DEF Size, IsChunker
  <2> QED
    BY <1>1, <1>2, <2>1, <2>2, <2>3 DEF Tiling
<1>5. CASE s.strategy = "fixed"
  <2>1. PICK ps : ps = FixedPieces(d, s.max, s.overlap)
    OBVIOUS
  <2>2. /\ ps \in Seq(Spans) /\ Covered(ps) = TokensOf(e)
        /\ \A i \in DOMAIN ps : Size(ps[i]) \in 1 .. s.max
    BY <1>2, <2>1, FixedPiecesCover DEF IsChunker
  <2>3. c = WithPath(ps, Root) /\ Root \in Nat /\ ps \in Seq(Pieces)
    BY <1>1, <1>5, <2>1, <2>2 DEF Chunks, Root, Pieces
  <2>4. /\ c \in Seq(ChunkRecord) /\ Len(c) = Len(ps) /\ DOMAIN c = DOMAIN ps
        /\ \A i \in DOMAIN ps : c[i].from = ps[i].from /\ c[i].to = ps[i].to
    BY <2>3, PathsKeepSpans
  <2>5. \A i \in DOMAIN c : TokensOf(c[i]) = TokensOf(ps[i]) /\ Size(c[i]) = Size(ps[i])
    BY <2>4 DEF TokensOf, Size
  <2>6. Covered(c) = TokensOf(e)
    BY <2>2, <2>4, <2>5 DEF Covered
  <2>7. c # << >>
    <3>1. e.from \in Covered(c)
      BY <1>2, <1>3, <2>6 DEF TokensOf
    <3>2. PICK i \in DOMAIN c : e.from \in TokensOf(c[i])
      BY <3>1 DEF Covered
    <3> QED
      BY <2>4, <3>2
  <2> QED
    BY <1>1, <1>2, <2>2, <2>4, <2>5, <2>6, <2>7
<1> QED
  BY <1>4, <1>5

=============================================================================
