------------------------------ MODULE IndexProofs ------------------------------
(* What is proved of IndexLifecycle.  The aliases: from AliasInv, that names   *)
(* never vanish and that undisturbed commands do what they announce.  The     *)
(* collection: from BuildInv, PointsInv and ReaderInv, that a snapshot is     *)
(* exact; from WriteInv, for one builder at a time, that reports are true and *)
(* that a document keeps a complete version.                                  *)
EXTENDS IndexLifecycle, ChunkingProofs, FiniteSetTheorems

Batches == INSTANCE FoldLemmas WITH Op <- Alias!Perform

-----------------------------------------------------------------------------
(* The aliases *)

\* Batches of requests, and the aliases they are applied to.
Aliases == [current : Physical \cup {None}, previous : Physical \cup {None}]
Request == [op : {"delete", "create", "rename"}, name : {"current", "previous"},
            to : Physical \cup {None, "current", "previous"}]

\* A server has applied no, one, two or three requests of a batch in turn.
LEMMA PrefixIsFold ==
  \A batch, i : Alias!Prefix(batch, i) = Batches!Folded(aliases, SubSeq(batch, 1, i))
BY DEF Alias!Prefix, Batches!Folded, FoldLeft, Alias!FoldLeft, Batches!FoldLeft, MapThenFoldSet,
       Alias!MapThenFoldSet, Batches!MapThenFoldSet, Max, Alias!Max, Batches!Max

LEMMA PrefixSteps ==
  ASSUME NEW batch \in Seq(Request)
  PROVE  /\ Alias!Prefix(batch, 0) = aliases
         /\ \A i \in 1 .. Len(batch) :
              Alias!Prefix(batch, i) = Alias!Perform(Alias!Prefix(batch, i - 1), batch[i])
<1>1. SubSeq(batch, 1, 0) = << >>
  OBVIOUS
<1>2. Alias!Prefix(batch, 0) = aliases
  BY <1>1, PrefixIsFold, Batches!FoldOfFew
<1>3. ASSUME NEW i \in 1 .. Len(batch)
      PROVE  Alias!Prefix(batch, i) = Alias!Perform(Alias!Prefix(batch, i - 1), batch[i])
  <2>1. /\ SubSeq(batch, 1, i - 1) \in Seq(Request)
        /\ SubSeq(batch, 1, i) = Append(SubSeq(batch, 1, i - 1), batch[i])
        /\ batch[i] \in Request
    OBVIOUS
  <2>2. PICK before \in Seq(Request) : before = SubSeq(batch, 1, i - 1)
    BY <2>1
  <2>3. Batches!Folded(aliases, Append(before, batch[i]))
          = Alias!Perform(Batches!Folded(aliases, before), batch[i])
    <3>1. PICK last \in Request : last = batch[i]
      BY <2>1
    <3>2. Batches!Folded(aliases, Append(before, last))
            = Alias!Perform(Batches!Folded(aliases, before), last)
      BY Batches!FoldTakesLast, Zenon
    <3> QED
      BY <3>1, <3>2
  <2> QED
    BY <2>1, <2>2, <2>3, PrefixIsFold
<1> QED
  BY <1>2, <1>3

LEMMA BatchOfOne ==
  ASSUME NEW x \in Request
  PROVE  /\ Alias!Prefix(<< x >>, Len(<< x >>)) = Alias!Perform(aliases, x)
         /\ \A strict : Alias!Refused(<< x >>, strict) <=> Alias!Refuses(aliases, x, strict)
<1> DEFINE b == << x >>
<1>1. b \in Seq(Request) /\ Len(b) = 1 /\ b[1] = x /\ DOMAIN b = 1 .. 1
  OBVIOUS
<1> HIDE DEF b
<1>2. 1 - 1 = 0 /\ 1 \in 1 .. 1 /\ \A i \in 1 .. 1 : i = 1
  OBVIOUS
<1>3. Alias!Prefix(b, 0) = aliases
  BY <1>1, PrefixSteps
<1>4. Alias!Prefix(b, 1) = Alias!Perform(Alias!Prefix(b, 0), x)
  BY <1>1, <1>2, PrefixSteps
<1>5. \A strict : Alias!Refused(b, strict) <=> Alias!Refuses(aliases, x, strict)
  BY <1>1, <1>2, <1>3, Zenon DEF Alias!Refused
<1> QED
  BY <1>1, <1>3, <1>4, <1>5 DEF b

LEMMA BatchOfTwo ==
  ASSUME NEW x \in Request, NEW y \in Request
  PROVE  LET b == << x, y >>
             p == Alias!Perform(aliases, x)
         IN  /\ Alias!Prefix(b, Len(b)) = Alias!Perform(p, y)
             /\ \A strict : Alias!Refused(b, strict)
                  <=> Alias!Refuses(aliases, x, strict) \/ Alias!Refuses(p, y, strict)
<1> DEFINE b == << x, y >>
           p == Alias!Perform(aliases, x)
<1>1. b \in Seq(Request) /\ Len(b) = 2 /\ b[1] = x /\ b[2] = y /\ DOMAIN b = 1 .. 2
  OBVIOUS
<1> HIDE DEF b
<1>2. /\ 1 - 1 = 0 /\ 2 - 1 = 1 /\ 1 \in 1 .. 2 /\ 2 \in 1 .. 2
      /\ \A i \in 1 .. 2 : i = 1 \/ i = 2
  OBVIOUS
<1>3. Alias!Prefix(b, 0) = aliases
  BY <1>1, PrefixSteps
<1>4. Alias!Prefix(b, 1) = p
  BY <1>1, <1>2, <1>3, PrefixSteps
<1>5. Alias!Prefix(b, 2) = Alias!Perform(p, y)
  BY <1>1, <1>2, <1>4, PrefixSteps
<1> HIDE DEF p
<1>6. \A strict : Alias!Refused(b, strict)
        <=> Alias!Refuses(aliases, x, strict) \/ Alias!Refuses(p, y, strict)
  BY <1>1, <1>2, <1>3, <1>4, Zenon DEF Alias!Refused
<1> QED
  BY <1>1, <1>5, <1>6 DEF b, p

LEMMA BatchOfThree ==
  ASSUME NEW x \in Request, NEW y \in Request, NEW z \in Request
  PROVE  LET b == << x, y, z >>
             p == Alias!Perform(aliases, x)
             q == Alias!Perform(p, y)
         IN  /\ Alias!Prefix(b, Len(b)) = Alias!Perform(q, z)
             /\ \A strict : Alias!Refused(b, strict)
                  <=> \/ Alias!Refuses(aliases, x, strict)
                      \/ Alias!Refuses(p, y, strict)
                      \/ Alias!Refuses(q, z, strict)
<1> DEFINE b == << x, y, z >>
           p == Alias!Perform(aliases, x)
           q == Alias!Perform(p, y)
<1>1. /\ b \in Seq(Request) /\ Len(b) = 3 /\ DOMAIN b = 1 .. 3
      /\ b[1] = x /\ b[2] = y /\ b[3] = z
  OBVIOUS
<1> HIDE DEF b
<1>2. /\ 1 - 1 = 0 /\ 2 - 1 = 1 /\ 3 - 1 = 2
      /\ 1 \in 1 .. 3 /\ 2 \in 1 .. 3 /\ 3 \in 1 .. 3
      /\ \A i \in 1 .. 3 : i = 1 \/ i = 2 \/ i = 3
  OBVIOUS
<1>3. Alias!Prefix(b, 0) = aliases
  BY <1>1, PrefixSteps
<1>4. Alias!Prefix(b, 1) = p
  BY <1>1, <1>2, <1>3, PrefixSteps
<1>5. Alias!Prefix(b, 2) = q
  BY <1>1, <1>2, <1>4, PrefixSteps
<1>6. Alias!Prefix(b, 3) = Alias!Perform(q, z)
  BY <1>1, <1>2, <1>5, PrefixSteps
<1> HIDE DEF p, q
<1>7. \A strict : Alias!Refused(b, strict)
        <=> \/ Alias!Refuses(aliases, x, strict)
            \/ Alias!Refuses(p, y, strict)
            \/ Alias!Refuses(q, z, strict)
  BY <1>1, <1>2, <1>3, <1>4, <1>5, Zenon DEF Alias!Refused
<1> QED
  BY <1>1, <1>6, <1>7 DEF b, p, q

\* One request on known aliases.
LEMMA Performed ==
  ASSUME NEW a \in Aliases, NEW c \in Physical
  PROVE  /\ Alias!Perform(a, Alias!Delete("current"))
               = [current |-> None, previous |-> a.previous]
         /\ Alias!Perform(a, Alias!Delete("previous"))
               = [current |-> a.current, previous |-> None]
         /\ Alias!Perform(a, Alias!Create("current", c))
               = [current |-> c, previous |-> a.previous]
         /\ Alias!Perform(a, Alias!Create("previous", c))
               = [current |-> a.current, previous |-> c]
         /\ Alias!Perform(a, Alias!Rename("current", "previous"))
               = [current |-> None, previous |-> a.current]
         /\ Alias!Perform(a, Alias!Rename("previous", "current"))
               = [current |-> a.previous, previous |-> None]
BY DEF Alias!Perform, Alias!Delete, Alias!Create, Alias!Rename, Aliases

LEMMA Refusals ==
  ASSUME NEW a \in Aliases, NEW c \in Physical, NEW strict
  PROVE  /\ \A name : ~Alias!Refuses(a, Alias!Delete(name), strict)
         /\ Alias!Refuses(a, Alias!Create("current", c), strict)
              <=> strict /\ a.current # None
         /\ Alias!Refuses(a, Alias!Create("previous", c), strict)
              <=> strict /\ a.previous # None
         /\ Alias!Refuses(a, Alias!Rename("current", "previous"), strict)
              <=> \/ a.current = None
                  \/ strict /\ a.previous # None
         /\ Alias!Refuses(a, Alias!Rename("previous", "current"), strict)
              <=> \/ a.previous = None
                  \/ strict /\ a.current # None
BY DEF Alias!Refuses, Alias!Delete, Alias!Create, Alias!Rename, Aliases

LEMMA RequestTypes ==
  ASSUME NEW c \in Physical
  PROVE  /\ Alias!Delete("current") \in Request
         /\ Alias!Delete("previous") \in Request
         /\ Alias!Create("current", c) \in Request
         /\ Alias!Create("previous", c) \in Request
         /\ Alias!Rename("current", "previous") \in Request
         /\ Alias!Rename("previous", "current") \in Request
BY DEF Alias!Delete, Alias!Create, Alias!Rename, Request

\* What the batches of promote and rollback do to any aliases, and when they
\* are refused.
LEMMA FirstPromotion ==
  ASSUME aliases \in Aliases, NEW c \in Physical,
         NEW b, b = << Alias!Create("current", c) >>
  PROVE  /\ Alias!Prefix(b, Len(b)) = [current |-> c, previous |-> aliases.previous]
         /\ \A strict : Alias!Refused(b, strict) <=> strict /\ aliases.current # None
BY BatchOfOne, RequestTypes, Performed, Refusals

LEMMA RetainingPromotion ==
  ASSUME aliases \in Aliases, NEW c \in Physical, NEW f \in Physical,
         NEW b, b = << Alias!Create("previous", f), Alias!Create("current", c) >>
  PROVE  /\ Alias!Prefix(b, Len(b)) = [current |-> c, previous |-> f]
         /\ \A strict : Alias!Refused(b, strict)
              <=> strict /\ (aliases.previous # None \/ aliases.current # None)
<1> DEFINE p == [current |-> aliases.current, previous |-> f]
<1>1. p \in Aliases /\ Alias!Perform(aliases, Alias!Create("previous", f)) = p
  BY Performed DEF Aliases
<1>2. p.current = aliases.current /\ p.previous = f
  OBVIOUS
<1> HIDE DEF p
<1> QED
  BY <1>1, <1>2, BatchOfTwo, RequestTypes, Performed, Refusals

LEMMA LaterPromotion ==
  ASSUME aliases \in Aliases, NEW c \in Physical,
         NEW b, b = << Alias!Rename("current", "previous"), Alias!Create("current", c) >>
  PROVE  /\ Alias!Prefix(b, Len(b)) = [current |-> c, previous |-> aliases.current]
         /\ \A strict : Alias!Refused(b, strict)
              <=> aliases.current = None \/ (strict /\ aliases.previous # None)
<1> DEFINE p == [current |-> None, previous |-> aliases.current]
<1>1. p \in Aliases /\ Alias!Perform(aliases, Alias!Rename("current", "previous")) = p
  BY Performed DEF Aliases
<1>2. p.current = None /\ p.previous = aliases.current
  OBVIOUS
<1> HIDE DEF p
<1> QED
  BY <1>1, <1>2, BatchOfTwo, RequestTypes, Performed, Refusals

LEMMA RotatingPromotion ==
  ASSUME aliases \in Aliases, NEW c \in Physical,
         NEW b, b = << Alias!Delete("previous"), Alias!Rename("current", "previous"),
             Alias!Create("current", c) >>
  PROVE  /\ Alias!Prefix(b, Len(b)) = [current |-> c, previous |-> aliases.current]
         /\ \A strict : Alias!Refused(b, strict) <=> aliases.current = None
<1> DEFINE p == [current |-> aliases.current, previous |-> None]
           q == [current |-> None, previous |-> aliases.current]
<1>1. p \in Aliases /\ Alias!Perform(aliases, Alias!Delete("previous")) = p
  BY Performed DEF Aliases
<1>2. p.current = aliases.current /\ p.previous = None
  OBVIOUS
<1>3. q \in Aliases /\ Alias!Perform(p, Alias!Rename("current", "previous")) = q
  BY <1>1, Performed DEF Aliases
<1>4. q.current = None /\ q.previous = aliases.current
  OBVIOUS
<1> HIDE DEF p, q
<1> QED
  BY <1>1, <1>2, <1>3, <1>4, BatchOfThree, RequestTypes, Performed, Refusals

LEMMA RollingBack ==
  ASSUME aliases \in Aliases, NEW a \in Aliases, a.current \in Physical,
         NEW b, b = Alias!RollbackBatch(a)
  PROVE  /\ Alias!Prefix(b, Len(b)) = [current |-> aliases.previous, previous |-> a.current]
         /\ \A strict : Alias!Refused(b, strict) <=> aliases.previous = None
<1> DEFINE p == [current |-> None, previous |-> aliases.previous]
           q == [current |-> aliases.previous, previous |-> None]
<1>1. p \in Aliases /\ Alias!Perform(aliases, Alias!Delete("current")) = p
  BY Performed DEF Aliases
<1>2. p.current = None /\ p.previous = aliases.previous
  OBVIOUS
<1>3. q \in Aliases /\ Alias!Perform(p, Alias!Rename("previous", "current")) = q
  BY <1>1, Performed DEF Aliases
<1>4. q.current = aliases.previous /\ q.previous = None
  OBVIOUS
<1>5. PICK c \in Physical :
        /\ c = a.current
        /\ b = << Alias!Delete("current"), Alias!Rename("previous", "current"),
                  Alias!Create("previous", c) >>
  BY Zenon DEF Alias!RollbackBatch
<1> HIDE DEF p, q
<1>6. Alias!Prefix(b, Len(b)) = Alias!Perform(q, Alias!Create("previous", c))
  BY <1>1, <1>3, <1>5, BatchOfThree, RequestTypes
<1>7. ASSUME NEW strict PROVE Alias!Refused(b, strict) <=> aliases.previous = None
  <2>1. Alias!Refused(b, strict)
          <=> \/ Alias!Refuses(aliases, Alias!Delete("current"), strict)
              \/ Alias!Refuses(p, Alias!Rename("previous", "current"), strict)
              \/ Alias!Refuses(q, Alias!Create("previous", c), strict)
    BY <1>1, <1>3, <1>5, BatchOfThree, RequestTypes
  <2> QED
    BY <1>1, <1>2, <1>3, <1>4, <2>1, Refusals
<1> QED
  BY <1>3, <1>4, <1>5, <1>6, <1>7, Performed

LEMMA ConcatIsAppend ==
  ASSUME NEW T, NEW s \in Seq(T), NEW e \in T
  PROVE  s \o << e >> = Append(s, e)
<1>1. /\ << e >> \in Seq(T) /\ Len(<< e >>) = 1 /\ << e >>[1] = e
      /\ Append(s, e) \in Seq(T) /\ Len(Append(s, e)) = Len(s) + 1
      /\ \A i \in 1 .. Len(s) + 1 : Append(s, e)[i] = IF i <= Len(s) THEN s[i] ELSE e
  OBVIOUS
<1>2. /\ s \o << e >> \in Seq(T) /\ Len(s \o << e >>) = Len(s) + 1
      /\ \A i \in 1 .. Len(s) + 1 :
           (s \o << e >>)[i] = IF i <= Len(s) THEN s[i] ELSE << e >>[i - Len(s)]
  BY <1>1, ConcatProperties
<1>3. ASSUME NEW i \in 1 .. Len(s) + 1 PROVE (s \o << e >>)[i] = Append(s, e)[i]
  <2>1. CASE i <= Len(s)
    BY <1>1, <1>2, <2>1
  <2>2. CASE i = Len(s) + 1
    <3>1. i - Len(s) = 1 /\ ~(i <= Len(s))
      BY <2>2
    <3> QED
      BY <1>1, <1>2, <3>1, Zenon
  <2> QED
    BY <2>1, <2>2
<1> QED
  BY <1>1, <1>2, <1>3, SeqEqual

LEMMA Joining ==
  ASSUME NEW x, NEW y, NEW z
  PROVE  /\ << >> \o << x >> = << x >>
         /\ << x >> \o << y >> = << x, y >>
         /\ (<< x >> \o << y >>) \o << z >> = << x, y, z >>
         /\ (<< >> \o << x >>) \o << y >> = << x, y >>
<1> DEFINE T == {x, y, z}
<1>1. /\ << >> \in Seq(T) /\ << x >> \in Seq(T) /\ << y >> \in Seq(T) /\ << z >> \in Seq(T)
      /\ << x, y >> \in Seq(T) /\ << x, y, z >> \in Seq(T)
  OBVIOUS
<1>2. << >> \o << x >> = << x >>
  BY <1>1
<1>3. << x >> \o << y >> = << x, y >>
  <2>1. << x >> \o << y >> = Append(<< x >>, y)
    <3>1. << x >> \in Seq(T) /\ y \in T
      BY <1>1
    <3> QED
      BY <3>1, ConcatIsAppend, Zenon
  <2>2. Append(<< x >>, y) = << x, y >>
    <3> DEFINE s == Append(<< x >>, y)
               t == << x, y >>
    <3>1. s \in Seq(T) /\ Len(s) = 2 /\ s[1] = x /\ s[2] = y
      BY <1>1
    <3>2. t \in Seq(T) /\ Len(t) = 2 /\ t[1] = x /\ t[2] = y
      BY <1>1
    <3> HIDE DEF s, t
    <3>3. s = t
      <4>1. \A i \in 1 .. 2 : i = 1 \/ i = 2
        OBVIOUS
      <4>2. \A i \in 1 .. Len(s) : s[i] = t[i]
        BY <3>1, <3>2, <4>1, Zenon
      <4> QED
        BY <3>1, <3>2, <4>2, SeqEqual
    <3> QED
      BY <3>3 DEF s, t
  <2> QED
    BY <2>1, <2>2, Zenon
<1>4. << x, y >> \o << z >> = << x, y, z >>
  <2>1. << x, y >> \o << z >> = Append(<< x, y >>, z)
    <3>1. << x, y >> \in Seq(T) /\ z \in T
      BY <1>1
    <3> QED
      BY <3>1, ConcatIsAppend, Zenon
  <2>2. Append(<< x, y >>, z) = << x, y, z >>
    <3> DEFINE s == Append(<< x, y >>, z)
               t == << x, y, z >>
    <3>1. s \in Seq(T) /\ Len(s) = 3 /\ s[1] = x /\ s[2] = y /\ s[3] = z
      BY <1>1
    <3>2. t \in Seq(T) /\ Len(t) = 3 /\ t[1] = x /\ t[2] = y /\ t[3] = z
      BY <1>1
    <3> HIDE DEF s, t
    <3>3. s = t
      <4>1. \A i \in 1 .. 3 : i = 1 \/ i = 2 \/ i = 3
        OBVIOUS
      <4>2. \A i \in 1 .. Len(s) : s[i] = t[i]
        BY <3>1, <3>2, <4>1, Zenon
      <4> QED
        BY <3>1, <3>2, <4>2, SeqEqual
    <3> QED
      BY <3>3 DEF s, t
  <2> QED
    BY <2>1, <2>2, Zenon
<1> QED
  BY <1>2, <1>3, <1>4, Zenon

\* The four batches promote may send.
LEMMA PromotionShapes ==
  ASSUME NEW a \in Aliases, NEW c \in Physical, NEW exists \in SUBSET Physical
  PROVE  LET b == Alias!PromoteBatch(a, c, exists)
         IN  \/ /\ a.current # None /\ a.previous # None
                /\ b = << Alias!Delete("previous"), Alias!Rename("current", "previous"),
                          Alias!Create("current", c) >>
             \/ /\ a.current # None /\ a.previous = None
                /\ b = << Alias!Rename("current", "previous"), Alias!Create("current", c) >>
             \/ /\ a.current = None
                /\ Initial \in exists \ {c}
                /\ b = << Alias!Create("previous", Initial), Alias!Create("current", c) >>
             \/ /\ a.current = None /\ Initial \notin exists \ {c}
                /\ b = << Alias!Create("current", c) >>
<1>1. CASE a.current # None /\ a.previous # None
  BY <1>1, Joining, Zenon DEF Alias!PromoteBatch
<1>2. CASE a.current # None /\ a.previous = None
  BY <1>2, Joining, Zenon DEF Alias!PromoteBatch
<1>3. CASE a.current = None /\ Initial \in exists \ {c}
  <2>1. Alias!Former(a, c, exists) = Initial /\ Initial # None
    BY <1>3, CollectionAssumption DEF Alias!Former
  <2>2. Alias!PromoteBatch(a, c, exists)
          = << Alias!Create("previous", Initial), Alias!Create("current", c) >>
    BY <1>3, <2>1, Joining, Zenon DEF Alias!PromoteBatch
  <2> QED
    BY <1>3, <2>2
<1>4. CASE a.current = None /\ Initial \notin exists \ {c}
  <2>1. Alias!Former(a, c, exists) = None
    BY <1>4 DEF Alias!Former
  <2> QED
    BY <1>4, <2>1, Joining, Zenon DEF Alias!PromoteBatch
<1> QED
  BY <1>1, <1>2, <1>3, <1>4

-----------------------------------------------------------------------------
(* What an operator's command is when it was decided on: a batch of one of the *)
(* two kinds for the aliases seen then.                                        *)
Promoting(c) ==
  /\ c.kind = "promote" /\ c.seen \in Aliases
  /\ c.candidate \in Physical \ {c.seen.current, c.seen.previous}
  /\ c.seen.current = None => c.seen.previous = None
  /\ c.exists \in SUBSET Physical
  /\ c.batch = Alias!PromoteBatch(c.seen, c.candidate, c.exists)
RollingBackTo(c) ==
  /\ c.kind = "rollback" /\ c.seen \in Aliases
  /\ None \notin {c.seen.current, c.seen.previous} /\ c.seen.current # c.seen.previous
  /\ c.batch = Alias!RollbackBatch(c.seen)

AliasInv ==
  /\ aliases \in Aliases
  /\ command = [o \in Operators |-> command[o]]
  /\ \A o \in Operators :
       command[o] = Alias!NoCommand \/ Promoting(command[o]) \/ RollingBackTo(command[o])

\* A batch that is not refused leaves both names as full as it found them.
LEMMA BatchesFill ==
  ASSUME aliases \in Aliases, NEW c, Promoting(c) \/ RollingBackTo(c),
         NEW strict, ~Alias!Refused(c.batch, strict)
  PROVE  LET after == Alias!Prefix(c.batch, Len(c.batch))
         IN  /\ after \in Aliases
             /\ aliases.current # None => after.current # None
             /\ aliases.previous # None => after.previous # None
<1> USE CollectionAssumption
<1>1. CASE Promoting(c)
  <2>1. c.candidate \in Physical /\ c.seen \in Aliases
    BY <1>1 DEF Promoting
  <2>2. /\ c.exists \in SUBSET Physical
        /\ c.batch = Alias!PromoteBatch(c.seen, c.candidate, c.exists)
    BY <1>1 DEF Promoting
  <2>3. CASE c.batch = << Alias!Delete("previous"), Alias!Rename("current", "previous"),
                          Alias!Create("current", c.candidate) >>
    <3>1. /\ Alias!Prefix(c.batch, Len(c.batch)) =
              [current |-> c.candidate, previous |-> aliases.current]
          /\ \A any : Alias!Refused(c.batch, any) <=> aliases.current = None
      BY <2>1, <2>3, RotatingPromotion
    <3> QED
      BY <2>1, <2>3, <3>1 DEF Aliases
  <2>4. CASE c.batch = << Alias!Rename("current", "previous"),
                          Alias!Create("current", c.candidate) >>
    <3>1. /\ Alias!Prefix(c.batch, Len(c.batch)) =
              [current |-> c.candidate, previous |-> aliases.current]
          /\ \A any : Alias!Refused(c.batch, any) <=>
                aliases.current = None \/ (any /\ aliases.previous # None)
      BY <2>1, <2>4, LaterPromotion
    <3> QED
      BY <2>1, <2>4, <3>1 DEF Aliases
  <2>5. CASE /\ Initial \in c.exists
             /\ c.batch = << Alias!Create("previous", Initial),
                             Alias!Create("current", c.candidate) >>
    <3>1. /\ Alias!Prefix(c.batch, Len(c.batch)) =
              [current |-> c.candidate, previous |-> Initial]
          /\ \A any : Alias!Refused(c.batch, any) <=>
                any /\ (aliases.previous # None \/ aliases.current # None)
      BY <2>1, <2>2, <2>5, RetainingPromotion
    <3> QED
      BY <2>1, <2>2, <2>5, <3>1 DEF Aliases
  <2>6. CASE c.batch = << Alias!Create("current", c.candidate) >>
    <3>1. /\ Alias!Prefix(c.batch, Len(c.batch)) =
              [current |-> c.candidate, previous |-> aliases.previous]
          /\ \A any : Alias!Refused(c.batch, any) <=> any /\ aliases.current # None
      BY <2>1, <2>6, FirstPromotion
    <3> QED
      BY <2>1, <2>6, <3>1 DEF Aliases
  <2> QED
    BY <2>1, <2>2, <2>3, <2>4, <2>5, <2>6, PromotionShapes
<1>2. CASE RollingBackTo(c)
  <2>1. c.seen \in Aliases /\ c.seen.current \in Physical
        /\ c.batch = Alias!RollbackBatch(c.seen)
    BY <1>2 DEF RollingBackTo, Aliases
  <2> QED
    <3>1. /\ Alias!Prefix(c.batch, Len(c.batch)) =
              [current |-> aliases.previous, previous |-> c.seen.current]
          /\ \A any : Alias!Refused(c.batch, any) <=> aliases.previous = None
      BY <2>1, RollingBack
    <3> QED
      BY <2>1, <3>1 DEF Aliases
<1> QED
  BY <1>1, <1>2

\* A batch that meets the aliases it was made for is never refused and does
\* what its command promises.
LEMMA BatchesAreExact ==
  ASSUME aliases \in Aliases, NEW c, c.seen = aliases, Promoting(c) \/ RollingBackTo(c)
  PROVE  LET after == Alias!Prefix(c.batch, Len(c.batch))
         IN  /\ \A strict : ~Alias!Refused(c.batch, strict)
             /\ after.current = IF c.kind = "promote" THEN c.candidate ELSE aliases.previous
             /\ after.previous # after.current
             /\ aliases.current # None => after.previous = aliases.current
             /\ aliases.current = None =>
                  after.previous = IF Initial \in c.exists \ {c.candidate}
                                   THEN Initial ELSE None
<1> USE CollectionAssumption
<1>1. CASE Promoting(c)
  <2>1. /\ c.candidate \in Physical /\ c.kind = "promote"
        /\ c.candidate # aliases.current /\ c.candidate # aliases.previous
        /\ aliases.current = None => aliases.previous = None
    BY <1>1 DEF Promoting
  <2>2. /\ c.exists \in SUBSET Physical
        /\ c.batch = Alias!PromoteBatch(aliases, c.candidate, c.exists)
    BY <1>1 DEF Promoting
  <2>3. CASE /\ aliases.current # None
             /\ c.batch = << Alias!Delete("previous"), Alias!Rename("current", "previous"),
                             Alias!Create("current", c.candidate) >>
    <3>1. /\ Alias!Prefix(c.batch, Len(c.batch)) =
              [current |-> c.candidate, previous |-> aliases.current]
          /\ \A strict : Alias!Refused(c.batch, strict) <=> aliases.current = None
      BY <2>1, <2>3, RotatingPromotion
    <3> QED
      BY <2>1, <2>3, <3>1
  <2>4. CASE /\ aliases.current # None /\ aliases.previous = None
             /\ c.batch = << Alias!Rename("current", "previous"),
                             Alias!Create("current", c.candidate) >>
    <3>1. /\ Alias!Prefix(c.batch, Len(c.batch)) =
              [current |-> c.candidate, previous |-> aliases.current]
          /\ \A strict : Alias!Refused(c.batch, strict) <=>
                aliases.current = None \/ (strict /\ aliases.previous # None)
      BY <2>1, <2>4, LaterPromotion
    <3> QED
      BY <2>1, <2>4, <3>1
  <2>5. CASE /\ aliases.current = None /\ Initial \in c.exists \ {c.candidate}
             /\ c.batch = << Alias!Create("previous", Initial),
                             Alias!Create("current", c.candidate) >>
    <3>1. /\ Alias!Prefix(c.batch, Len(c.batch)) =
              [current |-> c.candidate, previous |-> Initial]
          /\ \A strict : Alias!Refused(c.batch, strict) <=>
                strict /\ (aliases.previous # None \/ aliases.current # None)
      BY <2>1, <2>2, <2>5, RetainingPromotion
    <3> QED
      BY <2>1, <2>5, <3>1
  <2>6. CASE /\ aliases.current = None /\ Initial \notin c.exists \ {c.candidate}
             /\ c.batch = << Alias!Create("current", c.candidate) >>
    <3>1. /\ Alias!Prefix(c.batch, Len(c.batch)) =
              [current |-> c.candidate, previous |-> aliases.previous]
          /\ \A strict : Alias!Refused(c.batch, strict) <=> strict /\ aliases.current # None
      BY <2>1, <2>6, FirstPromotion
    <3> QED
      BY <2>1, <2>6, <3>1
  <2> QED
    BY <2>1, <2>2, <2>3, <2>4, <2>5, <2>6, PromotionShapes
<1>2. CASE RollingBackTo(c)
  <2>1. /\ aliases.current \in Physical /\ aliases.previous # None
        /\ aliases.current # aliases.previous
        /\ c.kind = "rollback" /\ c.batch = Alias!RollbackBatch(aliases)
    BY <1>2 DEF RollingBackTo, Aliases
  <2> QED
    <3>1. /\ Alias!Prefix(c.batch, Len(c.batch)) =
              [current |-> aliases.previous, previous |-> aliases.current]
          /\ \A strict : Alias!Refused(c.batch, strict) <=> aliases.previous = None
      BY <2>1, RollingBack
    <3> QED
      BY <2>1, <3>1
<1> QED
  BY <1>1, <1>2

\* The first process finds aliases that earlier cycles left, and no commands.
LEMMA AliasInvInit == LifecycleInit => AliasInv
<1> SUFFICES ASSUME LifecycleInit PROVE AliasInv
  OBVIOUS
<1>1. aliases \in Aliases
  BY DEF LifecycleInit, Alias!AliasInit, Alias!NoAlias, Aliases
<1>2. command = [o \in Operators |-> Alias!NoCommand]
  BY DEF LifecycleInit, Alias!AliasInit
<1> QED
  BY <1>1, <1>2 DEF AliasInv

\* What one operator's decision adds to the commands.
LEMMA DecisionStep ==
  ASSUME AliasInv, NEW o \in Operators, NEW c, Promoting(c) \/ RollingBackTo(c),
         command' = [command EXCEPT ![o] = c], UNCHANGED aliases
  PROVE  AliasInv'
<1>1. command' = [p \in Operators |-> IF p = o THEN c ELSE command[p]]
  BY DEF AliasInv
<1>2. aliases' \in Aliases
  BY DEF AliasInv
<1>3. ASSUME NEW p \in Operators
      PROVE  \/ command'[p] = Alias!NoCommand \/ Promoting(command'[p])
             \/ RollingBackTo(command'[p])
  <2>1. CASE p = o
    BY <1>1, <2>1
  <2>2. CASE p # o
    BY <1>1, <2>2 DEF AliasInv
  <2> QED
    BY <2>1, <2>2
<1> QED
  BY <1>1, <1>2, <1>3 DEF AliasInv

\* What is left when one operator's command is over.
LEMMA EndStep ==
  ASSUME AliasInv, NEW o \in Operators,
         command' = [command EXCEPT ![o] = Alias!NoCommand], aliases' \in Aliases
  PROVE  AliasInv'
<1>1. command' = [p \in Operators |-> IF p = o THEN Alias!NoCommand ELSE command[p]]
  BY DEF AliasInv
<1>2. ASSUME NEW p \in Operators
      PROVE  \/ command'[p] = Alias!NoCommand \/ Promoting(command'[p])
             \/ RollingBackTo(command'[p])
  BY <1>1 DEF AliasInv
<1> QED
  BY <1>1, <1>2 DEF AliasInv

\* Whether the server applies a batch or refuses it, the aliases are aliases.
LEMMA AppliedBatch ==
  ASSUME AliasInv, NEW o \in Operators, Alias!Apply(o)
  PROVE  /\ aliases' \in Aliases
         /\ aliases.current # None => aliases'.current # None
         /\ aliases.previous # None => aliases'.previous # None
<1>1. Promoting(command[o]) \/ RollingBackTo(command[o])
  BY DEF AliasInv, Alias!Apply
<1>2. PICK strict \in BOOLEAN :
        aliases' = IF Alias!Refused(command[o].batch, strict) THEN aliases
                   ELSE Alias!Prefix(command[o].batch, Len(command[o].batch))
  BY DEF Alias!Apply
<1>3. aliases \in Aliases
  BY DEF AliasInv
<1>4. CASE Alias!Refused(command[o].batch, strict)
  BY <1>2, <1>3, <1>4
<1>5. CASE ~Alias!Refused(command[o].batch, strict)
  BY <1>1, <1>2, <1>3, <1>5, BatchesFill
<1> QED
  BY <1>4, <1>5

LEMMA AliasInvStep == AliasInv /\ [LifecycleNext]_lifecycleVars => AliasInv'
<1> SUFFICES ASSUME AliasInv, [LifecycleNext]_lifecycleVars PROVE AliasInv'
  OBVIOUS
<1>1. ASSUME UNCHANGED << aliases, command >> PROVE AliasInv'
  BY <1>1 DEF AliasInv
<1>2. ASSUME NEW o \in Operators, NEW c \in Physical, Alias!Promote(o, c, Exists)
      PROVE  AliasInv'
  <2> DEFINE d == [kind |-> "promote", candidate |-> c, seen |-> aliases,
                   exists |-> Exists, batch |-> Alias!PromoteBatch(aliases, c, Exists)]
  <2>1. command' = [command EXCEPT ![o] = d] /\ UNCHANGED aliases
    BY <1>2 DEF Alias!Promote, Alias!Decide
  <2>2. Exists \in SUBSET Physical
    BY DEF Exists
  <2>3. aliases \in Aliases
    BY DEF AliasInv
  <2>4. Promoting(d)
    BY <1>2, <2>2, <2>3 DEF Promoting, Alias!Promote
  <2> HIDE DEF d
  <2> QED
    BY <2>1, <2>4, DecisionStep
<1>3. ASSUME NEW o \in Operators, Alias!Rollback(o)
      PROVE  AliasInv'
  <2> DEFINE d == [kind |-> "rollback", candidate |-> None, seen |-> aliases,
                   exists |-> {}, batch |-> Alias!RollbackBatch(aliases)]
  <2>1. command' = [command EXCEPT ![o] = d] /\ UNCHANGED aliases
    BY <1>3 DEF Alias!Rollback, Alias!Decide
  <2>2. aliases \in Aliases
    BY DEF AliasInv
  <2>3. RollingBackTo(d)
    BY <1>3, <2>2 DEF RollingBackTo, Alias!Rollback
  <2> HIDE DEF d
  <2> QED
    BY <2>1, <2>3, DecisionStep
<1>4. ASSUME NEW o \in Operators, Alias!Apply(o)
      PROVE  AliasInv'
  <2>1. command' = [command EXCEPT ![o] = Alias!NoCommand]
    BY <1>4 DEF Alias!Apply
  <2> QED
    BY <1>4, <2>1, AppliedBatch, EndStep
<1>5. ASSUME NEW o \in Operators, Alias!Abandon(o)
      PROVE  AliasInv'
  <2>1. command' = [command EXCEPT ![o] = Alias!NoCommand] /\ aliases' \in Aliases
    BY <1>5 DEF Alias!Abandon, AliasInv
  <2> QED
    BY <2>1, EndStep
<1> QED
  BY <1>1, <1>2, <1>3, <1>4, <1>5
  DEF LifecycleNext, lifecycleVars, Begin, End

LEMMA AliasInvAlways == LifecycleSpec => []AliasInv
BY AliasInvInit, AliasInvStep, PTL DEF LifecycleSpec

-----------------------------------------------------------------------------

\* However commands of several operators interleave, and whatever a server
\* refuses or a shell abandons: a name that readers or a rollback rely on
\* never ceases to name a collection.
THEOREM NamesNeverVanish == LifecycleSpec => AliasesNeverVanish
<1> DEFINE Kept ==
      \A name \in {"current", "previous"} : aliases[name] # None => aliases'[name] # None
<1>1. AliasInv /\ [LifecycleNext]_lifecycleVars => Kept
  <2> SUFFICES ASSUME AliasInv, [LifecycleNext]_lifecycleVars PROVE Kept
    OBVIOUS
  <2>1. CASE UNCHANGED aliases
    BY <2>1
  <2>2. ASSUME NEW o \in Operators, Alias!Apply(o) PROVE Kept
    BY <2>2, AppliedBatch
  <2> QED
    BY <2>1, <2>2
    DEF LifecycleNext, lifecycleVars, Begin, End, Alias!Promote, Alias!Rollback,
        Alias!Decide, Alias!Abandon
<1>2. Kept => [Kept]_aliases
  OBVIOUS
<1> QED
  BY <1>1, <1>2, AliasInvAlways, PTL
  DEF LifecycleSpec, AliasesNeverVanish, Alias!AliasesNeverVanish

\* A command that meets the aliases it was decided on is never refused, and
\* leaves both names exactly as promote and rollback announce.
THEOREM UndisturbedCommandsAreExact == LifecycleSpec => CommandsAreExact
<1> DEFINE Exact ==
      \A o \in Operators : Alias!Undisturbed(o) =>
        /\ \A strict \in BOOLEAN : ~Alias!Refused(command[o].batch, strict)
        /\ (command'[o] = Alias!NoCommand /\ aliases' # aliases) =>
             /\ aliases'.current =
                  IF command[o].kind = "promote" THEN command[o].candidate
                  ELSE aliases.previous
             /\ aliases'.previous # aliases'.current
             /\ aliases.current # None => aliases'.previous = aliases.current
             /\ aliases.current = None =>
                  aliases'.previous = IF Initial \in command[o].exists \ {command[o].candidate}
                                      THEN Initial ELSE None
<1>1. AliasInv /\ [LifecycleNext]_lifecycleVars => Exact
  <2> SUFFICES ASSUME AliasInv, [LifecycleNext]_lifecycleVars,
                      NEW o \in Operators, Alias!Undisturbed(o)
               PROVE  Exact!(o)!2
    OBVIOUS
  <2>1. /\ Promoting(command[o]) \/ RollingBackTo(command[o])
        /\ command[o].seen = aliases /\ aliases \in Aliases
        /\ command[o] # Alias!NoCommand
    BY DEF AliasInv, Alias!Undisturbed
  <2>2. \A strict : ~Alias!Refused(command[o].batch, strict)
    BY <2>1, BatchesAreExact
  <2>3. ASSUME command'[o] = Alias!NoCommand, aliases' # aliases
        PROVE  aliases' = Alias!Prefix(command[o].batch, Len(command[o].batch))
    <3>1. PICK p \in Operators : Alias!Apply(p)
      BY <2>3
      DEF LifecycleNext, lifecycleVars, Begin, End, Alias!Promote, Alias!Rollback,
          Alias!Decide, Alias!Abandon
    <3>2. p = o
      BY <2>1, <2>3, <3>1 DEF Alias!Apply, AliasInv
    <3> QED
      BY <2>2, <3>1, <3>2 DEF Alias!Apply
  <2> QED
    BY <2>1, <2>2, <2>3, BatchesAreExact
<1>2. Exact => [Exact]_(Alias!aliasVars)
  OBVIOUS
<1> QED
  BY <1>1, <1>2, AliasInvAlways, PTL
  DEF LifecycleSpec, CommandsAreExact, Alias!CommandsAreExact

-----------------------------------------------------------------------------
(* The builds, and the lexical snapshot *)

\* A set of numbers that is not empty has a least one.
LEMMA LeastNumber ==
  ASSUME NEW S \in SUBSET Nat, S # {}
  PROVE  Min(S) \in S /\ \A y \in S : Min(S) <= y
BY Batches!LeastExists DEF Min

Busy == {"lookup", "upsert", "prune"}
ChunkLists == {<< >>} \cup {ChunksOf[v][s] : v \in Versions, s \in Settings}
BuildRecord ==
  [pc : {"idle", "next"} \cup Busy, settings : Settings \cup {None},
   todo : SUBSET DOMAIN Manifests, doc : Docs \cup {None}, ver : Versions \cup {None},
   chunks : ChunkLists, offset : Nat]

\* A running build has settings; while it indexes a document it holds the
\* chunks that its settings make of the version it read.
Indexing(r) ==
  /\ r.doc \in Docs /\ r.ver \in Versions /\ r.settings \in Settings
  /\ r.chunks = ChunksOf[r.ver][r.settings]
BuildInv ==
  /\ settings \in Settings
  /\ build \in [Builders -> BuildRecord]
  /\ \A b \in Builders :
       /\ build[b].pc # "idle" => build[b].settings \in Settings
       /\ build[b].pc \in Busy => Indexing(build[b])

LEMMA CutsAreLists ==
  ASSUME NEW v \in Versions, NEW s \in Settings
  PROVE  ChunksOf[v][s] \in ChunkLists
BY DEF ChunkLists

LEMMA FirstManifest ==
  ASSUME NEW S \in SUBSET DOMAIN Manifests, S # {}
  PROVE  Manifests[Min(S)] \in Docs
<1>1. Manifests \in Seq(Docs)
  BY ManifestAssumption
<1>2. S \in SUBSET Nat
  BY <1>1
<1>3. Min(S) \in S
  BY <1>2, LeastNumber
<1> QED
  BY <1>1, <1>3

LEMMA BuildInvInit == Init => BuildInv
<1> SUFFICES ASSUME Init PROVE BuildInv
  OBVIOUS
<1>1. NoBuild \in BuildRecord
  BY DEF NoBuild, BuildRecord, ChunkLists
<1>2. NoBuild.pc = "idle"
  BY DEF NoBuild
<1> QED
  BY <1>1, <1>2 DEF Init, BuildInv, Busy

\* One build goes on; the others and the saved settings stay.
LEMMA BuildGoesOn ==
  ASSUME BuildInv, NEW b \in Builders, NEW r \in BuildRecord,
         r.pc # "idle" => r.settings \in Settings, r.pc \in Busy => Indexing(r),
         build' = [build EXCEPT ![b] = r], UNCHANGED settings
  PROVE  BuildInv'
<1>1. build' = [c \in Builders |-> IF c = b THEN r ELSE build[c]]
  BY DEF BuildInv
<1>2. settings' \in Settings
  BY DEF BuildInv
<1>3. build' \in [Builders -> BuildRecord]
  BY <1>1 DEF BuildInv
<1>4. ASSUME NEW c \in Builders
      PROVE  /\ build'[c].pc # "idle" => build'[c].settings \in Settings
             /\ build'[c].pc \in Busy => Indexing(build'[c])
  BY <1>1 DEF BuildInv
<1> QED
  BY <1>2, <1>3, <1>4 DEF BuildInv, Indexing

\* What the loop goes back to after a document.
LEMMA NextManifestIsFine ==
  ASSUME BuildInv, NEW b \in Builders, build[b].pc # "idle"
  PROVE  /\ NextManifest(b) \in BuildRecord /\ NextManifest(b).pc = "next"
         /\ NextManifest(b).settings \in Settings
<1>1. build[b] \in BuildRecord /\ build[b].settings \in Settings
  BY DEF BuildInv
<1>2. PICK r \in BuildRecord : r = build[b]
  BY <1>1
<1>3. << >> \in ChunkLists
  BY DEF ChunkLists
<1>5. NextManifest(b) = [r EXCEPT !.pc = "next", !.todo = r.todo \ {First(b)}, !.doc = None,
                                  !.ver = None, !.chunks = << >>, !.offset = 0]
  BY <1>2, Zenon DEF NextManifest
<1>4. NextManifest(b) = [pc |-> "next", settings |-> r.settings, todo |-> r.todo \ {First(b)},
                         doc |-> None, ver |-> None, chunks |-> << >>, offset |-> 0]
  BY <1>5 DEF BuildRecord
<1> HIDE DEF NextManifest
<1> QED
  BY <1>1, <1>2, <1>3, <1>4 DEF BuildRecord

LEMMA BuildInvStep == BuildInv /\ [IndexNext]_vars => BuildInv'
<1> SUFFICES ASSUME BuildInv, [IndexNext]_vars PROVE BuildInv'
  OBVIOUS
<1>0. NoBuild \in BuildRecord /\ NoBuild.pc = "idle"
  BY DEF NoBuild, BuildRecord, ChunkLists
<1>1. CASE UNCHANGED << settings, build >>
  BY <1>1 DEF BuildInv, Indexing
<1>2. ASSUME NEW s \in Settings, SaveSettings(s) PROVE BuildInv'
  BY <1>2 DEF BuildInv, Indexing, SaveSettings
<1>3. ASSUME NEW b \in Builders, Start(b) PROVE BuildInv'
  <2>1. CASE UNCHANGED build
    BY <1>3, <2>1, <1>1 DEF Start
  <2>2. CASE build' # build
    <3> DEFINE S == {i \in DOMAIN Manifests : Selected(capture[Manifests[i]])}
               r == [pc |-> "next", settings |-> settings, todo |-> S, doc |-> None,
                     ver |-> None, chunks |-> << >>, offset |-> 0]
    <3>1. build' = [build EXCEPT ![b] = r] /\ UNCHANGED settings
      BY <1>3, <2>2 DEF Start, NoBuild
    <3>2. settings \in Settings /\ S \in SUBSET DOMAIN Manifests
      BY DEF BuildInv
    <3> HIDE DEF S
    <3>3. r \in BuildRecord
      BY <3>2 DEF BuildRecord, ChunkLists
    <3>4. r.pc = "next" /\ r.settings \in Settings
      BY <3>2
    <3> HIDE DEF r
    <3> QED
      BY <3>1, <3>3, <3>4, BuildGoesOn DEF Busy
  <2> QED
    BY <2>1, <2>2
<1>4. ASSUME NEW b \in Builders, Ingest(b) PROVE BuildInv'
  <2>1. PICK r \in BuildRecord : r = build[b]
    BY DEF BuildInv
  <2>2. PICK d : d = Manifests[First(b)]
    OBVIOUS
  <2>3. PICK v : v = capture[d].file
    OBVIOUS
  <2>4. r.settings \in Settings /\ r.pc = "next" /\ r.todo # {} /\ d \in Docs
    BY <1>4, <2>1, <2>2, FirstManifest DEF BuildInv, Ingest, First, BuildRecord
  <2>5. CASE v \notin Versions
    <3>1. build' = [build EXCEPT ![b] = NextManifest(b)] /\ UNCHANGED settings
      BY <1>4, <2>2, <2>3, <2>5 DEF Ingest
    <3> QED
      BY <2>1, <2>4, <3>1, NextManifestIsFine, BuildGoesOn DEF Busy
  <2>6. CASE v \in Versions
    <3> DEFINE q == [r EXCEPT !.pc = "lookup", !.doc = d, !.ver = v,
                              !.chunks = ChunksOf[v][r.settings]]
    <3>1. build' = [build EXCEPT ![b] = q] /\ UNCHANGED settings
      BY <1>4, <2>1, <2>2, <2>3, <2>6 DEF Ingest
    <3>2. ChunksOf[v][r.settings] \in ChunkLists
      BY <2>4, <2>6, CutsAreLists
    <3>3. q \in BuildRecord
      BY <2>4, <2>6, <3>2 DEF BuildRecord, Busy
    <3>4. q.pc = "lookup" /\ q.settings \in Settings /\ Indexing(q)
      BY <2>4, <2>6 DEF BuildRecord, Indexing
    <3> HIDE DEF q
    <3> QED
      BY <3>1, <3>3, <3>4, BuildGoesOn
  <2> QED
    BY <2>5, <2>6
<1>5. ASSUME NEW b \in Builders, Lookup(b) PROVE BuildInv'
  <2>1. PICK r \in BuildRecord : r = build[b]
    BY DEF BuildInv
  <2>2. PICK pc \in {"prune", "upsert"} : build' = [build EXCEPT ![b].pc = pc]
    BY <1>5 DEF Lookup
  <2> DEFINE q == [r EXCEPT !.pc = pc]
  <2>3. build' = [build EXCEPT ![b] = q] /\ UNCHANGED settings
    BY <1>5, <2>1, <2>2 DEF Lookup
  <2>4. Indexing(r)
    BY <1>5, <2>1 DEF BuildInv, Busy, Lookup
  <2>5. q \in BuildRecord /\ q.pc = pc /\ q.settings \in Settings /\ Indexing(q)
    BY <2>4 DEF BuildRecord, Busy, Indexing
  <2> HIDE DEF q
  <2> QED
    BY <2>3, <2>5, BuildGoesOn
<1>6. ASSUME NEW b \in Builders, UpsertBatch(b) PROVE BuildInv'
  <2>1. PICK r \in BuildRecord : r = build[b]
    BY DEF BuildInv
  <2>2. PICK pc \in {"prune", "upsert"} :
          build' = [build EXCEPT ![b].offset = @ + BatchSize, ![b].pc = pc]
    BY <1>6 DEF UpsertBatch
  <2> DEFINE q == [pc |-> pc, settings |-> r.settings, todo |-> r.todo, doc |-> r.doc,
                   ver |-> r.ver, chunks |-> r.chunks, offset |-> r.offset + BatchSize]
  <2>3. build' = [build EXCEPT ![b] = q] /\ UNCHANGED settings
    <3> DEFINE w == [build EXCEPT ![b].offset = @ + BatchSize]
               u == [r EXCEPT !.offset = @ + BatchSize]
    <3>4. w[b] = u /\ build' = [w EXCEPT ![b].pc = pc]
      BY <2>1, <2>2 DEF BuildInv
    <3>5. u = [pc |-> r.pc, settings |-> r.settings, todo |-> r.todo, doc |-> r.doc,
               ver |-> r.ver, chunks |-> r.chunks, offset |-> r.offset + BatchSize]
      BY DEF BuildRecord
    <3>1. [u EXCEPT !.pc = pc] = q
      <4> HIDE DEF u
      <4> QED
        BY <3>5
    <3>2. build' = [build EXCEPT ![b] = [u EXCEPT !.pc = pc]]
      <4> HIDE DEF u
      <4> QED
        BY <2>1, <3>4 DEF BuildInv
    <3> HIDE DEF q
    <3> QED
      BY <1>6, <3>1, <3>2 DEF UpsertBatch
  <2>4. Indexing(r)
    BY <1>6, <2>1 DEF BuildInv, Busy, UpsertBatch
  <2>5. q \in BuildRecord
    BY BatchAssumption DEF BuildRecord, Busy
  <2>6. q.pc = pc /\ q.settings \in Settings /\ Indexing(q)
    BY <2>4 DEF BuildRecord, Indexing
  <2> HIDE DEF q
  <2> QED
    BY <2>3, <2>5, <2>6, BuildGoesOn
<1>7. ASSUME NEW b \in Builders, Prune(b) \/ IndexFails(b) PROVE BuildInv'
  <2>1. build' = [build EXCEPT ![b] = NextManifest(b)] /\ UNCHANGED settings
        /\ build[b].pc # "idle"
    BY <1>7 DEF Prune, IndexFails
  <2> QED
    BY <2>1, NextManifestIsFine, BuildGoesOn DEF Busy
<1>8. ASSUME NEW b \in Builders, Finish(b) \/ Crash(b) PROVE BuildInv'
  <2>1. build' = [build EXCEPT ![b] = NoBuild] /\ UNCHANGED settings
    BY <1>8 DEF Finish, Crash
  <2> QED
    BY <1>0, <2>1, BuildGoesOn DEF Busy
<1> QED
  BY <1>1, <1>2, <1>3, <1>4, <1>5, <1>6, <1>7, <1>8
  DEF IndexNext, BuildStep, Recapture, StartLoad, LoadPage, vars

-----------------------------------------------------------------------------

\* The points a batch writes, and those a document loses when it is pruned.
NewIds(r) == {ChunkId(r.doc, r.ver, r.chunks, i) : i \in Batch(r)}

\* Only documents that are captured have points, and those of the chunks that
\* some settings make of some version; there are finitely many.
PointsInv == IsFiniteSet(DOMAIN points) /\ DOMAIN points \subseteq PointIds

\* A write to one document leaves the points of the others alone.
OnlyOf(doc) ==
  \A d \in Docs : d # doc =>
    /\ {id \in DOMAIN points' : id.doc = d} = Stored(d)
    /\ \A id \in Stored(d) : points'[id] = points[id]

LEMMA IdsOfChunks ==
  ASSUME NEW d \in Docs, NEW v \in Versions, NEW s \in Settings
  PROVE  /\ DOMAIN Expected[d][v][s]
              = {ChunkId(d, v, ChunksOf[v][s], i) : i \in DOMAIN ChunksOf[v][s]}
         /\ DOMAIN Expected[d][v][s] \subseteq PointIds
<1>1. DOMAIN Expected[d][v][s]
        = {ChunkId(d, v, ChunksOf[v][s], i) : i \in DOMAIN ChunksOf[v][s]}
  BY DEF Expected
<1>2. ASSUME NEW id \in DOMAIN Expected[d][v][s] PROVE id \in PointIds
  BY DEF PointIds
<1> QED
  BY <1>1, <1>2

LEMMA NewPoints ==
  ASSUME NEW r \in BuildRecord, Indexing(r)
  PROVE  /\ DOMAIN Upserted(r) = DOMAIN points \cup NewIds(r)
         /\ IsFiniteSet(NewIds(r)) /\ NewIds(r) \subseteq PointIds
         /\ \A id \in NewIds(r) : id.doc = r.doc /\ id.ver = r.ver
         /\ \A id \in DOMAIN points : id \notin NewIds(r) => Upserted(r)[id] = points[id]
<1> DEFINE f == [i \in Batch(r) |-> ChunkId(r.doc, r.ver, r.chunks, i)]
<1>1. IsFiniteSet(Batch(r))
  <2>1. r.offset + 1 \in Int /\ r.offset + BatchSize \in Int
    BY BatchAssumption DEF BuildRecord
  <2>2. IsFiniteSet(r.offset + 1 .. r.offset + BatchSize)
    BY <2>1, FS_Interval
  <2>3. Batch(r) \in SUBSET (r.offset + 1 .. r.offset + BatchSize)
    BY DEF Batch
  <2> QED
    BY <2>2, <2>3, FS_Subset
<1>2. f \in Surjection(Batch(r), NewIds(r))
  BY DEF Surjection, NewIds
<1>3. IsFiniteSet(NewIds(r))
  <2> HIDE DEF f
  <2> QED
    BY <1>1, <1>2, FS_Surjection
<1>4. NewIds(r) \subseteq PointIds
  <2>1. ASSUME NEW i \in Batch(r)
        PROVE  ChunkId(r.doc, r.ver, r.chunks, i) \in DOMAIN Expected[r.doc][r.ver][r.settings]
    BY IdsOfChunks DEF Indexing, Batch
  <2> QED
    BY <2>1, IdsOfChunks DEF Indexing, NewIds
<1>5. DOMAIN Upserted(r) = DOMAIN points \cup NewIds(r)
  BY DEF Upserted, NewIds
<1>6. \A id \in NewIds(r) : id.doc = r.doc /\ id.ver = r.ver
  BY DEF NewIds, ChunkId
<1>7. \A id \in DOMAIN points : id \notin NewIds(r) => Upserted(r)[id] = points[id]
  BY DEF Upserted, NewIds
<1> QED
  BY <1>3, <1>4, <1>5, <1>6, <1>7

LEMMA KeptPoints ==
  ASSUME NEW r
  PROVE  /\ DOMAIN Pruned(r) = DOMAIN points \ (Stored(r.doc) \ KeepIds(r))
         /\ \A id \in DOMAIN Pruned(r) : Pruned(r)[id] = points[id]
BY DEF Pruned, Restrict

\* What a step of a build writes.
Writes(b) ==
  /\ points' \in {points, Upserted(build[b]), Pruned(build[b])}
  /\ Disturb(build[b].doc)
  /\ Indexing(build[b])

LEMMA WhatBuildsWrite ==
  ASSUME BuildInv, NEW b \in Builders, BuildStep(b)
  PROVE  UNCHANGED << points, reader >> \/ Writes(b)
<1>1. CASE UpsertBatch(b)
  BY <1>1 DEF UpsertBatch, Writes, BuildInv, Busy
<1>2. CASE Prune(b)
  BY <1>2 DEF Prune, Writes, BuildInv, Busy
<1>3. CASE IndexFails(b)
  <2>1. build[b].pc \in Busy /\ Disturb(build[b].doc) /\ Indexing(build[b])
    BY <1>3 DEF IndexFails, BuildInv, Busy
  <2>2. CASE build[b].pc = "lookup"
    BY <1>3, <2>1, <2>2 DEF IndexFails, Writes
  <2>3. CASE build[b].pc = "upsert"
    BY <1>3, <2>1, <2>3 DEF IndexFails, Writes
  <2>4. CASE build[b].pc = "prune"
    BY <1>3, <2>1, <2>4 DEF IndexFails, Writes
  <2> QED
    BY <2>1, <2>2, <2>3, <2>4 DEF Busy
<1> QED
  BY <1>1, <1>2, <1>3 DEF BuildStep, Start, Ingest, Lookup, Finish, Crash

LEMMA WritesStayInside ==
  ASSUME BuildInv, PointsInv, NEW b \in Builders, Writes(b)
  PROVE  PointsInv' /\ OnlyOf(build[b].doc)
<1>1. PICK r \in BuildRecord : r = build[b]
  BY DEF BuildInv
<1>2. Indexing(r) /\ points' \in {points, Upserted(r), Pruned(r)}
  BY <1>1 DEF Writes
<1>3. CASE points' = points
  BY <1>3 DEF PointsInv, OnlyOf, Stored
<1>4. CASE points' = Upserted(r)
  <2>1. IsFiniteSet(DOMAIN points \cup NewIds(r))
    BY <1>2, NewPoints, FS_Union DEF PointsInv
  <2>2. PointsInv'
    BY <1>2, <1>4, <2>1, NewPoints DEF PointsInv
  <2>3. OnlyOf(r.doc)
    BY <1>2, <1>4, NewPoints DEF OnlyOf, Stored
  <2> QED
    BY <1>1, <2>2, <2>3
<1>5. CASE points' = Pruned(r)
  <2>1. DOMAIN points' \in SUBSET DOMAIN points
    BY <1>5, KeptPoints
  <2>2. IsFiniteSet(DOMAIN points')
    BY <2>1, FS_Subset DEF PointsInv
  <2>3. PointsInv'
    BY <2>1, <2>2 DEF PointsInv
  <2>4. OnlyOf(r.doc)
    BY <1>5, KeptPoints DEF OnlyOf, Stored
  <2> QED
    BY <1>1, <2>3, <2>4
<1> QED
  BY <1>2, <1>3, <1>4, <1>5

-----------------------------------------------------------------------------

\* What a load has read of a document: everything once it is complete, and
\* the points before its place while it runs.
Seen(d) == {id \in Stored(d) : reader.pc = "loaded" \/ Rank[id] < reader.from}
ReadOf(d) == {p \in reader.got : p.id.doc = d}
AsStored(ids) == {[id |-> id, payload |-> points[id]] : id \in ids}

ReaderInv ==
  /\ reader.pc \in {"idle", "reading", "loaded"}
  /\ reader = [pc |-> reader.pc, from |-> reader.from, got |-> reader.got,
               disturbed |-> reader.disturbed]
  /\ reader.from \in Nat
  /\ reader.pc # "idle" =>
       \A d \in Docs \ reader.disturbed : ReadOf(d) = AsStored(Seen(d))

\* A page holds the points up to the place of the next page, and no others.
LEMMA PageIsPrefix ==
  ASSUME PointsInv, ReaderInv, Ahead # Page
  PROVE  /\ NextOffset \in Nat /\ reader.from <= NextOffset
         /\ \A id \in Ahead : id \in Page <=> Rank[id] < NextOffset
<1>1. \A id \in Ahead : id \in DOMAIN points /\ Rank[id] \in Nat /\ Rank[id] >= reader.from
  BY RankAssumption DEF PointsInv, Ahead
<1>2. Page \subseteq Ahead
  BY DEF Page
<1> DEFINE later == {Rank[id] : id \in Ahead \ Page}
<1>3. NextOffset = Min(later)
  BY DEF NextOffset
<1>4. later \in SUBSET Nat /\ later # {}
  BY <1>1, <1>2
<1>5. Min(later) \in later /\ \A y \in later : Min(later) <= y
  <2> HIDE DEF later
  <2> QED
    BY <1>4, LeastNumber
<1>6. PICK q \in Ahead \ Page : NextOffset = Rank[q]
  BY <1>3, <1>5
<1>7. NextOffset \in Nat /\ reader.from <= NextOffset
  BY <1>1, <1>6 DEF ReaderInv
<1>8. ASSUME NEW id \in Ahead, id \notin Page PROVE ~(Rank[id] < NextOffset)
  <2>1. Rank[id] \in later /\ Rank[id] \in Nat
    BY <1>1, <1>8
  <2>2. NextOffset <= Rank[id]
    <3> HIDE DEF later
    <3> QED
      BY <1>3, <1>5, <2>1
  <2> QED
    BY <1>7, <2>1, <2>2
<1>9. ASSUME NEW id \in Page, ~(Rank[id] < NextOffset) PROVE FALSE
  <2> DEFINE Lower(x) == {o \in Ahead : Rank[o] < Rank[x]}
  <2>1. Rank[q] <= Rank[id]
    BY <1>1, <1>2, <1>6, <1>7, <1>9
  <2>2. IsFiniteSet(Lower(id))
    <3>1. Lower(id) \in SUBSET DOMAIN points
      BY <1>1
    <3> QED
      BY <3>1, FS_Subset DEF PointsInv
  <2>3. Lower(q) \in SUBSET Lower(id)
    <3>1. ASSUME NEW o \in Lower(q) PROVE o \in Lower(id)
      BY <1>1, <1>2, <1>6, <2>1, <3>1
    <3> QED
      BY <3>1
  <2>4. IsFiniteSet(Lower(q)) /\ Cardinality(Lower(q)) <= Cardinality(Lower(id))
    BY <2>2, <2>3, FS_Subset
  <2>5. Cardinality(Lower(q)) \in Nat /\ Cardinality(Lower(id)) \in Nat
    BY <2>2, <2>4, FS_CardinalityType
  <2>6. Cardinality(Lower(id)) < PageSize
    BY DEF Page
  <2>7. Cardinality(Lower(q)) < PageSize
    <3> HIDE DEF Lower
    <3> QED
      BY <2>4, <2>5, <2>6, BatchAssumption
  <2> QED
    BY <1>6, <2>7 DEF Page
<1> QED
  BY <1>2, <1>7, <1>8, <1>9

LEMMA LoadStep ==
  ASSUME PointsInv, ReaderInv, LoadPage
  PROVE  ReaderInv'
<1>1. reader.pc = "reading" /\ reader.from \in Nat /\ UNCHANGED points
  BY DEF LoadPage, ReaderInv
<1>2. Ahead = {id \in DOMAIN points : Rank[id] >= reader.from} /\ Page \subseteq Ahead
  BY DEF Ahead, Page
<1>3. \A id \in DOMAIN points : Rank[id] \in Nat
  BY RankAssumption DEF PointsInv
<1>4. reader' = [pc |-> IF NextOffset = None THEN "loaded" ELSE "reading",
                 from |-> IF NextOffset = None THEN 0 ELSE NextOffset,
                 got |-> reader.got \cup AsStored(Page), disturbed |-> reader.disturbed]
  BY DEF LoadPage, ReaderInv, AsStored
<1>5. ASSUME NEW d \in Docs \ reader.disturbed, Seen(d)' = Seen(d) \cup {id \in Page : id.doc = d}
      PROVE  ReadOf(d)' = AsStored(Seen(d))'
  <2>1. ReadOf(d) = AsStored(Seen(d))
    BY <1>1 DEF ReaderInv
  <2>2. ReadOf(d)' = ReadOf(d) \cup {p \in AsStored(Page) : p.id.doc = d}
    BY <1>4 DEF ReadOf
  <2>3. {p \in AsStored(Page) : p.id.doc = d} = AsStored({id \in Page : id.doc = d})
    BY DEF AsStored
  <2>4. AsStored(Seen(d))' = AsStored(Seen(d)) \cup AsStored({id \in Page : id.doc = d})
    BY <1>1, <1>5 DEF AsStored
  <2> QED
    BY <2>1, <2>2, <2>3, <2>4
<1>6. CASE Ahead = Page
  <2>1. reader'.pc = "loaded" /\ reader'.from = 0 /\ reader'.disturbed = reader.disturbed
    BY <1>4, <1>6 DEF NextOffset
  <2>2. ASSUME NEW d \in Docs PROVE Seen(d)' = Seen(d) \cup {id \in Page : id.doc = d}
    BY <1>1, <1>2, <1>3, <1>6, <2>1 DEF Seen, Stored
  <2> QED
    BY <1>4, <1>5, <2>1, <2>2 DEF ReaderInv
<1>7. CASE Ahead # Page
  <2>1. /\ NextOffset \in Nat /\ reader.from <= NextOffset
        /\ \A id \in Ahead : id \in Page <=> Rank[id] < NextOffset
    BY <1>7, PageIsPrefix
  <2>2. PICK n \in Nat : n = NextOffset
    BY <2>1
  <2>3. n # None
    BY ManifestAssumption
  <2>4. reader'.pc = "reading" /\ reader'.from = n /\ reader'.disturbed = reader.disturbed
    BY <1>4, <2>2, <2>3
  <2>5. ASSUME NEW d \in Docs PROVE Seen(d)' = Seen(d) \cup {id \in Page : id.doc = d}
    <3>1. Seen(d)' = {id \in Stored(d) : Rank[id] < n}
      BY <1>1, <2>4 DEF Seen, Stored
    <3>2. ASSUME NEW id \in Stored(d)
          PROVE  Rank[id] < n <=> (Rank[id] < reader.from \/ id \in Page)
      <4>1. Rank[id] \in Nat /\ id \in DOMAIN points
        BY <1>3 DEF Stored
      <4>2. id \in Ahead <=> Rank[id] >= reader.from
        BY <1>2, <4>1
      <4>3. reader.from <= n /\ (id \in Ahead => (id \in Page <=> Rank[id] < n))
        BY <2>1, <2>2
      <4> QED
        BY <1>1, <1>2, <4>1, <4>2, <4>3
    <3>3. Page \subseteq DOMAIN points
      BY <1>2
    <3> QED
      BY <1>1, <3>1, <3>2, <3>3 DEF Seen, Stored
  <2>6. reader'.from \in Nat
    BY <2>4
  <2> QED
    BY <1>4, <1>5, <2>4, <2>5, <2>6 DEF ReaderInv
<1> QED
  BY <1>6, <1>7

\* A write to a document that a load is to answer for is seen as a disturbance.
LEMMA WriteStep ==
  ASSUME ReaderInv, NEW doc, OnlyOf(doc), Disturb(doc)
  PROVE  ReaderInv'
<1>1. CASE points' = points
  <2>1. reader' = reader
    BY <1>1 DEF Disturb
  <2> QED
    BY <1>1, <2>1 DEF ReaderInv, ReadOf, AsStored, Seen, Stored
<1>2. CASE reader.pc = "idle"
  <2>1. reader' = reader
    BY <1>2 DEF Disturb
  <2> QED
    BY <1>2, <2>1 DEF ReaderInv
<1>3. CASE points' # points /\ reader.pc # "idle"
  <2>1. reader' = [pc |-> reader.pc, from |-> reader.from, got |-> reader.got,
                   disturbed |-> reader.disturbed \cup {doc}]
    BY <1>3 DEF Disturb, ReaderInv
  <2>2. ASSUME NEW d \in Docs \ reader'.disturbed PROVE ReadOf(d)' = AsStored(Seen(d))'
    <3>1. d \in Docs \ reader.disturbed /\ d # doc
      BY <2>1
    <3>2. ReadOf(d) = AsStored(Seen(d))
      BY <1>3, <3>1 DEF ReaderInv
    <3>3. Stored(d)' = Stored(d) /\ \A id \in Stored(d) : points'[id] = points[id]
      BY <3>1 DEF OnlyOf, Stored
    <3>4. Seen(d)' = Seen(d) /\ Seen(d) \subseteq Stored(d)
      BY <2>1, <3>3 DEF Seen
    <3>5. AsStored(Seen(d))' = AsStored(Seen(d))
      BY <3>3, <3>4 DEF AsStored
    <3>6. ReadOf(d)' = ReadOf(d)
      BY <2>1 DEF ReadOf
    <3> QED
      BY <3>2, <3>5, <3>6
  <2> QED
    BY <1>3, <2>1, <2>2 DEF ReaderInv
<1> QED
  BY <1>1, <1>2, <1>3

LEMMA ReaderInvStep ==
  BuildInv /\ PointsInv /\ ReaderInv /\ [IndexNext]_vars => PointsInv' /\ ReaderInv'
<1> SUFFICES ASSUME BuildInv, PointsInv, ReaderInv, [IndexNext]_vars
             PROVE  PointsInv' /\ ReaderInv'
  OBVIOUS
<1>1. CASE UNCHANGED << points, reader >>
  BY <1>1 DEF PointsInv, ReaderInv, ReadOf, AsStored, Seen, Stored
<1>2. ASSUME NEW b \in Builders, Writes(b) PROVE PointsInv' /\ ReaderInv'
  <2>1. PointsInv' /\ OnlyOf(build[b].doc) /\ Disturb(build[b].doc)
    BY <1>2, WritesStayInside DEF Writes
  <2>2. PICK doc : doc = build[b].doc
    OBVIOUS
  <2> QED
    BY <2>1, <2>2, WriteStep
<1>3. CASE StartLoad
  <2>1. reader' = [pc |-> "reading", from |-> 0, got |-> {}, disturbed |-> {}] /\ UNCHANGED points
    BY <1>3 DEF StartLoad, NoLoad
  <2>2. \A id \in DOMAIN points : ~(Rank[id] < 0)
    BY RankAssumption DEF PointsInv
  <2>3. ASSUME NEW d \in Docs PROVE ReadOf(d)' = {} /\ AsStored(Seen(d))' = {}
    BY <2>1, <2>2 DEF ReadOf, AsStored, Seen, Stored
  <2> QED
    BY <2>1, <2>3 DEF PointsInv, ReaderInv
<1>4. CASE LoadPage
  <2>1. UNCHANGED points
    BY <1>4 DEF LoadPage
  <2> QED
    BY <1>4, <2>1, LoadStep DEF PointsInv
<1>5. ASSUME NEW b \in Builders, BuildStep(b) PROVE PointsInv' /\ ReaderInv'
  BY <1>1, <1>2, <1>5, WhatBuildsWrite
<1> QED
  BY <1>1, <1>3, <1>4, <1>5 DEF IndexNext, Recapture, SaveSettings, vars

LEMMA IndexInit == Init => BuildInv /\ PointsInv /\ ReaderInv
<1> SUFFICES ASSUME Init PROVE PointsInv /\ ReaderInv
  BY BuildInvInit
<1>1. DOMAIN points = {}
  BY DEF Init
<1>2. PointsInv
  BY <1>1, FS_EmptySet DEF PointsInv
<1>3. ReaderInv
  BY DEF Init, NoLoad, ReaderInv
<1> QED
  BY <1>2, <1>3

\* The commands of operators leave the candidate's collection alone.
LEMMA IndexStep ==
  BuildInv /\ PointsInv /\ ReaderInv /\ [LifecycleNext]_lifecycleVars
    => BuildInv' /\ PointsInv' /\ ReaderInv'
<1> SUFFICES ASSUME BuildInv, PointsInv, ReaderInv, [LifecycleNext]_lifecycleVars
             PROVE  BuildInv' /\ PointsInv' /\ ReaderInv'
  OBVIOUS
<1>1. CASE [IndexNext]_vars
  BY <1>1, BuildInvStep, ReaderInvStep
<1>2. CASE UNCHANGED << settings, points, build, reader >>
  BY <1>2 DEF BuildInv, Indexing, PointsInv, ReaderInv, ReadOf, AsStored, Seen, Stored
<1> QED
  BY <1>1, <1>2 DEF LifecycleNext, lifecycleVars, Begin, End, vars

\* Whatever builds run meanwhile, and however they fail: a snapshot loaded page
\* by page holds exactly the points of every document that none of them wrote
\* to since the load began, each with the payload it has.
THEOREM SnapshotsAreExact == LifecycleSpec => []SnapshotIsExact
<1>1. LifecycleInit => BuildInv /\ PointsInv /\ ReaderInv
  BY IndexInit DEF LifecycleInit
<1>2. ReaderInv => SnapshotIsExact
  <2> SUFFICES ASSUME ReaderInv, reader.pc = "loaded", NEW d \in Docs \ reader.disturbed
               PROVE  {p \in reader.got : p.id.doc = d}
                        = {[id |-> id, payload |-> points[id]] : id \in Stored(d)}
    BY DEF SnapshotIsExact
  <2>1. ReadOf(d) = AsStored(Seen(d)) /\ Seen(d) = Stored(d)
    BY DEF ReaderInv, Seen
  <2> QED
    BY <2>1 DEF ReadOf, AsStored
<1> QED
  BY <1>1, <1>2, IndexStep, PTL DEF LifecycleSpec

-----------------------------------------------------------------------------
(* What one builder at a time leaves in the collection *)

OneBuilder == \A b, c \in Builders : b = c

\* The point of a chunk is in the collection as this build would write it.
Indexed(r, i) ==
  LET id == ChunkId(r.doc, r.ver, r.chunks, i)
  IN  id \in DOMAIN points /\ points[id] = Payload(r.chunks[i], r.settings)
Complete(r) == \A i \in DOMAIN r.chunks : Indexed(r, i)

\* Every point is one that some settings make of its version.
PayloadInv ==
  \A id \in DOMAIN points : \E s \in Settings :
    /\ id.doc \in Docs /\ id.ver \in Versions
    /\ id \in DOMAIN Expected[id.doc][id.ver][s]
    /\ points[id] = Expected[id.doc][id.ver][s][id]

\* How far a build is: what it has upserted is there; when it comes to prune,
\* everything is, and if a report still claims something of the document, then
\* because the lookup found its chunks unchanged.
Progress(r) ==
  /\ r.pc \in {"next", "lookup"} => r.offset = 0
  /\ r.pc = "upsert" =>
       /\ reported[r.doc] = None
       /\ \A i \in DOMAIN r.chunks : i <= r.offset => Indexed(r, i)
  /\ r.pc = "prune" =>
       /\ Complete(r)
       /\ reported[r.doc] # None => StoredVersion(r.doc, r.ver) = KeepIds(r)

ReportHolds(d) ==
  /\ reported[d].ver \in Versions /\ reported[d].settings \in Settings
  /\ Restrict(points, Stored(d)) = Expected[d][reported[d].ver][reported[d].settings]

WriteInv ==
  /\ PayloadInv
  /\ reported = [d \in Docs |-> reported[d]]
  /\ \A d \in Docs : reported[d] # None => ReportHolds(d)
  /\ \A b \in Builders : Progress(build[b])

\* The points of a version under some settings, chunk by chunk.
ArePoints(e, d, v, c, s) ==
  /\ e = [id \in DOMAIN e |-> e[id]]
  /\ DOMAIN e = {ChunkId(d, v, c, i) : i \in DOMAIN c}
  /\ \A id \in DOMAIN e :
       /\ id.doc = d /\ id.ver = v /\ id.index \in DOMAIN c
       /\ id = ChunkId(d, v, c, id.index) /\ e[id] = Payload(c[id.index], s)

LEMMA ExpectedPoints ==
  ASSUME NEW d \in Docs, NEW v \in Versions, NEW s \in Settings
  PROVE  ArePoints(Expected[d][v][s], d, v, ChunksOf[v][s], s)
<1>0. PICK c, e : c = ChunksOf[v][s] /\ e = Expected[d][v][s]
  OBVIOUS
<1>1. e = [id \in {ChunkId(d, v, c, i) : i \in DOMAIN c} |-> Payload(c[id.index], s)]
  BY <1>0 DEF Expected
<1>2. DOMAIN e = {ChunkId(d, v, c, i) : i \in DOMAIN c} /\ e = [id \in DOMAIN e |-> e[id]]
  BY <1>1
<1>3. ASSUME NEW id \in DOMAIN e
      PROVE  /\ id.doc = d /\ id.ver = v /\ id.index \in DOMAIN c
             /\ id = ChunkId(d, v, c, id.index) /\ e[id] = Payload(c[id.index], s)
  <2>1. PICK i \in DOMAIN c : id = ChunkId(d, v, c, i)
    BY <1>2
  <2>2. id.doc = d /\ id.ver = v /\ id.index = i
    BY <2>1 DEF ChunkId
  <2> QED
    BY <1>1, <2>1, <2>2
<1>4. ArePoints(e, d, v, c, s)
  BY <1>2, <1>3 DEF ArePoints
<1> QED
  BY <1>0, <1>4

LEMMA ChunkIds ==
  \A d, v, c, i : /\ ChunkId(d, v, c, i).doc = d /\ ChunkId(d, v, c, i).ver = v
                  /\ ChunkId(d, v, c, i).index = i
BY DEF ChunkId

\* Settings of a build cut its version into chunks that cover the text.
LEMMA CutsCover ==
  ASSUME NEW v \in Versions, NEW s \in Settings, NEW c, c = ChunksOf[v][s]
  PROVE  /\ c \in Seq(ChunkRecord) /\ c # << >>
         /\ Covered(c) = TokensOf(DocumentSpan(Shape[v]))
<1>1. c = Chunks(Shape[v], Config[s])
  BY DEF ChunksOf
<1>2. IsDocument(Shape[v])
  BY ShapeAssumption
<1>3. IsChunker(Config[s])
  <2>1. /\ Config[s] \in [strategy : {"fixed", "recursive", "structural"}, max : Nat \ {0},
                          overlap : Nat, model : DOMAIN Dimension]
        /\ Config[s].overlap < Config[s].max
    BY WindowAssumption
  <2> QED
    BY <2>1 DEF IsChunker
<1> QED
  BY <1>1, <1>2, <1>3, ChunksCoverTheText

\* A batch adds its chunks and takes none away.
LEMMA UpsertAdds ==
  ASSUME NEW r \in BuildRecord, Indexing(r), points' = Upserted(r),
         NEW i \in DOMAIN r.chunks, Indexed(r, i) \/ i \in Batch(r)
  PROVE  Indexed(r, i)'
<1> DEFINE id == ChunkId(r.doc, r.ver, r.chunks, i)
           new == [k \in {ChunkId(r.doc, r.ver, r.chunks, j) : j \in Batch(r)} |->
                     Payload(r.chunks[k.index], r.settings)]
<1>1. points' = [k \in DOMAIN points \cup DOMAIN new |->
                   IF k \in DOMAIN new THEN new[k] ELSE points[k]]
  BY DEF Upserted
<1>2. id.index = i
  BY ChunkIds
<1>3. id \in DOMAIN new => new[id] = Payload(r.chunks[i], r.settings)
  BY <1>2
<1>4. CASE i \in Batch(r)
  <2>1. id \in DOMAIN new
    BY <1>4
  <2> HIDE DEF new, id
  <2>2. id \in DOMAIN points' /\ points'[id] = Payload(r.chunks[i], r.settings)
    BY <1>1, <1>3, <2>1
  <2> QED
    BY <2>2 DEF Indexed, id
<1>5. CASE Indexed(r, i)
  <2>1. id \in DOMAIN points /\ points[id] = Payload(r.chunks[i], r.settings)
    BY <1>5 DEF Indexed
  <2> HIDE DEF new, id
  <2>2. id \in DOMAIN points' /\ points'[id] = Payload(r.chunks[i], r.settings)
    BY <1>1, <1>3, <2>1
  <2> QED
    BY <2>2 DEF Indexed, id
<1> QED
  BY <1>4, <1>5

LEMMA UpsertKeepsPayloads ==
  ASSUME PayloadInv, NEW r \in BuildRecord, Indexing(r), points' = Upserted(r)
  PROVE  PayloadInv'
<1>1. /\ DOMAIN points' = DOMAIN points \cup NewIds(r)
      /\ \A id \in DOMAIN points : id \notin NewIds(r) => points'[id] = points[id]
  BY NewPoints
<1>2. PICK c, e : c = ChunksOf[r.ver][r.settings] /\ e = Expected[r.doc][r.ver][r.settings]
  OBVIOUS
<1>0. ArePoints(e, r.doc, r.ver, c, r.settings)
  BY <1>2, ExpectedPoints DEF Indexing
<1>3. /\ DOMAIN e = {ChunkId(r.doc, r.ver, c, i) : i \in DOMAIN c}
      /\ \A id \in DOMAIN e : e[id] = Payload(c[id.index], r.settings)
  BY <1>0 DEF ArePoints
<1>4. r.chunks = c /\ r.doc \in Docs /\ r.ver \in Versions /\ r.settings \in Settings
  BY <1>2 DEF Indexing
<1>5. ASSUME NEW id \in NewIds(r)
      PROVE  id.doc = r.doc /\ id.ver = r.ver /\ id \in DOMAIN e /\ points'[id] = e[id]
  <2>1. PICK i \in Batch(r) : id = ChunkId(r.doc, r.ver, r.chunks, i)
    BY DEF NewIds
  <2>2. id.doc = r.doc /\ id.ver = r.ver /\ id.index = i /\ i \in DOMAIN r.chunks
    BY <2>1, ChunkIds DEF Batch
  <2>3. id \in DOMAIN e
    BY <1>3, <1>4, <2>1, <2>2
  <2>4. Indexed(r, i)'
    BY <2>1, <2>2, UpsertAdds
  <2>5. points'[id] = Payload(r.chunks[i], r.settings)
    BY <2>1, <2>4 DEF Indexed
  <2> QED
    BY <1>3, <1>4, <2>2, <2>3, <2>5
<1>6. ASSUME NEW id \in DOMAIN points'
      PROVE  \E s \in Settings :
               /\ id.doc \in Docs /\ id.ver \in Versions
               /\ id \in DOMAIN Expected[id.doc][id.ver][s]
               /\ points'[id] = Expected[id.doc][id.ver][s][id]
  <2>1. CASE id \in NewIds(r)
    BY <1>2, <1>4, <1>5, <2>1
  <2>2. CASE id \notin NewIds(r)
    BY <1>1, <2>2 DEF PayloadInv
  <2> QED
    BY <2>1, <2>2
<1> QED
  BY <1>6 DEF PayloadInv

LEMMA PruneKeepsPayloads ==
  ASSUME PayloadInv, NEW r, points' = Pruned(r)
  PROVE  PayloadInv'
<1>1. /\ DOMAIN points' \subseteq DOMAIN points
      /\ \A id \in DOMAIN points' : points'[id] = points[id]
  BY KeptPoints
<1> QED
  BY <1>1 DEF PayloadInv

\* Pruning a document whose chunks are all there leaves exactly those.
LEMMA PruneCompletes ==
  ASSUME NEW r \in BuildRecord, Indexing(r), Complete(r), points' = Pruned(r)
  PROVE  Restrict(points, Stored(r.doc))' = Expected[r.doc][r.ver][r.settings]
<1>1. PICK c, e : c = ChunksOf[r.ver][r.settings] /\ e = Expected[r.doc][r.ver][r.settings]
  OBVIOUS
<1>0. ArePoints(e, r.doc, r.ver, c, r.settings)
  BY <1>1, ExpectedPoints DEF Indexing
<1>2. /\ e = [id \in DOMAIN e |-> e[id]]
      /\ DOMAIN e = {ChunkId(r.doc, r.ver, c, i) : i \in DOMAIN c}
      /\ \A id \in DOMAIN e :
           /\ id.doc = r.doc /\ id.ver = r.ver /\ id.index \in DOMAIN c
           /\ id = ChunkId(r.doc, r.ver, c, id.index) /\ e[id] = Payload(c[id.index], r.settings)
  BY <1>0 DEF ArePoints
<1>3. r.chunks = c /\ KeepIds(r) = DOMAIN e
  BY <1>1, <1>2 DEF Indexing, KeepIds
<1>4. ASSUME NEW id \in DOMAIN e PROVE id \in DOMAIN points /\ points[id] = e[id]
  <2>1. Indexed(r, id.index)
    BY <1>2, <1>3 DEF Complete
  <2> QED
    BY <1>2, <1>3, <2>1 DEF Indexed
<1>5. /\ DOMAIN points' = DOMAIN points \ (Stored(r.doc) \ DOMAIN e)
      /\ \A id \in DOMAIN points' : points'[id] = points[id]
  BY <1>3, KeptPoints
<1>6. Stored(r.doc)' = DOMAIN e
  BY <1>2, <1>4, <1>5 DEF Stored
<1>7. \A id \in DOMAIN e : points'[id] = e[id]
  BY <1>4, <1>5
<1>8. Restrict(points, Stored(r.doc))' = [id \in DOMAIN e |-> e[id]]
  BY <1>6, <1>7 DEF Restrict
<1> QED
  BY <1>1, <1>2, <1>8

\* A document that holds the points of a version holds all of its text.
LEMMA ExpectedIsWhole ==
  ASSUME NEW d \in Docs, NEW v \in Versions, NEW s \in Settings,
         Restrict(points, Stored(d)) = Expected[d][v][s]
  PROVE  Whole(d, v)
<1>1. PICK c, e : c = ChunksOf[v][s] /\ e = Expected[d][v][s]
  OBVIOUS
<1>0. ArePoints(e, d, v, c, s)
  BY <1>1, ExpectedPoints
<1>2. /\ DOMAIN e = {ChunkId(d, v, c, i) : i \in DOMAIN c}
      /\ \A id \in DOMAIN e :
           /\ id.doc = d /\ id.ver = v /\ id.index \in DOMAIN c
           /\ id = ChunkId(d, v, c, id.index) /\ e[id] = Payload(c[id.index], s)
  BY <1>0 DEF ArePoints
<1>3. Stored(d) = DOMAIN e /\ \A id \in DOMAIN e : points[id] = e[id]
  <2>1. [id \in Stored(d) |-> points[id]] = e
    BY <1>1 DEF Restrict
  <2> QED
    BY <2>1
<1>4. StoredVersion(d, v) = DOMAIN e
  BY <1>2, <1>3 DEF StoredVersion
<1>5. \A id \in DOMAIN e : TokensOf(points[id]) = TokensOf(c[id.index])
  <2>1. ASSUME NEW id \in DOMAIN e PROVE TokensOf(points[id]) = TokensOf(c[id.index])
    <3>1. points[id] = [from |-> c[id.index].from, to |-> c[id.index].to, signature |-> s]
      BY <1>2, <1>3 DEF Payload
    <3> QED
      BY <3>1 DEF TokensOf
  <2> QED
    BY <2>1
<1>6. Reachable(d, v) = Covered(c)
  <2>1. ASSUME NEW i \in DOMAIN c, NEW x \in TokensOf(c[i]) PROVE x \in Reachable(d, v)
    <3>1. PICK id \in DOMAIN e : id = ChunkId(d, v, c, i)
      BY <1>2
    <3>2. id.index = i
      BY <3>1, ChunkIds
    <3>3. x \in TokensOf(points[id])
      BY <1>5, <2>1, <3>2
    <3> QED
      BY <1>4, <3>3 DEF Reachable
  <2>2. ASSUME NEW id \in DOMAIN e, NEW x \in TokensOf(points[id]) PROVE x \in Covered(c)
    BY <1>2, <1>5, <2>2 DEF Covered
  <2> QED
    BY <1>4, <2>1, <2>2 DEF Covered, Reachable
<1>7. Covered(c) = TokensOf(DocumentSpan(Shape[v]))
  BY <1>1, CutsCover
<1> QED
  BY <1>6, <1>7 DEF Whole
-----------------------------------------------------------------------------

LEMMA BuildsWriteOneDocument ==
  ASSUME BuildInv, PointsInv, NEW b \in Builders, BuildStep(b)
  PROVE  OnlyOf(build[b].doc)
<1>1. CASE UNCHANGED points
  BY <1>1 DEF OnlyOf, Stored
<1>2. CASE Writes(b)
  BY <1>2, WritesStayInside
<1> QED
  BY <1>1, <1>2, WhatBuildsWrite

\* What is reported of the other documents stays true.
LEMMA OthersHold ==
  ASSUME NEW doc, OnlyOf(doc), NEW d \in Docs, d # doc, ReportHolds(d), reported'[d] = reported[d]
  PROVE  ReportHolds(d)'
<1>1. Stored(d)' = Stored(d) /\ \A id \in Stored(d) : points'[id] = points[id]
  BY DEF OnlyOf, Stored
<1>2. Restrict(points, Stored(d))' = Restrict(points, Stored(d))
  BY <1>1 DEF Restrict
<1> QED
  BY <1>2 DEF ReportHolds

\* The one builder goes on from what it left.
LEMMA OneGoesOn ==
  ASSUME OneBuilder, NEW b \in Builders, NEW q, build'[b] = q, PayloadInv',
         reported' = [d \in Docs |-> reported'[d]],
         \A d \in Docs : reported'[d] # None => ReportHolds(d)', Progress(q)'
  PROVE  WriteInv'
<1>1. \A c \in Builders : build'[c] = q
  BY DEF OneBuilder
<1>2. \A c \in Builders : Progress(build[c])'
  BY <1>1 DEF Progress, Complete, Indexed, KeepIds, StoredVersion, Stored
<1> QED
  BY <1>2 DEF WriteInv

LEMMA LookupStep ==
  ASSUME OneBuilder, BuildInv, WriteInv, NEW b \in Builders, Lookup(b)
  PROVE  WriteInv'
<1>1. PICK r \in BuildRecord : r = build[b]
  BY DEF BuildInv
<1>2. r.pc = "lookup" /\ Indexing(r) /\ r.offset = 0 /\ UNCHANGED points
  BY <1>1 DEF Lookup, BuildInv, Busy, WriteInv, Progress
<1>3. PICK c, e : c = ChunksOf[r.ver][r.settings] /\ e = Expected[r.doc][r.ver][r.settings]
  OBVIOUS
<1>4. ArePoints(e, r.doc, r.ver, c, r.settings)
  BY <1>2, <1>3, ExpectedPoints DEF Indexing
<1>5. r.chunks = c /\ c \in Seq(ChunkRecord) /\ c # << >>
  BY <1>2, <1>3, CutsCover DEF Indexing
<1>6. PayloadInv'
  BY <1>2 DEF WriteInv, PayloadInv
<1>7. CASE HasDocumentVersion(r.doc, r.ver, r.settings)
  <2> DEFINE q == [r EXCEPT !.pc = "prune"]
  <2>1. build'[b] = q /\ UNCHANGED reported
    BY <1>1, <1>7 DEF Lookup, BuildInv
  <2>2. /\ q.pc = "prune" /\ q.doc = r.doc /\ q.ver = r.ver /\ q.settings = r.settings
        /\ q.chunks = r.chunks
    BY DEF BuildRecord
  <2> HIDE DEF q
  <2>3. [id \in StoredVersion(r.doc, r.ver) |-> points[id]] = e
    BY <1>3, <1>7 DEF HasDocumentVersion
  <2>4. StoredVersion(r.doc, r.ver) = DOMAIN e
        /\ \A id \in DOMAIN e : points[id] = e[id] /\ id \in DOMAIN points
    <3>1. StoredVersion(r.doc, r.ver) \subseteq DOMAIN points
      BY DEF StoredVersion, Stored
    <3> QED
      BY <2>3, <3>1
  <2>5. ASSUME NEW i \in DOMAIN c
        PROVE  LET id == ChunkId(r.doc, r.ver, c, i)
               IN  id \in DOMAIN points /\ points[id] = Payload(c[i], r.settings)
    <3>1. PICK id : id = ChunkId(r.doc, r.ver, c, i)
      OBVIOUS
    <3>2. id \in DOMAIN e /\ id.index = i
      BY <1>4, <3>1, ChunkIds DEF ArePoints
    <3>3. e[id] = Payload(c[i], r.settings)
      BY <1>4, <3>2 DEF ArePoints
    <3> QED
      BY <2>4, <3>1, <3>2, <3>3
  <2>6. Complete(q)'
    BY <1>2, <1>5, <2>2, <2>5 DEF Complete, Indexed
  <2>7. (StoredVersion(q.doc, q.ver) = KeepIds(q))'
    BY <1>2, <1>4, <1>5, <2>2, <2>4 DEF ArePoints, KeepIds, StoredVersion, Stored
  <2>8. Progress(q)'
    BY <2>2, <2>6, <2>7 DEF Progress
  <2>9. ASSUME NEW d \in Docs, reported'[d] # None PROVE ReportHolds(d)'
    BY <1>2, <2>1, <2>9 DEF WriteInv, ReportHolds, Stored
  <2>10. reported' = [d \in Docs |-> reported'[d]]
    BY <2>1 DEF WriteInv
  <2> QED
    BY <1>6, <2>1, <2>8, <2>9, <2>10, OneGoesOn
<1>8. CASE ~HasDocumentVersion(r.doc, r.ver, r.settings)
  <2> DEFINE q == [r EXCEPT !.pc = "upsert"]
  <2>1. build'[b] = q /\ reported' = [reported EXCEPT ![r.doc] = None]
    BY <1>1, <1>5, <1>8 DEF Lookup, BuildInv
  <2>2. /\ q.pc = "upsert" /\ q.doc = r.doc /\ q.offset = 0 /\ q.chunks = c
    BY <1>2, <1>5 DEF BuildRecord
  <2> HIDE DEF q
  <2>3. reported' = [d \in Docs |-> IF d = r.doc THEN None ELSE reported[d]]
    BY <2>1 DEF WriteInv
  <2>4. \A i \in DOMAIN c : ~(i <= 0)
    BY <1>5
  <2>5. Progress(q)'
    BY <1>2, <2>2, <2>3, <2>4 DEF Progress, Indexing
  <2>6. ASSUME NEW d \in Docs, reported'[d] # None PROVE ReportHolds(d)'
    <3>1. reported'[d] = reported[d]
      BY <2>3, <2>6
    <3> QED
      BY <1>2, <2>6, <3>1 DEF WriteInv, ReportHolds, Stored
  <2>7. reported' = [d \in Docs |-> reported'[d]]
    BY <2>3
  <2> QED
    BY <1>6, <2>1, <2>5, <2>6, <2>7, OneGoesOn
<1> QED
  BY <1>7, <1>8

LEMMA UpsertStep ==
  ASSUME OneBuilder, BuildInv, PointsInv, WriteInv, NEW b \in Builders, UpsertBatch(b)
  PROVE  WriteInv'
<1>1. PICK r \in BuildRecord : r = build[b]
  BY DEF BuildInv
<1>2. r.pc = "upsert" /\ Indexing(r) /\ points' = Upserted(r) /\ UNCHANGED reported
  BY <1>1 DEF UpsertBatch, BuildInv, Busy
<1>3. reported[r.doc] = None /\ \A i \in DOMAIN r.chunks : i <= r.offset => Indexed(r, i)
  BY <1>1, <1>2 DEF WriteInv, Progress
<1>4. r.chunks \in Seq(ChunkRecord)
  BY <1>2, CutsCover DEF Indexing
<1>5. PICK q : q = build'[b]
  OBVIOUS
<1>6. /\ q.pc = IF r.offset + BatchSize < Len(r.chunks) THEN "upsert" ELSE "prune"
      /\ q.doc = r.doc /\ q.ver = r.ver /\ q.settings = r.settings /\ q.chunks = r.chunks
      /\ q.offset = r.offset + BatchSize
  <2>1. /\ build' = [build EXCEPT ![b].offset = @ + BatchSize,
                              ![b].pc = IF r.offset + BatchSize < Len(r.chunks)
                                        THEN "upsert" ELSE "prune"]
    BY <1>1 DEF UpsertBatch
  <2>2. build = [c \in Builders |-> build[c]]
    BY DEF BuildInv
  <2>3. r = [pc |-> r.pc, settings |-> r.settings, todo |-> r.todo, doc |-> r.doc,
             ver |-> r.ver, chunks |-> r.chunks, offset |-> r.offset]
    BY DEF BuildRecord
  <2>4. q = [pc |-> IF r.offset + BatchSize < Len(r.chunks) THEN "upsert" ELSE "prune",
             settings |-> r.settings, todo |-> r.todo, doc |-> r.doc,
             ver |-> r.ver, chunks |-> r.chunks, offset |-> r.offset + BatchSize]
    BY <1>1, <1>5, <2>1, <2>2, <2>3
  <2> QED
    BY <2>4
<1>7. ASSUME NEW i \in DOMAIN r.chunks, i <= r.offset + BatchSize PROVE Indexed(q, i)'
  <2>1. i \in Nat /\ r.offset \in Nat /\ BatchSize \in Nat /\ i >= 1
    BY <1>4, BatchAssumption DEF BuildRecord
  <2>2. i <= r.offset \/ i \in r.offset + 1 .. r.offset + BatchSize
    BY <1>7, <2>1
  <2>3. Indexed(r, i) \/ i \in Batch(r)
    BY <1>3, <2>2 DEF Batch
  <2>4. Indexed(r, i)'
    BY <1>2, <2>3, UpsertAdds
  <2> QED
    BY <1>6, <2>4 DEF Indexed, ChunkId
<1>8. Progress(q)'
  <2>1. CASE r.offset + BatchSize < Len(r.chunks)
    BY <1>2, <1>3, <1>6, <1>7, <2>1 DEF Progress
  <2>2. CASE ~(r.offset + BatchSize < Len(r.chunks))
    <3>1. ASSUME NEW i \in DOMAIN r.chunks PROVE i <= r.offset + BatchSize
      BY <1>4, <2>2, BatchAssumption DEF BuildRecord
    <3>2. Complete(q)'
      BY <1>6, <1>7, <3>1 DEF Complete
    <3>3. q.pc = "prune" /\ reported'[q.doc] = None
      BY <1>2, <1>3, <1>6, <2>2
    <3> QED
      BY <3>2, <3>3 DEF Progress
  <2> QED
    BY <2>1, <2>2
<1>9. PayloadInv'
  BY <1>2, UpsertKeepsPayloads DEF WriteInv
<1>10. OnlyOf(r.doc)
  BY <1>1, BuildsWriteOneDocument DEF BuildStep
<1>11. ASSUME NEW d \in Docs, reported'[d] # None PROVE ReportHolds(d)'
  BY <1>2, <1>3, <1>10, <1>11, OthersHold DEF WriteInv
<1>12. reported' = [d \in Docs |-> reported'[d]]
  BY <1>2 DEF WriteInv
<1> QED
  BY <1>5, <1>8, <1>9, <1>11, <1>12, OneGoesOn

\* The loop goes back to its start.
LEMMA NextIsProgress ==
  ASSUME BuildInv, NEW b \in Builders, build' = [build EXCEPT ![b] = NextManifest(b)]
  PROVE  build'[b].pc = "next" /\ build'[b].offset = 0
<1>1. PICK r \in BuildRecord : r = build[b]
  BY DEF BuildInv
<1>2. build'[b] = NextManifest(b)
  BY DEF BuildInv
<1>3. NextManifest(b) = [r EXCEPT !.pc = "next", !.todo = r.todo \ {First(b)}, !.doc = None,
                                  !.ver = None, !.chunks = << >>, !.offset = 0]
  BY <1>1, Zenon DEF NextManifest
<1>4. NextManifest(b) = [pc |-> "next", settings |-> r.settings, todo |-> r.todo \ {First(b)},
                         doc |-> None, ver |-> None, chunks |-> << >>, offset |-> 0]
  BY <1>3 DEF BuildRecord
<1> HIDE DEF NextManifest
<1> QED
  BY <1>2, <1>4

LEMMA PruneStep ==
  ASSUME OneBuilder, BuildInv, PointsInv, WriteInv, NEW b \in Builders, Prune(b)
  PROVE  WriteInv'
<1>1. PICK r \in BuildRecord : r = build[b]
  BY DEF BuildInv
<1>2. /\ r.pc = "prune" /\ Indexing(r) /\ points' = Pruned(r)
      /\ reported' = [reported EXCEPT ![r.doc] = [ver |-> r.ver, settings |-> r.settings]]
  BY <1>1 DEF Prune, BuildInv, Busy
<1>3. Complete(r)
  BY <1>1, <1>2 DEF WriteInv, Progress
<1>4. PICK q : q = build'[b]
  OBVIOUS
<1>5. Progress(q)'
  <2>1. q.pc = "next" /\ q.offset = 0
    BY <1>4, NextIsProgress DEF Prune
  <2> QED
    BY <2>1 DEF Progress
<1>6. PayloadInv'
  BY <1>2, PruneKeepsPayloads DEF WriteInv
<1>7. OnlyOf(r.doc)
  BY <1>1, BuildsWriteOneDocument DEF BuildStep
<1>8. reported' = [d \in Docs |-> IF d = r.doc THEN [ver |-> r.ver, settings |-> r.settings]
                                  ELSE reported[d]]
  BY <1>2 DEF WriteInv
<1>9. ASSUME NEW d \in Docs, reported'[d] # None PROVE ReportHolds(d)'
  <2>1. CASE d = r.doc
    <3>1. Restrict(points, Stored(r.doc))' = Expected[r.doc][r.ver][r.settings]
      BY <1>2, <1>3, PruneCompletes
    <3>2. reported'[d].ver = r.ver /\ reported'[d].settings = r.settings
      BY <1>8, <2>1
    <3> QED
      BY <1>2, <2>1, <3>1, <3>2 DEF ReportHolds, Indexing
  <2>2. CASE d # r.doc
    <3>1. reported'[d] = reported[d]
      BY <1>8, <2>2
    <3> QED
      BY <1>7, <1>9, <2>2, <3>1, OthersHold DEF WriteInv
  <2> QED
    BY <2>1, <2>2
<1>10. reported' = [d \in Docs |-> reported'[d]]
  BY <1>8
<1> QED
  BY <1>4, <1>5, <1>6, <1>9, <1>10, OneGoesOn

\* A prune whose document is still reported finds nothing to retire.
LEMMA ReportedPrune ==
  ASSUME NEW r \in BuildRecord, Indexing(r), ReportHolds(r.doc), Complete(r),
         StoredVersion(r.doc, r.ver) = KeepIds(r), points' = Pruned(r), UNCHANGED reported
  PROVE  ReportHolds(r.doc)'
<1>1. PICK v \in Versions, s \in Settings : v = reported[r.doc].ver /\ s = reported[r.doc].settings
  BY DEF ReportHolds
<1>2. PICK c, e : c = ChunksOf[v][s] /\ e = Expected[r.doc][v][s]
  OBVIOUS
<1>3. ArePoints(e, r.doc, v, c, s)
  BY <1>1, <1>2, ExpectedPoints DEF Indexing
<1>4. Stored(r.doc) = DOMAIN e
  <2>1. Restrict(points, Stored(r.doc)) = e
    BY <1>1, <1>2 DEF ReportHolds
  <2> QED
    BY <2>1 DEF Restrict
<1>5. r.ver = v
  <2>1. r.chunks \in Seq(ChunkRecord) /\ r.chunks # << >>
    BY CutsCover DEF Indexing
  <2>2. 1 \in DOMAIN r.chunks
    BY <2>1
  <2>3. PICK id : id = ChunkId(r.doc, r.ver, r.chunks, 1)
    OBVIOUS
  <2>4. id \in DOMAIN points /\ id.doc = r.doc /\ id.ver = r.ver
    BY <2>2, <2>3, ChunkIds DEF Complete, Indexed
  <2>5. id \in DOMAIN e
    BY <1>4, <2>4 DEF Stored
  <2> QED
    BY <1>3, <2>4, <2>5 DEF ArePoints
<1>6. Stored(r.doc) = KeepIds(r)
  BY <1>3, <1>4, <1>5 DEF ArePoints, StoredVersion
<1>7. /\ DOMAIN points' = DOMAIN points
      /\ \A id \in DOMAIN points : points'[id] = points[id]
  BY <1>6, KeptPoints
<1>8. Stored(r.doc)' = Stored(r.doc) /\ Stored(r.doc) \subseteq DOMAIN points
  BY <1>7 DEF Stored
<1>9. Restrict(points, Stored(r.doc))' = Restrict(points, Stored(r.doc))
  BY <1>7, <1>8 DEF Restrict
<1> QED
  BY <1>9 DEF ReportHolds

LEMMA FailureStep ==
  ASSUME OneBuilder, BuildInv, PointsInv, WriteInv, NEW b \in Builders, IndexFails(b)
  PROVE  WriteInv'
<1>1. PICK r \in BuildRecord : r = build[b]
  BY DEF BuildInv
<1>2. r.pc \in Busy /\ Indexing(r) /\ UNCHANGED reported
  BY <1>1 DEF IndexFails, BuildInv, Busy
<1>3. PICK q : q = build'[b]
  OBVIOUS
<1>4. Progress(q)'
  <2>1. q.pc = "next" /\ q.offset = 0
    BY <1>3, NextIsProgress DEF IndexFails
  <2> QED
    BY <2>1 DEF Progress
<1>5. OnlyOf(r.doc)
  BY <1>1, BuildsWriteOneDocument DEF BuildStep
<1>6. reported' = [d \in Docs |-> reported'[d]]
  BY <1>2 DEF WriteInv
<1>7. ASSUME PayloadInv', reported[r.doc] # None => ReportHolds(r.doc)' PROVE WriteInv'
  <2>1. ASSUME NEW d \in Docs, reported'[d] # None PROVE ReportHolds(d)'
    <3>1. CASE d = r.doc
      BY <1>2, <1>7, <2>1, <3>1
    <3>2. CASE d # r.doc
      BY <1>2, <1>5, <2>1, <3>2, OthersHold DEF WriteInv
    <3> QED
      BY <3>1, <3>2
  <2> QED
    BY <1>3, <1>4, <1>6, <1>7, <2>1, OneGoesOn
<1>8. CASE points' = points
  <2>1. PayloadInv'
    BY <1>8 DEF WriteInv, PayloadInv
  <2>2. reported[r.doc] # None => ReportHolds(r.doc)'
    BY <1>2, <1>8 DEF WriteInv, ReportHolds, Stored, Indexing
  <2> QED
    BY <1>7, <2>1, <2>2
<1>9. CASE r.pc = "upsert" /\ points' = Upserted(r)
  <2>1. reported[r.doc] = None
    BY <1>1, <1>9 DEF WriteInv, Progress
  <2> QED
    BY <1>2, <1>7, <1>9, <2>1, UpsertKeepsPayloads DEF WriteInv
<1>10. CASE r.pc = "prune" /\ points' = Pruned(r)
  <2>1. Complete(r) /\ (reported[r.doc] # None => StoredVersion(r.doc, r.ver) = KeepIds(r))
    BY <1>1, <1>10 DEF WriteInv, Progress
  <2>2. PayloadInv'
    BY <1>10, PruneKeepsPayloads DEF WriteInv
  <2>3. ASSUME reported[r.doc] # None PROVE ReportHolds(r.doc)'
    <3>1. ReportHolds(r.doc)
      BY <1>2, <2>3 DEF WriteInv, Indexing
    <3> QED
      BY <1>2, <1>10, <2>1, <2>3, <3>1, ReportedPrune
  <2> QED
    BY <1>7, <2>2, <2>3
<1> QED
  BY <1>1, <1>2, <1>8, <1>9, <1>10 DEF IndexFails, Busy
\* Steps that neither write points nor reports leave the builder idle, or
\* before its next document with nothing upserted.
LEMMA QuietStep ==
  ASSUME OneBuilder, BuildInv, WriteInv, UNCHANGED << points, reported >>,
         NEW b \in Builders, NEW q, build'[b] = q,
         q.pc = "idle" \/ (q.pc \in {"next", "lookup"} /\ q.offset = 0)
  PROVE  WriteInv'
<1>1. PayloadInv' /\ reported' = [d \in Docs |-> reported'[d]]
  BY DEF WriteInv, PayloadInv
<1>2. \A d \in Docs : reported'[d] # None => ReportHolds(d)'
  BY DEF WriteInv, ReportHolds, Stored
<1>3. Progress(q)'
  BY DEF Progress
<1> QED
  BY <1>1, <1>2, <1>3, OneGoesOn

LEMMA WriteInvSame ==
  ASSUME WriteInv, UNCHANGED << points, reported, build >>
  PROVE  WriteInv'
<1>1. PayloadInv' /\ reported' = [d \in Docs |-> reported'[d]]
  BY DEF WriteInv, PayloadInv
<1>2. \A d \in Docs : reported'[d] # None => ReportHolds(d)'
  BY DEF WriteInv, ReportHolds, Stored
<1>3. ASSUME NEW b \in Builders PROVE Progress(build[b])'
  <2>1. PICK r : r = build[b]
    OBVIOUS
  <2>2. Progress(r)
    BY <2>1 DEF WriteInv
  <2>3. Progress(r)'
    BY <2>2 DEF Progress, Complete, Indexed, StoredVersion, Stored
  <2>4. build'[b] = r
    BY <2>1
  <2> QED
    BY <2>3, <2>4 DEF Progress, Complete, Indexed, KeepIds, StoredVersion, Stored
<1> QED
  BY <1>1, <1>2, <1>3 DEF WriteInv

LEMMA WriteInvStep ==
  ASSUME OneBuilder, BuildInv, PointsInv, WriteInv, [IndexNext]_vars
  PROVE  WriteInv'
<1>0. build = [c \in Builders |-> build[c]] /\ NoBuild.pc = "idle" /\ NoBuild.offset = 0
  BY DEF BuildInv, NoBuild
<1>1. CASE UNCHANGED << points, reported, build >>
  BY <1>1, WriteInvSame
<1>2. ASSUME NEW b \in Builders, Start(b) PROVE WriteInv'
  <2>1. CASE UNCHANGED build
    BY <1>1, <1>2, <2>1 DEF Start
  <2>2. CASE build' # build
    <3> DEFINE S == {i \in DOMAIN Manifests : Selected(capture[Manifests[i]])}
               q == [pc |-> "next", settings |-> settings, todo |-> S, doc |-> None,
                     ver |-> None, chunks |-> << >>, offset |-> 0]
    <3>1. build' = [build EXCEPT ![b] = q] /\ UNCHANGED << points, reported >>
      BY <1>2, <2>2 DEF Start, NoBuild
    <3>2. q.pc = "next" /\ q.offset = 0
      OBVIOUS
    <3> HIDE DEF q
    <3>3. build'[b] = q
      BY <1>0, <3>1
    <3> QED
      BY <3>1, <3>2, <3>3, QuietStep
  <2> QED
    BY <2>1, <2>2
<1>3. ASSUME NEW b \in Builders, Ingest(b) PROVE WriteInv'
  <2>1. PICK r \in BuildRecord : r = build[b]
    BY DEF BuildInv
  <2>2. r.pc = "next" /\ r.offset = 0 /\ UNCHANGED << points, reported >>
    BY <1>3, <2>1 DEF Ingest, WriteInv, Progress
  <2>3. PICK d, v : d = Manifests[First(b)] /\ v = capture[d].file
    OBVIOUS
  <2>4. CASE v \notin Versions
    <3>1. build' = [build EXCEPT ![b] = NextManifest(b)]
      BY <1>3, <2>3, <2>4 DEF Ingest
    <3>2. PICK q : q = build'[b]
      OBVIOUS
    <3> QED
      BY <2>2, <3>1, <3>2, NextIsProgress, QuietStep
  <2>5. CASE v \in Versions
    <3> DEFINE q == [r EXCEPT !.pc = "lookup", !.doc = d, !.ver = v,
                              !.chunks = ChunksOf[v][r.settings]]
    <3>1. build' = [build EXCEPT ![b] = q]
      BY <1>3, <2>1, <2>3, <2>5 DEF Ingest
    <3>2. q.pc = "lookup" /\ q.offset = 0
      BY <2>2 DEF BuildRecord
    <3> HIDE DEF q
    <3>3. build'[b] = q
      BY <1>0, <3>1
    <3> QED
      BY <2>2, <3>2, <3>3, QuietStep
  <2> QED
    BY <2>4, <2>5
<1>4. ASSUME NEW b \in Builders, Finish(b) \/ Crash(b) PROVE WriteInv'
  <2>1. build'[b] = NoBuild /\ UNCHANGED << points, reported >>
    BY <1>0, <1>4 DEF Finish, Crash
  <2>2. PICK q : q = NoBuild
    OBVIOUS
  <2> QED
    BY <1>0, <2>1, <2>2, QuietStep
<1> QED
  BY <1>1, <1>2, <1>3, <1>4, LookupStep, UpsertStep, PruneStep, FailureStep
  DEF IndexNext, BuildStep, Recapture, SaveSettings, StartLoad, LoadPage, vars

LEMMA WriteInvInit == Init => WriteInv
<1> SUFFICES ASSUME Init PROVE WriteInv
  OBVIOUS
<1>1. DOMAIN points = {} /\ reported = [d \in Docs |-> None]
  BY DEF Init
<1>2. \A b \in Builders : build[b].pc = "idle"
  BY DEF Init, NoBuild
<1> QED
  BY <1>1, <1>2 DEF WriteInv, PayloadInv, Progress

LEMMA IndexInvInit ==
  LifecycleInit => BuildInv /\ PointsInv /\ ReaderInv /\ WriteInv
BY IndexInit, WriteInvInit DEF LifecycleInit

LEMMA IndexInvStep ==
  ASSUME OneBuilder
  PROVE  BuildInv /\ PointsInv /\ ReaderInv /\ WriteInv /\ [LifecycleNext]_lifecycleVars
           => BuildInv' /\ PointsInv' /\ ReaderInv' /\ WriteInv'
<1> SUFFICES ASSUME BuildInv, PointsInv, ReaderInv, WriteInv, [LifecycleNext]_lifecycleVars
             PROVE  WriteInv'
  BY IndexStep
<1>1. CASE [IndexNext]_vars
  BY <1>1, WriteInvStep
<1>2. CASE UNCHANGED << points, reported, build >>
  BY <1>2, WriteInvSame
<1> QED
  BY <1>1, <1>2 DEF LifecycleNext, lifecycleVars, Begin, End, vars

\* However many builders write at once, fail, are killed or change settings:
\* text and signature of a stored point never come apart.  Every point is one
\* that some settings, namely those its signature names, make of the version in
\* its id, although other settings make other chunks under the same id.
THEOREM PointsAreChunks == LifecycleSpec => []PayloadInv
<1>1. LifecycleInit => BuildInv /\ PointsInv /\ ReaderInv /\ PayloadInv
  BY IndexInvInit DEF WriteInv
<1>2. BuildInv /\ PayloadInv /\ [LifecycleNext]_lifecycleVars => PayloadInv'
  <2> SUFFICES ASSUME BuildInv, PayloadInv, [LifecycleNext]_lifecycleVars PROVE PayloadInv'
    OBVIOUS
  <2>1. CASE UNCHANGED points
    BY <2>1 DEF PayloadInv
  <2>2. ASSUME NEW b \in Builders, BuildStep(b) PROVE PayloadInv'
    <3>1. PICK r \in BuildRecord : r = build[b]
      BY DEF BuildInv
    <3>2. CASE Writes(b)
      <4>1. Indexing(r) /\ points' \in {points, Upserted(r), Pruned(r)}
        BY <3>1, <3>2 DEF Writes
      <4> QED
        BY <2>1, <4>1, UpsertKeepsPayloads, PruneKeepsPayloads
    <3> QED
      BY <2>1, <2>2, <3>2, WhatBuildsWrite
  <2> QED
    BY <2>1, <2>2
    DEF LifecycleNext, IndexNext, lifecycleVars, vars, Begin, End, Recapture, SaveSettings,
        StartLoad, LoadPage
<1> QED
  BY <1>1, <1>2, IndexStep, PTL DEF LifecycleSpec

\* With one builder at a time: whatever fails, is cancelled or is killed, and
\* whatever is captured or saved meanwhile, a document that a build reported as
\* processed or unchanged is in the collection as the settings of that build
\* cut it, with no text left out, until a later build changes it.
THEOREM ReportsAreTrue == ASSUME OneBuilder PROVE LifecycleSpec => []ReportIsTrue
<1>1. WriteInv => ReportIsTrue
  <2> SUFFICES ASSUME WriteInv, NEW d \in Docs, reported[d] # None
               PROVE  /\ Restrict(points, Stored(d))
                           = Expected[d][reported[d].ver][reported[d].settings]
                      /\ Whole(d, reported[d].ver)
    BY DEF ReportIsTrue
  <2>1. ReportHolds(d)
    BY DEF WriteInv
  <2>2. PICK v \in Versions, s \in Settings : v = reported[d].ver /\ s = reported[d].settings
    BY <2>1 DEF ReportHolds
  <2>3. Restrict(points, Stored(d)) = Expected[d][v][s]
    BY <2>1, <2>2 DEF ReportHolds
  <2>4. Whole(d, v)
    BY <2>3, ExpectedIsWhole
  <2> QED
    BY <2>2, <2>3, <2>4
<1> QED
  BY <1>1, IndexInvInit, IndexInvStep, PTL DEF LifecycleSpec

-----------------------------------------------------------------------------
(* A document keeps a complete version *)

\* The text of other documents is not touched.
LEMMA OthersStayIntact ==
  ASSUME NEW doc, OnlyOf(doc), NEW d \in Docs, d # doc, Intact(d)
  PROVE  Intact(d)'
<1>1. Stored(d)' = Stored(d) /\ \A id \in Stored(d) : points'[id] = points[id]
  BY DEF OnlyOf, Stored
<1>2. PICK v \in Versions : Whole(d, v)
  BY DEF Intact
<1>3. StoredVersion(d, v)' = StoredVersion(d, v)
      /\ \A id \in StoredVersion(d, v) : points'[id] = points[id]
  BY <1>1 DEF StoredVersion
<1>4. Reachable(d, v)' = Reachable(d, v)
  BY <1>3 DEF Reachable
<1>5. Whole(d, v)'
  BY <1>2, <1>4 DEF Whole
<1> QED
  BY <1>5 DEF Intact

\* Settings that cut alike make the same chunks.
LEMMA SameCuts ==
  ASSUME NEW s \in Settings, NEW t \in Settings, SameChunking(s, t), NEW v \in Versions
  PROVE  ChunksOf[v][s] = ChunksOf[v][t]
<1> DEFINE R == [strategy : {"fixed", "recursive", "structural"}, max : Nat \ {0},
                 overlap : Nat, model : DOMAIN Dimension]
<1>1. PICK a \in R, b \in R : a = Config[s] /\ b = Config[t]
  BY WindowAssumption
<1>2. [a EXCEPT !.model = None] = [b EXCEPT !.model = None]
  BY <1>1 DEF SameChunking
<1>3. [strategy |-> a.strategy, max |-> a.max, overlap |-> a.overlap, model |-> None]
        = [strategy |-> b.strategy, max |-> b.max, overlap |-> b.overlap, model |-> None]
  BY <1>2
<1>4. a.strategy = b.strategy /\ a.max = b.max /\ a.overlap = b.overlap
  BY <1>3
<1>5. Chunks(Shape[v], a) = Chunks(Shape[v], b)
  BY <1>4 DEF Chunks
<1> QED
  BY <1>1, <1>5 DEF ChunksOf

\* An upsert into a version that is cut the same way keeps its text, and it
\* does not touch the other versions.
LEMMA UpsertKeepsText ==
  ASSUME PayloadInv, NEW r \in BuildRecord, Indexing(r), points' = Upserted(r),
         \A id \in StoredVersion(r.doc, r.ver) : SameChunking(points[id].signature, r.settings),
         Intact(r.doc)
  PROVE  Intact(r.doc)'
<1>1. PICK v \in Versions : Whole(r.doc, v)
  BY DEF Intact
<1>2. /\ DOMAIN points' = DOMAIN points \cup NewIds(r)
      /\ \A id \in NewIds(r) : id.doc = r.doc /\ id.ver = r.ver
      /\ \A id \in DOMAIN points : id \notin NewIds(r) => points'[id] = points[id]
  BY NewPoints
<1>3. CASE v # r.ver
  <2>1. StoredVersion(r.doc, v)' = StoredVersion(r.doc, v)
    BY <1>2, <1>3 DEF StoredVersion, Stored
  <2>2. \A id \in StoredVersion(r.doc, v) : points'[id] = points[id]
    BY <1>2, <1>3 DEF StoredVersion, Stored
  <2>3. Reachable(r.doc, v)' = Reachable(r.doc, v)
    BY <2>1, <2>2 DEF Reachable
  <2>4. Whole(r.doc, v)'
    BY <1>1, <2>3 DEF Whole
  <2> QED
    BY <2>4 DEF Intact
<1>4. CASE v = r.ver
  <2>1. PICK c : c = ChunksOf[r.ver][r.settings]
    OBVIOUS
  <2>2. r.chunks = c /\ Covered(c) = TokensOf(DocumentSpan(Shape[v]))
    BY <1>4, <2>1, CutsCover DEF Indexing
  <2>3. ASSUME NEW id \in StoredVersion(r.doc, v)
        PROVE  id.index \in DOMAIN c /\ TokensOf(points[id]) = TokensOf(c[id.index])
               /\ id = ChunkId(r.doc, r.ver, c, id.index)
    <3>1. id \in DOMAIN points /\ id.doc = r.doc /\ id.ver = r.ver
      BY <1>4 DEF StoredVersion, Stored
    <3>2. PICK s \in Settings : /\ id \in DOMAIN Expected[r.doc][r.ver][s]
                                /\ points[id] = Expected[r.doc][r.ver][s][id]
      BY <3>1 DEF PayloadInv
    <3>3. PICK k, e : k = ChunksOf[r.ver][s] /\ e = Expected[r.doc][r.ver][s]
      OBVIOUS
    <3>4. ArePoints(e, r.doc, r.ver, k, s)
      BY <3>3, ExpectedPoints DEF Indexing
    <3>5. /\ id.index \in DOMAIN k /\ id = ChunkId(r.doc, r.ver, k, id.index)
          /\ points[id] = Payload(k[id.index], s)
      BY <3>2, <3>3, <3>4 DEF ArePoints
    <3>6. points[id] = [from |-> k[id.index].from, to |-> k[id.index].to, signature |-> s]
      BY <3>5 DEF Payload
    <3>7. SameChunking(s, r.settings)
      BY <1>4, <3>6
    <3>8. k = c
      BY <2>1, <3>3, <3>7, SameCuts DEF Indexing
    <3> QED
      BY <3>5, <3>6, <3>8 DEF TokensOf
  <2>4. ASSUME NEW id \in DOMAIN points', id.doc = r.doc, id.ver = v
        PROVE  id.index \in DOMAIN c /\ TokensOf(points'[id]) = TokensOf(c[id.index])
    <3>1. CASE id \in NewIds(r)
      <4>1. PICK i \in Batch(r) : id = ChunkId(r.doc, r.ver, c, i)
        BY <2>2, <3>1 DEF NewIds
      <4>2. i \in DOMAIN c /\ id.index = i
        BY <2>2, <4>1, ChunkIds DEF Batch
      <4>3. Indexed(r, i)'
        BY <2>2, <4>2, UpsertAdds
      <4>4. points'[id] = Payload(c[i], r.settings)
        BY <2>2, <4>1, <4>3 DEF Indexed
      <4>5. points'[id] = [from |-> c[i].from, to |-> c[i].to, signature |-> r.settings]
        BY <4>4 DEF Payload
      <4> QED
        BY <4>2, <4>5 DEF TokensOf
    <3>2. CASE id \notin NewIds(r)
      <4>1. id \in StoredVersion(r.doc, v) /\ points'[id] = points[id]
        BY <1>2, <2>4, <3>2 DEF StoredVersion, Stored
      <4> QED
        BY <2>3, <4>1
    <3> QED
      BY <3>1, <3>2
  <2>5. ASSUME NEW id \in StoredVersion(r.doc, v)
        PROVE  /\ id \in StoredVersion(r.doc, v)'
               /\ TokensOf(points'[id]) = TokensOf(points[id])
    <3>1. id \in DOMAIN points' /\ id.doc = r.doc /\ id.ver = v
      BY <1>2 DEF StoredVersion, Stored
    <3>2. TokensOf(points'[id]) = TokensOf(points[id])
      BY <2>3, <2>4, <3>1
    <3> QED
      BY <3>1, <3>2 DEF StoredVersion, Stored
  <2>6. Reachable(r.doc, v) = Covered(c)
    BY <1>1, <2>2 DEF Whole
  <2>7. ASSUME NEW x \in Covered(c) PROVE x \in Reachable(r.doc, v)'
    <3>1. PICK id \in StoredVersion(r.doc, v) : x \in TokensOf(points[id])
      BY <2>6 DEF Reachable
    <3>2. id \in StoredVersion(r.doc, v)' /\ x \in TokensOf(points'[id])
      BY <2>5, <3>1
    <3> QED
      BY <3>2 DEF Reachable
  <2>8. ASSUME NEW x \in Reachable(r.doc, v)' PROVE x \in Covered(c)
    <3>1. PICK id \in StoredVersion(r.doc, v)' : x \in TokensOf(points'[id])
      BY DEF Reachable
    <3>2. id \in DOMAIN points' /\ id.doc = r.doc /\ id.ver = v
      BY DEF StoredVersion, Stored
    <3>3. id.index \in DOMAIN c /\ x \in TokensOf(c[id.index])
      BY <2>4, <3>1, <3>2
    <3> QED
      BY <3>3 DEF Covered
  <2>9. Whole(r.doc, v)'
    BY <2>2, <2>7, <2>8 DEF Whole
  <2> QED
    BY <2>9 DEF Intact
<1> QED
  BY <1>3, <1>4

LEMMA ExpectedAreWhole ==
  \A x \in Docs, y \in Versions, z \in Settings :
    Restrict(points, Stored(x)) = Expected[x][y][z] => Whole(x, y)
BY ExpectedIsWhole

LEMMA WholeAfter ==
  ASSUME NEW d \in Docs, NEW v \in Versions, NEW s \in Settings,
         Restrict(points, Stored(d))' = Expected[d][v][s]
  PROVE  Whole(d, v)'
<1>1. (\A x \in Docs, y \in Versions, z \in Settings :
         Restrict(points, Stored(x)) = Expected[x][y][z] => Whole(x, y))'
  BY ExpectedAreWhole, PTL
<1> QED
  BY <1>1

\* One step of the builder.
LEMMA BuildKeepsText ==
  ASSUME BuildInv, PointsInv, WriteInv, NEW b \in Builders, BuildStep(b), points' # points,
         NEW d \in Docs, Intact(d), ~Rechunking(d)
  PROVE  Intact(d)'
<1>1. PICK r \in BuildRecord : r = build[b]
  BY DEF BuildInv
<1>2. CASE d # r.doc
  BY <1>1, <1>2, BuildsWriteOneDocument, OthersStayIntact
<1>3. CASE d = r.doc
  <2>1. /\ Indexing(r)
        /\ \/ r.pc = "upsert" /\ points' = Upserted(r)
           \/ r.pc = "prune" /\ points' = Pruned(r)
    <3>1. CASE UpsertBatch(b)
      BY <1>1, <3>1 DEF UpsertBatch, BuildInv, Busy
    <3>2. CASE Prune(b)
      BY <1>1, <3>2 DEF Prune, BuildInv, Busy
    <3>3. CASE IndexFails(b)
      <4>1. r.pc \in Busy /\ Indexing(r)
        BY <1>1, <3>3 DEF IndexFails, BuildInv, Busy
      <4>2. CASE r.pc = "lookup"
        BY <1>1, <3>3, <4>2 DEF IndexFails
      <4>3. CASE r.pc = "upsert"
        BY <1>1, <3>3, <4>1, <4>3 DEF IndexFails
      <4>4. CASE r.pc = "prune"
        BY <1>1, <3>3, <4>1, <4>4 DEF IndexFails
      <4> QED
        BY <4>1, <4>2, <4>3, <4>4 DEF Busy
    <3> QED
      BY <3>1, <3>2, <3>3 DEF BuildStep, Start, Ingest, Lookup, Finish, Crash
  <2>2. CASE r.pc = "upsert" /\ points' = Upserted(r)
    <3>1. \A id \in StoredVersion(r.doc, r.ver) : SameChunking(points[id].signature, r.settings)
      BY <1>1, <1>3 DEF Rechunking
    <3> QED
      BY <1>3, <2>1, <2>2, <3>1, UpsertKeepsText DEF WriteInv
  <2>3. CASE r.pc = "prune" /\ points' = Pruned(r)
    <3>1. Complete(r)
      BY <1>1, <2>3 DEF WriteInv, Progress
    <3>2. Restrict(points, Stored(r.doc))' = Expected[r.doc][r.ver][r.settings]
      BY <2>1, <2>3, <3>1, PruneCompletes
    <3>3. Whole(r.doc, r.ver)'
      BY <2>1, <3>2, WholeAfter DEF Indexing
    <3> QED
      BY <1>3, <2>1, <3>3 DEF Intact, Indexing
  <2> QED
    BY <2>1, <2>2, <2>3
<1> QED
  BY <1>2, <1>3

\* With one builder at a time: a document of which one version can be found in
\* full stays so through every request that a build makes, whatever fails in
\* between, unless chunks that were cut differently are being replaced in place.
THEOREM DocumentsStayWhole == ASSUME OneBuilder PROVE LifecycleSpec => WholeStaysWhole
<1> DEFINE Kept == points' # points =>
                     \A d \in Docs : Intact(d) /\ ~Rechunking(d) => Intact(d)'
<1>1. BuildInv /\ PointsInv /\ WriteInv /\ [LifecycleNext]_lifecycleVars => Kept
  <2> SUFFICES ASSUME BuildInv, PointsInv, WriteInv, [LifecycleNext]_lifecycleVars,
                      points' # points, NEW d \in Docs, Intact(d), ~Rechunking(d)
               PROVE  Intact(d)'
    OBVIOUS
  <2>1. PICK b \in Builders : BuildStep(b)
    BY DEF LifecycleNext, lifecycleVars, Begin, End, vars, IndexNext, Recapture, SaveSettings,
           StartLoad, LoadPage
  <2> QED
    BY <2>1, BuildKeepsText
<1>2. Kept => [Kept]_vars
  OBVIOUS
<1> QED
  BY <1>1, <1>2, IndexInvInit, IndexInvStep, PTL DEF LifecycleSpec, WholeStaysWhole
=============================================================================
