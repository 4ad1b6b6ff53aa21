------------------------------ MODULE Retrieval -------------------------------
(* How evidence is found and selected: dense and sparse rankings, their       *)
(* fusion, the reranker, and the bounded context built from the result.       *)
(* Scores are data of models outside the program: a search may return its     *)
(* matches in any order.                                                      *)
EXTENDS Integers, Sequences, FiniteSets, SequencesExt

CONSTANTS
  Chunk,            \* chunk id -> document, year, tokens, whether it carries instructions
  FusionK,          \* fusion_k
  CandidateFloor,   \* candidates a hybrid search asks for at least
  MaxTokens, MaxPerDocument

ChunkIds == DOMAIN Chunk

ASSUME ChunksAssumption == IsFiniteSet(ChunkIds) /\ \A c \in ChunkIds : Chunk[c].tokens \in Nat
ASSUME FusionAssumption == FusionK \in Nat /\ CandidateFloor \in Nat
ASSUME BudgetAssumption == MaxTokens \in Nat \ {0} /\ MaxPerDocument \in Nat \ {0}

-----------------------------------------------------------------------------
(* Rankings.                                                                  *)

FirstOf(ranking, n) == SubSeq(ranking, 1, Min({n, Len(ranking)}))
Matching(years) == {c \in ChunkIds : Chunk[c].year \in years}

\* Any set of chunks may be indexed, and only those with a positive score are
\* ranked.  A store that ignores the filter may return chunks of any year.
Rankings(chunks, limit) == {r \in SetToAllKPermutations(chunks) : Len(r) <= limit}
DenseRankings(years, limit, obeys) ==
  Rankings(IF obeys THEN Matching(years) ELSE ChunkIds, limit)
SparseRankings(years, limit) == Rankings(Matching(years), limit)

\* Every reranker orders all its candidates by their new scores and cuts.
Reranked(candidates, limit) ==
  {FirstOf(r, limit) : r \in SetToSeqs(ToSet(candidates))}

-----------------------------------------------------------------------------
(* Reciprocal-rank fusion.  1 / (k + rank) is kept as an integer multiple of  *)
(* a fraction all ranks have in common.                                       *)

Longest == Cardinality(ChunkIds)
Times(product, rank) == product * (FusionK + rank)
CommonMultiple == FoldLeft(Times, 1, [r \in 1 .. Longest |-> r])
Weight(rank) == CommonMultiple \div (FusionK + rank)

RankIn(c, ranking) == CHOOSE i \in DOMAIN ranking : ranking[i] = c
Share(c, ranking) == IF c \in ToSet(ranking) THEN Weight(RankIn(c, ranking)) ELSE 0
Plus(sum, n) == sum + n
Score(c, rankings) == FoldLeft(Plus, 0, [i \in DOMAIN rankings |-> Share(c, rankings[i])])

\* Equal scores keep the order in which the chunks were met.
Meet(met, c) == IF c \in ToSet(met) THEN met ELSE Append(met, c)
Met(rankings) == FoldLeft(Meet, << >>, FlattenSeq(rankings))
Before(c, d, met, rankings) ==
  \/ Score(c, rankings) > Score(d, rankings)
  \/ Score(c, rankings) = Score(d, rankings) /\ RankIn(c, met) < RankIn(d, met)
Ordered(met, rankings) ==
  CHOOSE order \in SetToSeqs(ToSet(met)) :
    \A i, j \in DOMAIN order : i < j => Before(order[i], order[j], met, rankings)

Fused_cutFirst(rankings, limit) == Ordered(FirstOf(Met(rankings), limit), rankings)
Fused(rankings, limit) == FirstOf(Ordered(Met(rankings), rankings), limit)

HybridCandidates(limit) == Max({limit, CandidateFloor})

-----------------------------------------------------------------------------
(* ContextBuilder: ranked evidence that fits the budget and the share of its  *)
(* document.  What does not fit is left out, not cut.                         *)

KeepSafe(safe, c) == IF Chunk[c].instructs THEN safe ELSE Append(safe, c)
Safe(results) == FoldLeft(KeepSafe, << >>, results)

AddTokens(sum, c) == sum + Chunk[c].tokens
TokensIn(context) == FoldLeft(AddTokens, 0, context)
FromDocument(context, c) == {d \in ToSet(context) : Chunk[d].doc = Chunk[c].doc}
Fits(context, c) ==
  /\ c \notin ToSet(context)
  /\ Cardinality(FromDocument(context, c)) < MaxPerDocument
  /\ TokensIn(context) + Chunk[c].tokens <= MaxTokens

Context_firstGap(results) ==
  FoldLeft(LAMBDA state, c :
             IF state.open /\ Fits(state.kept, c)
             THEN [state EXCEPT !.kept = Append(@, c)] ELSE [state EXCEPT !.open = FALSE],
           [kept |-> << >>, open |-> TRUE], results).kept
AddFitting(context, c) == IF Fits(context, c) THEN Append(context, c) ELSE context
Context(results) == FoldLeft(AddFitting, << >>, results)

=============================================================================
