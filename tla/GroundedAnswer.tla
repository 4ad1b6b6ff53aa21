---------------------------- MODULE GroundedAnswer ----------------------------
(* One request through the API: /v1/query, which GroundedRagService answers,  *)
(* or /v1/retrieve, which stops at the evidence.  Retrieval, the reranker and *)
(* the generator are outside services: they may fail, and the generator may   *)
(* reply anything.                                                            *)
EXTENDS QueryRouting, Retrieval

CONSTANTS
  MaxPhrases,       \* phrases a question is made of
  Limits,           \* limits a request may ask for
  CandidateLimit,   \* pool the reranker sees
  Replies           \* citations the generator may write

ASSUME LimitsAssumption == Limits \subseteq Nat \ {0} /\ CandidateLimit \in Nat \ {0}
ASSUME NoneAssumption == None # "answered"

VARIABLE request
vars == request

\* What the later steps read of a question once it is routed, and what the
\* properties need to know of it.
Facts(q) == [years |-> q.years,
             risky |-> q.says \cap (HighRiskTerms \cup IntentTerms("eligibility")) # {}]

Nothing == [pc |-> "asked", endpoint |-> None, question |-> None, supplied |-> None, year |-> None,
            minimum |-> 1, limit |-> None, mode |-> None, dense |-> << >>, sparse |-> << >>,
            results |-> << >>, found |-> {}, context |-> << >>, answer |-> None, status |-> None]

Asked(endpoint, question, year) ==
  [Nothing EXCEPT !.endpoint = endpoint, !.question = question, !.supplied = year]
Init ==
  \E year \in Years \cup {None} :
    \/ \E q \in Questions(MaxPhrases) : request = Asked("query", q, year)
    \/ \E q \in Questions(1) : request = Asked("retrieve", q, year)

\* An outcome: nothing but the result and what the properties compare it with.
End(status) ==
  request' = [request EXCEPT !.pc = "done", !.status = status, !.dense = << >>, !.sparse = << >>,
                             !.results = << >>]
\* The service gives up with a canonical answer, which claims no more than a year.
Abstain(year) ==
  request' = [request EXCEPT !.pc = "done", !.status = "abstained",
                             !.answer = [year |-> year, citations |-> << >>, gaveUp |-> TRUE],
                             !.dense = << >>, !.sparse = << >>, !.results = << >>]

-----------------------------------------------------------------------------
\* GroundedRagService.answer up to retrieval: an ambiguous question is asked
\* back first, a contradiction is refused, and the route decides the rest.
Refuses_never(resolution, supplied) == FALSE
Refuses(resolution, supplied) == Conflict(resolution, supplied)

Understand ==
  /\ request.pc = "asked" /\ request.endpoint = "query"
  /\ LET q == request.question
         resolution == Resolve(q)
         year == EffectiveYear(resolution, request.supplied)
     IN  CASE resolution.ambiguous -> End("clarification_required")
           [] ~resolution.ambiguous /\ Refuses(resolution, request.supplied) -> End("refused")
           [] OTHER ->
                CASE Route(q, year) = "clarify"  -> End("clarification_required")
                  [] Route(q, year) = "abstain"  -> Abstain(year)
                  [] Route(q, year) = "retrieve" ->
                       request' = [request EXCEPT !.pc = "retrieving", !.year = year,
                         !.supplied = year, !.minimum = MinimumEvidence(q), !.question = Facts(q)]

\* The inspector retrieves whatever it is asked.
Inspect ==
  /\ request.pc = "asked" /\ request.endpoint = "retrieve"
  /\ request' = [request EXCEPT !.pc = "retrieving", !.question = Facts(request.question)]

-----------------------------------------------------------------------------
\* An exception of the retrieval layers: the service turns those it expects
\* into a failed result, the inspector maps each to a status of its own.
RetrievalRaises(error) ==
  End(CASE error \in {"temporal", "cross_year"} /\ request.endpoint = "retrieve" -> error
        [] error = "value" -> "refused"
        [] OTHER -> "failed")

\* TaxYearAwareRetriever resolves the year again, on its own.
ResolveAgain ==
  /\ request.pc = "retrieving"
  /\ LET resolution == Resolve(request.question) IN
       IF resolution.ambiguous \/ Conflict(resolution, request.supplied)
       THEN RetrievalRaises("temporal")
       ELSE request' = [request EXCEPT !.pc = "searching",
                                       !.year = EffectiveYear(resolution, request.supplied)]

\* RetrievalFilter on the tax year.
Filter(year) == IF year = None THEN {Chunk[c].year : c \in ChunkIds} ELSE {year}

Modes == {"dense", "sparse", "hybrid", "reranked"}

\* The searches of a mode.  What limit they are given depends on the mode.
SearchLimit(mode, limit) ==
  CASE mode = "hybrid" -> HybridCandidates(limit)
    [] mode = "reranked" -> HybridCandidates(CandidateLimit)
    [] OTHER -> limit

Search(mode, limit) ==
  /\ request.pc = "searching"
  /\ mode = "reranked" => limit <= CandidateLimit
  /\ \E obeys \in BOOLEAN :
     \E dense \in IF mode = "sparse" THEN {<< >>}
                  ELSE DenseRankings(Filter(request.year), SearchLimit(mode, limit), obeys),
        sparse \in IF mode = "dense" THEN {<< >>}
                   ELSE SparseRankings(Filter(request.year), SearchLimit(mode, limit)) :
       request' = [request EXCEPT !.pc = "ranking", !.dense = dense, !.sparse = sparse,
                     !.mode = mode, !.limit = limit,
                     !.found = ToSet(dense) \cup ToSet(sparse)]

\* A service is unavailable or answers nonsense; a limit above the candidate
\* pool of the reranker is refused.
SearchFails ==
  /\ request.pc = "searching"
  /\ \E error \in {"unavailable", "value"} : RetrievalRaises(error)

Ranked(limit) ==
  LET fused == Fused(<< request.dense, request.sparse >>,
                     IF request.mode = "reranked" THEN CandidateLimit ELSE limit)
  IN  IF request.mode = "reranked" THEN Reranked(fused, limit) ELSE {fused}

EnsureTaxYear(results, year) ==
  year # None => \A c \in ToSet(results) : Chunk[c].year = year

\* The results leave the retriever only if all are of the year asked for.
Rank ==
  /\ request.pc = "ranking"
  /\ \E results \in Ranked(request.limit) :
       IF ~EnsureTaxYear(results, request.year) THEN RetrievalRaises("cross_year")
       ELSE IF request.endpoint = "retrieve"
            THEN request' = [request EXCEPT !.pc = "done", !.status = "retrieved",
                                            !.context = results, !.dense = << >>, !.sparse = << >>]
            ELSE request' = [request EXCEPT !.pc = "selecting", !.results = results,
                                            !.dense = << >>, !.sparse = << >>,
                                            !.mode = None, !.limit = None]

-----------------------------------------------------------------------------
\* The context is built and must hold the evidence the route asks for.
TooLittle(context) == Len(context) < request.minimum
Select ==
  /\ request.pc = "selecting"
  /\ LET context == Context(Safe(request.results)) IN
       request' = [request EXCEPT
         !.context = context, !.results = << >>,
         !.pc     = IF TooLittle(context) THEN "done" ELSE "generating",
         !.status = IF TooLittle(context) THEN "abstained" ELSE None,
         !.answer = IF TooLittle(context)
                    THEN [year |-> request.year, citations |-> << >>, gaveUp |-> TRUE] ELSE None]

\* Citations are numbered by the place of the evidence in the context.
Exact(citation, context) ==
  /\ citation.id \in DOMAIN context
  /\ citation.chunk = context[citation.id]
  /\ citation.exact
NoRepeat(values) == Cardinality(ToSet(values)) = Len(values)
CitedChunks(answer) == [i \in DOMAIN answer.citations |-> answer.citations[i].chunk]

Valid_numbersOnly(answer) ==
  /\ answer.gaveUp \/ answer.citations # << >>
  /\ \A i \in DOMAIN answer.citations : answer.citations[i].id \in DOMAIN request.context
Valid(answer) ==
  /\ answer.gaveUp \/ answer.citations # << >>
  /\ request.year # None => answer.year = request.year
  /\ \A i \in DOMAIN answer.citations :
       /\ Exact(answer.citations[i], request.context)
       /\ answer.year # None => Chunk[answer.citations[i].chunk].year = answer.year
  /\ NoRepeat(CitedChunks(answer))

\* RagAnswer refuses repeated citation numbers.
Parses(citations) == NoRepeat([i \in DOMAIN citations |-> citations[i].id])

\* A reply without citations, with low confidence and a reason counts as an
\* abstention of the model; what does not validate is never shown.
Generate(citations, year, unsure) ==
  /\ request.pc = "generating"
  /\ LET answer == [year |-> year, citations |-> citations,
                    gaveUp |-> citations = << >> /\ unsure]
     IN  IF ~Parses(citations) THEN End("failed")
         ELSE IF ~Valid(answer) THEN Abstain(answer.year)
         ELSE IF answer.gaveUp THEN Abstain(request.year)
         ELSE request' = [request EXCEPT !.pc = "done", !.status = "answered", !.answer = answer]

\* The generator is unavailable, or its reply is not an answer at all.
GenerateFails == request.pc = "generating" /\ End("failed")

-----------------------------------------------------------------------------
Next ==
  \/ Understand \/ Inspect
  \/ ResolveAgain
  \/ \E mode \in Modes, limit \in Limits : Search(mode, limit)
  \/ SearchFails \/ Rank
  \/ Select
  \/ \E citations \in Replies, year \in Years \cup {None}, unsure \in BOOLEAN :
       Generate(citations, year, unsure)
  \/ GenerateFails
Spec == Init /\ [][Next]_vars

-----------------------------------------------------------------------------
\* An answer only says what it can show: each citation names, exactly, one
\* piece of the evidence the generator was given, which a retriever found for
\* this question and which carries no instructions; and evidence and answer are
\* of the year the question or the request settled
\* (generation/validation.py:28-75, retrieval/temporal.py:63, context/builder.py:59).
AnswersAreGrounded ==
  request.status = "answered" =>
    /\ request.answer.citations # << >> /\ NoRepeat(CitedChunks(request.answer))
    /\ \A i \in DOMAIN request.answer.citations : Exact(request.answer.citations[i], request.context)
    /\ \A c \in ToSet(request.context) : c \in request.found /\ ~Chunk[c].instructs
    /\ request.question.years # {} => request.question.years = {request.year}
    /\ request.year # None =>
         /\ request.answer.year = request.year
         /\ \A c \in ToSet(request.context) : Chunk[c].year = request.year

\* A question with a high-risk subject or an eligibility phrase is answered
\* only for one year and from two pieces of evidence, whichever intent its
\* other phrases give it (query/risk.py:103-121, rules/routing.py:102-132).
RiskyAnswersAreDated ==
  (request.status = "answered" /\ request.question.risky) =>
    /\ request.year # None
    /\ Cardinality({c \in ToSet(request.context) : Chunk[c].year = request.year}) >= 2

\* The fused ranking respects both rankings, and at the cut as well: it repeats
\* nothing, fills the limit, and a chunk that is found in places at least as good
\* comes first, whichever retriever gave it which place
\* (retrieval/fusion.py:14-28, hybrid.py:26-43).
Place(c, ranking) == IF c \in ToSet(ranking) THEN RankIn(c, ranking) ELSE Longest + 1
Better(c, d) ==
  LET places(e) == << Place(e, request.dense), Place(e, request.sparse) >> IN
    \E other \in {<< 1, 2 >>, << 2, 1 >>} :
      /\ \A i \in 1 .. 2 : places(c)[i] <= places(d)[other[i]]
      /\ \E i \in 1 .. 2 : places(c)[i] < places(d)[other[i]]
FusionRespectsRankings ==
  (request.pc = "ranking" /\ request.mode = "hybrid") =>
    LET fused == Fused(<< request.dense, request.sparse >>, request.limit) IN
      /\ NoRepeat(fused)
      /\ Len(fused) = Min({request.limit, Cardinality(request.found)})
      /\ \A d \in ToSet(fused), c \in request.found :
           Better(c, d) => c \in ToSet(fused) /\ RankIn(c, fused) < RankIn(d, fused)

\* The context keeps the order of the results, within the token budget and the
\* share of each document, and leaves out nothing that would still fit
\* (context/builder.py:48-75).
ContextIsMaximal ==
  request.pc = "selecting" =>
    LET context == Context(Safe(request.results)) IN
      /\ ToSet(context) \subseteq ToSet(request.results)
      /\ \A i, j \in DOMAIN context :
           i < j => RankIn(context[i], request.results) < RankIn(context[j], request.results)
      /\ TokensIn(context) <= MaxTokens
      /\ \A c \in ToSet(context) : Cardinality(FromDocument(context, c)) <= MaxPerDocument
      /\ \A c \in ToSet(Safe(request.results)) : ~Fits(context, c)

\* The service and the retriever resolve the year of a question each on its
\* own; they never disagree, so no routed question fails for its year
\* (generation/service.py:125-150, retrieval/temporal.py:35-56).
LayersAgree ==
  (request.endpoint = "query" /\ request.pc = "retrieving") =>
    LET resolution == Resolve(request.question) IN
      /\ ~resolution.ambiguous /\ ~Conflict(resolution, request.supplied)
      /\ EffectiveYear(resolution, request.supplied) = request.year

=============================================================================
