----------------------------- MODULE QueryRouting -----------------------------
(* What is decided about a question before anything is retrieved: its intent, *)
(* its risk, the tax year it concerns and the route it takes.  A question is  *)
(* the set of phrases it contains as whole words, the years it mentions, and  *)
(* whether it begins with a request that has nothing to do with tax.  Each    *)
(* vocabulary is represented by phrases that differ in the lists they are in. *)
EXTENDS Integers, Sequences, FiniteSets, SequencesExt

CONSTANTS Years, None

ASSUME YearsAssumption == IsFiniteSet(Years) /\ None \notin Years

-----------------------------------------------------------------------------
(* Vocabularies.                                                              *)

Intents == << "deadline", "document_required", "how_to_report", "eligibility",
              "field_explanation", "general_explanation" >>

IntentTerms(intent) ==
  CASE intent = "deadline"            -> {"deadline", "when is"}
    [] intent = "document_required"   -> {"keep receipts"}
    [] intent = "how_to_report"       -> {"which field"}
    [] intent = "eligibility"         -> {"deductible", "do i have to"}
    [] intent = "field_explanation"   -> {"what does"}
    [] intent = "general_explanation" -> {"what is"}

WeakDeadlineTerms == {"when is"}
FieldMarkers == {"field"}
ExplicitTaxScopeTerms == {"tax", "deductible"}
UnrelatedRequests == {"write a poem"}
HighRiskTerms == {"rate", "appeal"}

\* Aliases of the topics, and those that prove nothing without a fiscal phrase.
TopicAliases == {"income", "deductible", "home", "deadline", "appeal"}
AmbiguousScopeTerms == {"home", "deadline", "appeal"}

Phrases ==
  UNION {IntentTerms(i) : i \in ToSet(Intents)} \cup FieldMarkers \cup ExplicitTaxScopeTerms
    \cup UnrelatedRequests \cup HighRiskTerms \cup TopicAliases

\* A phrase that contains another one brings it along.
Saying(phrase) == IF phrase = "which field" THEN {phrase, "field"} ELSE {phrase}
Questions(most) ==
  {q \in [says : {UNION {Saying(p) : p \in said} :
                    said \in UNION {kSubset(k, Phrases) : k \in 1 .. most}},
          task : BOOLEAN, years : SUBSET Years] :
     q.task => q.says \cap UnrelatedRequests # {}}

-----------------------------------------------------------------------------
(* RuleBasedIntentClassifier and RuleBasedRiskClassifier.                     *)

ScopeTerms(q) ==
  IF q.says \cap ExplicitTaxScopeTerms # {} THEN q.says \cap ExplicitTaxScopeTerms
  ELSE (q.says \cap TopicAliases) \ AmbiguousScopeTerms

Unrelated(q) == q.says \cap UnrelatedRequests # {} /\ (ScopeTerms(q) = {} \/ q.task)

Matches(q, intent) ==
  LET terms == q.says \cap IntentTerms(intent) IN
    /\ terms # {}
    /\ intent = "deadline" => ~(terms \subseteq WeakDeadlineTerms)
    /\ intent = "field_explanation" => q.says \cap FieldMarkers # {}

\* The first intent of the list that matches; any tax question gets explained.
FirstMatch(q) ==
  LET matching == SelectSeq(Intents, LAMBDA i : Matches(q, i))
  IN  IF matching = << >> THEN "general_explanation" ELSE Head(matching)

Intent(q) ==
  CASE Unrelated(q) -> "out_of_scope"
    [] ~Unrelated(q) /\ ScopeTerms(q) = {} -> "uncertain"
    [] OTHER -> FirstMatch(q)

IntentRisk(intent) ==
  CASE intent = "general_explanation" -> "low"
    [] intent \in {"eligibility", "out_of_scope", "uncertain"} -> "high"
    [] OTHER -> "medium"

\* Phrases that make a question risky whatever its intent is.
RiskyPhrases_risksOnly == HighRiskTerms
RiskyPhrases == HighRiskTerms \cup IntentTerms("eligibility")
Risk(q) == IF q.says \cap RiskyPhrases # {} THEN "high" ELSE IntentRisk(Intent(q))

-----------------------------------------------------------------------------
(* TaxYearResolver, which no composition gives hints from a conversation or a *)
(* form: one year in the question decides and several are ambiguous.          *)

Resolve(q) ==
  [year |-> IF Cardinality(q.years) = 1 THEN CHOOSE y \in q.years : TRUE ELSE None,
   ambiguous |-> Cardinality(q.years) > 1]

\* A year supplied with the request must not contradict the question.
Conflict(resolution, supplied) ==
  /\ None \notin {supplied, resolution.year}
  /\ supplied # resolution.year
EffectiveYear(resolution, supplied) == IF supplied # None THEN supplied ELSE resolution.year

-----------------------------------------------------------------------------
(* DeterministicTaxRouter.                                                    *)

YearSensitive == ToSet(Intents) \ {"general_explanation"}
RequiresTaxYear(q) == Intent(q) \in YearSensitive \/ Risk(q) = "high"
MinimumEvidence(q) == IF Risk(q) = "high" THEN 2 ELSE 1

Route(q, year) ==
  CASE Intent(q) = "out_of_scope" -> "abstain"
    [] Intent(q) = "uncertain" -> "clarify"
    [] Intent(q) \notin {"out_of_scope", "uncertain"} ->
         IF RequiresTaxYear(q) /\ year = None THEN "clarify" ELSE "retrieve"

=============================================================================
