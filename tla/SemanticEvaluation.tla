------------------------ MODULE SemanticEvaluation ------------------------
(***************************************************************************)
(* The two evaluations of memories: semantic_retrieval_evaluation.py asks  *)
(* what a search returns, semantic_answer_runtime.py what is answered with *)
(* it while the sources are revoked under way.  A case is the expectation  *)
(* of it ("gold") with the records and Facts it knows; a score is the one  *)
(* the evaluation computes itself from the vectors of a call, a text       *)
(* stands for the expressions it contains, none if it is blank.            *)
(***************************************************************************)
EXTENDS Integers, Sequences, FiniteSets, SequencesExt, FiniteSetsExt

CONSTANTS
  NoText,  \* no answer
  Unset    \* no order is expected

\* The expectations as they are parsed, and what a search and an answer leave behind:
\* the places of a memory are those of its text among the ones that were embedded.
Listed(s) == s \in Seq(ToSet(s))
Parsed(gold) == Listed(gold.relevant) /\ (gold.order # Unset => Listed(gold.order))
Searched(outcome) ==
  /\ Listed(outcome.returned) /\ Listed(outcome.calls)
  /\ \A call \in ToSet(outcome.calls) : call.scores \in Seq(Int)
  /\ Len(outcome.calls) = 1 =>
       \A r \in ToSet(outcome.returned) : r.places \subseteq DOMAIN outcome.calls[1].scores
Completed(outcome) ==
  /\ Listed(outcome.selected) /\ outcome.dropped \in 0 .. Len(outcome.selected)
  /\ outcome.provider \in {"answered", "raised"}

NoRepetition(s) == Cardinality(ToSet(s)) = Len(s)
First(n, s) == {s[i] : i \in DOMAIN s \cap (1 .. n)}

\* _validate and AnswerExpectation: an expectation speaks of its own case and not against itself.
Consistent(gold) ==
  LET relevant == ToSet(gold.relevant) IN
  /\ NoRepetition(gold.relevant)
  /\ relevant \cup gold.forbidden \subseteq gold.records
  /\ relevant \cap gold.forbidden = {}
  /\ gold.requiredFacts \cup gold.forbiddenFacts \subseteq gold.facts
  /\ gold.requiredFacts \cap gold.forbiddenFacts = {}
  /\ gold.noMatch <=> relevant = {}
  /\ gold.dispatched \subseteq relevant /\ (gold.valid \/ gold.dispatched = {})
  /\ gold.order # Unset => NoRepetition(gold.order) /\ ToSet(gold.order) = relevant
  /\ gold.forbiddenTexts \cap UNION gold.requiredTexts = {}

\* expected_top_one: at most one identifier.
TopOne(gold) == First(1, IF gold.order \in {Unset, <<>>} THEN gold.relevant ELSE gold.order)

(***************************************************************************)
(* What a search returned.                                                 *)
(***************************************************************************)
Identifiers(returned) == [i \in DOMAIN returned |-> returned[i].id]
Attached(returned, ids) == UNION {ToSet(r.facts) : r \in {x \in ToSet(returned) : x.id \in ids}}

\* observe: the scores of a memory, at the places where its text was embedded.
Scores(outcome, r) == {outcome.calls[1].scores[i] : i \in r.places}

\* observe and Observation.complete: a search that fails, or whose memories are not
\* those of one embedding of the query, is no observation.
Observed(outcome) ==
  /\ ~outcome.failed
  /\ outcome.returned # <<>> =>
       /\ Len(outcome.calls) = 1 /\ outcome.calls[1].traced
       /\ \A r \in ToSet(outcome.returned) : r.places # {}
  /\ NoRepetition(Identifiers(outcome.returned))
  /\ \A r \in ToSet(outcome.returned) : NoRepetition(r.facts)

\* observe: the most memories above the threshold in any embedding.
Eligible(threshold, calls) ==
  Max({0} \cup {Quantify(DOMAIN call.scores, LAMBDA i : call.scores[i] >= threshold) :
                call \in ToSet(calls)})

\* score_case: every relevant memory is there, each required Fact with one of them.
RetrievalQuality(gold, outcome) ==
  LET ids == ToSet(Identifiers(outcome.returned)) relevant == ToSet(gold.relevant) IN
  /\ relevant \subseteq ids
  /\ gold.noMatch => ids = {}
  /\ gold.requiredFacts \subseteq Attached(outcome.returned, relevant)

\* score_case: what must not happen in any case.
RetrievalGates(setup, gold, outcome) ==
  LET ids == Identifiers(outcome.returned) IN
  /\ ToSet(ids) \cap gold.forbidden = {}
  /\ \A r \in ToSet(outcome.returned) : Min(Scores(outcome, r)) >= setup.threshold /\ r.verified
  /\ Attached(outcome.returned, ToSet(ids)) \cap gold.forbiddenFacts = {}
  /\ TopOne(gold) \subseteq First(5, ids)
  /\ outcome.valid = gold.valid
  /\ outcome.context
  /\ gold.noMatch => Eligible(setup.threshold, outcome.calls) = 0
  /\ setup.mode = "fixture" => gold.order \in {Unset, ids}

\* Nine in ten of each category.
Sufficient(cases, good) ==
  \A category \in {c.category : c \in cases} :
    LET rows == {c \in cases : c.category = category}
    IN Cardinality(rows \cap good) * 10 >= Cardinality(rows) * 9

\* aggregate_run.
RunPasses(setup, seen) ==
  /\ \A c \in setup.cases : RetrievalGates(setup, c, seen[c])
  /\ Sufficient(setup.cases, {c \in setup.cases : RetrievalQuality(c, seen[c])})

\* aggregate_run: no memory and no Fact that is not of the case.
Known(gold, outcome) ==
  LET ids == ToSet(Identifiers(outcome.returned)) IN
  ids \subseteq gold.records /\ Attached(outcome.returned, ids) \subseteq gold.facts

NoReport == [raised |-> TRUE, passed |-> FALSE, evidence |-> FALSE]

\* evaluate_retrieval and validate_report: whatever raises leaves no report; outcomes
\* has one record for each run and case, and "failed" if any part of it raised.
EvaluateRetrieval(setup, outcomes) ==
  LET cells == DOMAIN outcomes
      seen(run) == [c \in setup.cases |-> outcomes[[run |-> run, case |-> c]]]
  IN IF \/ setup.runs < 1
        \/ setup.mode = "local_model" /\ setup.fixture
        \/ \E c \in setup.cases : ~Consistent(c)
        \/ \E a \in cells : \/ ~Observed(outcomes[a])
                            \/ ~outcomes[a].sameSpace
                            \/ ~Known(a.case, outcomes[a])
     THEN NoReport
     ELSE [raised |-> FALSE,
           passed |-> \A run \in 1 .. setup.runs : RunPasses(setup, seen(run)),
           evidence |-> /\ setup.mode = "local_model"
                        /\ \E a \in cells : outcomes[a].calls # <<>>]

(***************************************************************************)
(* What is answered.                                                       *)
(***************************************************************************)

\* complete_answer: "check" is the answer of Inference.check before the dispatch and
\* after the answer, each after the revocations of its phase.
Answer(outcome) ==
  LET retained == SubSeq(outcome.selected, 1, Len(outcome.selected) - outcome.dropped)
      observed(dispatched, discarded, text) ==
        <<[ids |-> IF outcome.valid THEN retained ELSE <<>>, valid |-> outcome.valid,
           dispatched |-> dispatched, discarded |-> discarded, text |-> text,
           empty |-> retained = <<>>]>>
      revoked(check) == check = "context_revoked"
  IN IF outcome.failed THEN <<>>
     ELSE IF outcome.before # "ok"
       THEN IF revoked(outcome.before) /\ ~outcome.valid
              THEN observed(FALSE, FALSE, NoText) ELSE <<>>
     ELSE IF outcome.provider = "raised" THEN <<>>
     ELSE IF outcome.after # "ok"
       THEN IF revoked(outcome.after) THEN observed(TRUE, TRUE, NoText) ELSE <<>>
     ELSE IF outcome.choices # 1 \/ outcome.text = NoText THEN <<>>
     ELSE observed(TRUE, FALSE, outcome.text)

\* AnswerExpectation.matches_facts, for the required and for the forbidden facts.
Says(text, group) == text # NoText /\ group \cap text # {}

AnswerQuality(gold, seen) ==
  gold.behavior = "grounded" => \A group \in gold.requiredTexts : Says(seen.text, group)

\* score_answer.
AnswerGates(gold, seen) ==
  /\ ~Says(seen.text, gold.forbiddenTexts)
  /\ seen.valid = gold.valid
  /\ IF gold.valid THEN TopOne(gold) \subseteq First(5, seen.ids) ELSE seen.ids = <<>>
  /\ ToSet(seen.ids) \cap gold.forbidden = {}
  /\ seen.dispatched = gold.valid /\ seen.discarded = gold.discarded
  /\ IF gold.behavior = "blocked" THEN seen.text = NoText ELSE seen.text \notin {NoText, {}}
  /\ gold.behavior = "no_memory" => seen.empty

\* The bridge's batch and aggregate_answers: a case without an observation leaves none.
EvaluateAnswers(setup, outcomes) ==
  LET seen == [c \in setup.cases |-> Answer(outcomes[[case |-> c]])]
  IN IF \E c \in setup.cases :
          ~Consistent(c) \/ seen[c] = <<>> \/ ~NoRepetition(seen[c][1].ids)
     THEN NoReport
     ELSE [raised |-> FALSE, evidence |-> FALSE,
           passed |-> /\ \A c \in setup.cases : AnswerGates(c, seen[c][1])
                      /\ Sufficient(setup.cases,
                                    {c \in setup.cases : AnswerQuality(c, seen[c][1])})]
=============================================================================
