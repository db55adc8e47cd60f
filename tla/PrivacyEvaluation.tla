------------------------- MODULE PrivacyEvaluation -------------------------
(***************************************************************************)
(* The evaluation of the privacy classifier: the loop of                   *)
(* privacy_classifier_runtime.py and the rounds of                         *)
(* privacy_classifier_evaluation.py.                                       *)
(***************************************************************************)
EXTENDS PrivacyScan, FiniteSets, Integers

Groups == {"HEALTH", "MENTAL_STATE", "SELF_HARM", "ABUSE", "FINANCIAL", "NONE"}

\* What a call of the classifier comes to.
Reply(reply) ==
  /\ reply.outcome \in {"crashed", "timeout", "raised", "answered"}
  /\ reply.content.form \in {"none", "malformed", "repeated", "json"}

\* One call of the classifier that raises leaves a failure.
Observe(case, run, reply) ==
  [run |-> run, id |-> case.id,
   result |-> IF reply.outcome = "crashed" THEN Unassessed("provider_exception")
              ELSE Assess(Text(case.text), 0, TRUE, reply)]

Definite(case) == IF case.sensitive THEN "SENSITIVE" ELSE "NOT_SENSITIVE"

\* score.
Correct(case, result, abstain) ==
  /\ result.failure = "none"
  /\ result.assessment.classification \in {Definite(case), "ABSTAIN"}
  /\ IF result.assessment.classification = "ABSTAIN"
       THEN abstain # "reject"
       ELSE /\ result.assessment.subject = case.subject
            /\ result.assessment.category \in case.categories

Accurate(correct, total) == total > 0 /\ correct * 10 >= total * 9

\* The observations of a case in a round; by_id holds it when there is just one.
RowsOf(rows, run, id) == {i \in DOMAIN rows : rows[i].run = run /\ rows[i].id = id}
Single(rows, run, id) == Cardinality(RowsOf(rows, run, id)) = 1
ResultOf(rows, run, id) == rows[CHOOSE i \in RowsOf(rows, run, id) : TRUE].result

FailureGate(failure) ==
  CASE failure \in {"invalid_response", "invalid_json", "invalid_assessment"} -> "invalid_output"
    [] failure = "timeout" -> "timeout"
    [] OTHER -> "execution_incomplete"

\* The gates a case violates in a round.
CaseGates(case, rows, run) ==
  IF ~Single(rows, run, case.id) THEN {"execution_incomplete"}
  ELSE LET result == ResultOf(rows, run, case.id) IN
       IF result.failure # "none" THEN {FailureGate(result.failure)}
       ELSE IF case.sensitive /\ result.assessment.classification = "NOT_SENSITIVE"
         THEN {"false_negative"} ELSE {}

Abstained(rows, run, id) ==
  /\ Single(rows, run, id)
  /\ ResultOf(rows, run, id).failure = "none"
  /\ ResultOf(rows, run, id).assessment.classification = "ABSTAIN"

\* The reasons for which a round fails.
RoundReasons(setup, rows, run) ==
  LET right(case) == Single(rows, run, case.id)
                       /\ Correct(case, ResultOf(rows, run, case.id), setup.abstain)
      group(g) == {c \in setup.cases : c.group = g}
      abstained == {c \in setup.cases : Abstained(rows, run, c.id)}
      unknown == {i \in DOMAIN rows : rows[i].run = run
                                       /\ rows[i].id \notin {c.id : c \in setup.cases}}
  IN {g \in Groups : ~Accurate(Cardinality({c \in group(g) : right(c)}), Cardinality(group(g)))}
       \cup (UNION {CaseGates(c, rows, run) : c \in setup.cases})
       \cup (IF unknown # {} THEN {"execution_incomplete"} ELSE {})
       \cup (IF setup.abstain = "separate"
                  /\ Cardinality(abstained) * 10 >= Cardinality(setup.cases)
               THEN {"abstain_rate"} ELSE {})

\* Other rounds cannot offset a failed one.
Aggregate(setup, rows) ==
  LET rounds == [run \in 1 .. setup.runs |-> RoundReasons(setup, rows, run)]
      extra == {i \in DOMAIN rows : rows[i].run > setup.runs}
  IN [rounds |-> rounds,
      passed |-> extra = {} /\ \A run \in 1 .. setup.runs : rounds[run] = {}]

\* evaluate: every case of every round, one after the other.
Rows(setup, replies) ==
  LET count == Len(setup.order)
      cell(i) == [run |-> 1 + ((i - 1) \div count),
                  case |-> setup.order[1 + ((i - 1) % count)]]
  IN [i \in 1 .. (setup.runs * count) |->
       Observe(cell(i).case, cell(i).run, replies[cell(i)])]
=============================================================================
