------------------------- MODULE PersonaEvaluation -------------------------
(***************************************************************************)
(* The persona evaluation: persona_runtime.py runs every case of every     *)
(* entry, persona_evaluation.py turns the answers into a verdict.  An      *)
(* answer's text stands for the expressions it contains.                   *)
(***************************************************************************)
EXTENDS Naturals, Sequences, FiniteSets

CONSTANTS
  NoText,  \* an answer without text
  NoHash   \* an answer that names no card

Categories == {"self_intro", "preferences", "world_lore"}
Gates == {"persona_break", "card_hash_mismatch", "card_hash_missing", "execution_incomplete"}

\* The addresses of a setup: every entry, round and case.
Addresses(setup) ==
  [entry : setup.entries, run : 1 .. setup.runs, case : setup.cases]

\* ChatEntry.observe and HistoryEntry.observe: whatever is not one complete answer
\* with text raises.
Complete(outcome) ==
  /\ ~outcome.raises
  /\ outcome.choices = 1
  /\ outcome.finish = "stop"
  /\ outcome.text # NoText

\* The loop body of evaluate: an entry that raises leaves an ERROR.
Observed(outcome) ==
  IF Complete(outcome)
    THEN [status |-> "RUN", text |-> outcome.text, hash |-> outcome.hash]
    ELSE [status |-> "ERROR", text |-> NoText, hash |-> NoHash]

Contains(observation, expression) ==
  observation.text # NoText /\ expression \in observation.text

\* score: every required group has one of its expressions, and nothing forbidden.
Missing(case, observation) ==
  {g \in case.required : \A expression \in g : ~Contains(observation, expression)}
Matched(case, observation) ==
  {f \in case.forbidden : Contains(observation, f.text)}
ScoredPass(case, observation) ==
  /\ observation.status = "RUN"
  /\ Missing(case, observation) = {}
  /\ Matched(case, observation) = {}

\* The violations of each gate: an address, or a round whose entries disagree
\* about the card.
Violations(setup, seen) ==
  LET at(test(_)) == {a \in Addresses(setup) : test(a)}
      hashes(run) == {seen[a].hash : a \in {x \in Addresses(setup) : x.run = run}} \ {NoHash}
      broken(a) == \E f \in Matched(a.case, seen[a]) : f.gate = "persona_break"
      stopped(a) == seen[a].status # "RUN"
      unnamed(a) == seen[a].hash = NoHash
  IN [persona_break |-> at(broken),
      card_hash_missing |-> at(unnamed),
      execution_incomplete |-> at(stopped),
      card_hash_mismatch |-> {run \in 1 .. setup.runs : Cardinality(hashes(run)) > 1}]

\* summaries: nine of ten in each category of each entry and round.
PassRate(setup, seen, entry, run, category) ==
  LET cells == {a \in Addresses(setup) :
                  a.entry = entry /\ a.run = run /\ a.case.category = category}
  IN Cardinality({a \in cells : ScoredPass(a.case, seen[a])}) * 10 >= Cardinality(cells) * 9

\* Cases the entries answer and do not agree about.
Mismatches(setup, seen) ==
  {p \in (1 .. setup.runs) \X setup.cases :
    LET cells == {a \in Addresses(setup) : a.run = p[1] /\ a.case = p[2]} IN
    /\ Cardinality({ScoredPass(p[2], seen[a]) : a \in cells}) > 1
    /\ \A a \in cells : seen[a].status = "RUN"}

Aggregate(setup, seen) ==
  LET violations == Violations(setup, seen)
      mismatches == Mismatches(setup, seen)
  IN [raised |-> FALSE,
      violations |-> violations,
      mismatches |-> mismatches,
      passed |->
        /\ \A entry \in setup.entries, run \in 1 .. setup.runs, category \in Categories :
             PassRate(setup, seen, entry, run, category)
        /\ \A gate \in Gates : violations[gate] = {}
        /\ setup.mismatch = "warn" \/ mismatches = {}]

Raised ==
  [raised |-> TRUE, violations |-> <<>>, mismatches |-> {}, passed |-> FALSE]

\* evaluate: a wrong address, a changed judge or a report that is not the judge's
\* ends it without a report; the judge's tendencies are no part of the verdict.
Evaluate(setup, outcomes, judge) ==
  LET seen == [a \in Addresses(setup) |-> Observed(outcomes[a])] IN
  IF \/ setup.runs < 1
     \/ ~({"chat", "history"} \subseteq setup.entries)
     \/ setup.mismatch \notin {"warn", "gate"}
     \/ \E a \in Addresses(setup) : Complete(outcomes[a]) /\ outcomes[a].elsewhere
     \/ judge.identity # judge.identityAfter
     \/ ~judge.complete
  THEN Raised
  ELSE Aggregate(setup, seen)
=============================================================================
