---------------------------- MODULE PromptBudget ----------------------------
(***************************************************************************)
(* How a prompt is made to fit its token budgets (prompt_builder.py,       *)
(* PromptBuilder.build): whole units are dropped in seven stages until the *)
(* region a stage is about, and the whole prompt, fit.                     *)
(*                                                                         *)
(* A counter may return anything: with a chat template, a shorter prompt   *)
(* may cost more.  What a region costs depends on that region only, and    *)
(* the same messages cost the same again (the cache of one build).         *)
(***************************************************************************)
EXTENDS Naturals, Sequences, FiniteSets

CONSTANTS
  MaxMemory,     \* bound: ranked memories (five in the code)
  MaxTurns,      \* bound: turns of history
  LoreKeys,      \* removal keys of selected lore entries
  MaxTokens,     \* bound: what a counter may return
  MemoryFloor,   \* memory_floor
  HistoryFloor,  \* history_floor
  Budget         \* TokenBudgets; character and current_input as one region, "fixed"

Optional == {"memory", "history", "lore", "post_history"}
Region == Optional \cup {"fixed"}
Tokens == 0 .. MaxTokens

ASSUME BoundsAssumption ==
  MaxMemory \in Nat /\ MaxTurns \in Nat /\ MaxTokens \in Nat /\ LoreKeys \subseteq Nat

ASSUME FloorsAssumption == MemoryFloor \in Nat \ {0} /\ HistoryFloor \in Nat \ {0}

ASSUME BudgetAssumption == Budget \in [Region \cup {"total"} -> Nat]

VARIABLES
  memory,          \* how many memories remain; the least relevant goes first
  history,         \* the turns that remain
  lore,            \* the keys of the entries that remain
  post,            \* whether the instructions after the history remain
  completed,       \* the turns that end with an answer
  protected,       \* the last completed turn, 0 if there is none
  protectedIndex,  \* where it is, 0 if there is none
  required,        \* what the prompt costs without all that is optional
  usage,           \* what it costs now
  stage,           \* the stage of the reduction
  outcome,
  dropped,         \* how many units of each region were dropped
  (*------------------------ observability variables ----------------------*)
  forced,          \* regions of which a unit was dropped while they were over their own budget
  rose             \* the whole prompt has cost more after a drop

items == <<memory, history, lore, post>>
fixed == <<completed, protected, required>>
vars == <<items, fixed, protectedIndex, usage, stage, outcome, dropped, forced, rose>>

Cost == [Region \cup {"total"} -> Tokens]

-----------------------------------------------------------------------------
\* Mutant: the last memory is never dropped.
StageFloorOfOne ==
  <<MemoryFloor, 1, HistoryFloor, 1, IF protected = 0 THEN 0 ELSE 1, 0, 0>>

\* Mutant: lore goes before the last memories and turns.
StageRegionLoreFirst ==
  <<"memory", "memory", "history", "lore", "history", "memory", "post_history">>

\* The seven stages: what each drops, and how much of it may stay.
StageRegion ==
  <<"memory", "memory", "history", "memory", "history", "lore", "post_history">>

StageFloor ==
  <<MemoryFloor, 1, HistoryFloor, 0, IF protected = 0 THEN 0 ELSE 1, 0, 0>>

CompletedLeft == {t \in completed : \E i \in DOMAIN history : history[i] = t}

\* The turns that may go: not the protected one, and no completed one below the floor.
Removable(floor) ==
  {i \in DOMAIN history :
     /\ i # protectedIndex
     /\ history[i] \notin completed \/ Cardinality(CompletedLeft) > floor}

\* Mutant: one memory too many is dropped.
AtFloorTooLate(s) ==
  LET region == StageRegion[s]
      floor  == StageFloor[s] IN
  \/ region = "memory" /\ memory < floor
  \/ region = "history" /\ Removable(floor) = {}
  \/ region = "lore" /\ lore = {}
  \/ region = "post_history" /\ ~post

\* There is nothing more to drop in a stage.
AtFloor(s) ==
  LET region == StageRegion[s]
      floor  == StageFloor[s] IN
  \/ region = "memory" /\ memory <= floor
  \/ region = "history" /\ Removable(floor) = {}
  \/ region = "lore" /\ lore = {}
  \/ region = "post_history" /\ ~post

\* PromptBuilder._exceeded
Exceeded(cost) == \E r \in Region \cup {"total"} : cost[r] > Budget[r]

Bare == Len(history) = (IF protected = 0 THEN 0 ELSE 1)

\* What an empty region costs, and what was counted before.
Consistent(cost) ==
  /\ cost["fixed"] = required["fixed"]
  /\ memory = 0 => cost["memory"] = 0
  /\ lore = {} => cost["lore"] = 0
  /\ ~post => cost["post_history"] = 0
  /\ Bare => cost["history"] = required["history"]
  /\ Bare /\ memory = 0 /\ lore = {} /\ ~post => cost["total"] = required["total"]

Init ==
  /\ memory \in 0 .. MaxMemory
  /\ \E n \in 0 .. MaxTurns :
       /\ history = [i \in 1 .. n |-> i]
       /\ completed \in SUBSET (1 .. n)
  /\ \/ completed = {} /\ protected = 0
     \/ protected \in completed /\ \A t \in completed : t <= protected
  /\ protectedIndex = protected
  /\ lore \in SUBSET LoreKeys
  /\ post \in BOOLEAN
  /\ required \in Cost
  /\ required["memory"] = 0 /\ required["lore"] = 0 /\ required["post_history"] = 0
  /\ protected = 0 => required["history"] = 0
  /\ usage \in Cost /\ Consistent(usage)
  /\ stage = 0
  /\ outcome = "building"
  /\ dropped = [r \in Optional |-> 0]
  /\ forced = {}
  /\ rose = FALSE

-----------------------------------------------------------------------------
CheckRequired ==
  /\ stage = 0 /\ outcome = "building"
  /\ IF Exceeded(required)
     THEN outcome' = "refused" /\ UNCHANGED stage
     ELSE stage' = 1 /\ UNCHANGED outcome
  /\ UNCHANGED <<items, fixed, protectedIndex, usage, dropped, forced, rose>>

Over(region) == usage["total"] > Budget["total"] \/ usage[region] > Budget[region]

\* A stage goes on with its region.
Cuts(region) ==
  /\ stage \in 1 .. 7
  /\ StageRegion[stage] = region
  /\ Over(region)
  /\ ~AtFloor(stage)

\* After a unit was dropped the prompt is counted again.
Recount(region) ==
  /\ UNCHANGED <<fixed, stage, outcome>>
  /\ \E count, total \in Tokens :
       usage' = [usage EXCEPT ![region] = count, !["total"] = total]
  /\ Consistent(usage)'
  /\ dropped' = [dropped EXCEPT ![region] = @ + 1]
  /\ forced' = forced \cup {r \in {region} : usage[r] > Budget[r]}
  /\ rose' = (rose \/ usage'["total"] > usage["total"])

DropMemory ==
  /\ Cuts("memory")
  /\ memory' = memory - 1
  /\ UNCHANGED <<history, lore, post, protectedIndex>>
  /\ Recount("memory")

Without(seq, i) ==
  [j \in 1 .. Len(seq) - 1 |-> IF j < i THEN seq[j] ELSE seq[j + 1]]

\* Mutant: the place of the protected turn is not corrected.
DropTurnInPlace ==
  /\ Cuts("history")
  /\ \E i \in Removable(StageFloor[stage]) :
       /\ \A j \in Removable(StageFloor[stage]) : i <= j
       /\ history' = Without(history, i)
  /\ UNCHANGED <<memory, lore, post, protectedIndex>>
  /\ Recount("history")

\* The oldest turn that may go.
DropTurn ==
  /\ Cuts("history")
  /\ \E i \in Removable(StageFloor[stage]) :
       /\ \A j \in Removable(StageFloor[stage]) : i <= j
       /\ history' = Without(history, i)
       /\ protectedIndex' = IF i < protectedIndex THEN protectedIndex - 1 ELSE protectedIndex
  /\ UNCHANGED <<memory, lore, post>>
  /\ Recount("history")

DropLore ==
  /\ Cuts("lore")
  /\ \E key \in lore :
       /\ \A other \in lore : key <= other
       /\ lore' = lore \ {key}
  /\ UNCHANGED <<memory, history, post, protectedIndex>>
  /\ Recount("lore")

DropPostHistory ==
  /\ Cuts("post_history")
  /\ post' = FALSE
  /\ UNCHANGED <<memory, history, lore, protectedIndex>>
  /\ Recount("post_history")

\* The stage is over.
NextStage ==
  /\ stage \in 1 .. 7
  /\ ~Over(StageRegion[stage]) \/ AtFloor(stage)
  /\ stage' = stage + 1
  /\ UNCHANGED <<items, fixed, protectedIndex, usage, outcome, dropped, forced, rose>>

Finish ==
  /\ stage = 8 /\ outcome = "building"
  /\ outcome' = IF Exceeded(usage) THEN "refused" ELSE "built"
  /\ UNCHANGED <<items, fixed, protectedIndex, usage, stage, dropped, forced, rose>>

Next ==
  \/ CheckRequired
  \/ DropMemory \/ DropTurn \/ DropLore \/ DropPostHistory
  \/ NextStage \/ Finish

Spec == Init /\ [][Next]_vars

-----------------------------------------------------------------------------
PromptTypeOK ==
  /\ memory \in 0 .. MaxMemory
  /\ history \in Seq(1 .. MaxTurns)
  /\ lore \in SUBSET LoreKeys
  /\ post \in BOOLEAN
  /\ completed \in SUBSET (1 .. MaxTurns)
  /\ protected \in 0 .. MaxTurns
  /\ protectedIndex \in 0 .. Len(history)
  /\ required \in Cost /\ usage \in Cost
  /\ stage \in 0 .. 8
  /\ outcome \in {"building", "built", "refused"}
  /\ dropped \in [Optional -> Nat]
  /\ forced \in SUBSET Optional
  /\ rose \in BOOLEAN

\* The last completed turn is where build looks for it, whatever is dropped around it.
ProtectedStays ==
  protected # 0 =>
    protectedIndex \in DOMAIN history /\ history[protectedIndex] = protected

\* A build is refused only if what is required does not fit, unless the counter charges
\* more for less: no order of stages leaves a region or the whole over its budget.
RefusesOnlyRequired ==
  outcome = "refused" => Exceeded(required) \/ rose

\* "A total overflow follows the complete global priority order": what is dropped for the
\* sake of the whole is dropped after everything that goes before it.
DropsInOrder ==
  ~rose =>
    /\ dropped["history"] > 0 /\ "history" \notin forced => memory <= 1
    /\ dropped["memory"] > 0 /\ memory = 0 /\ "memory" \notin forced =>
         Removable(HistoryFloor) = {}
    /\ dropped["lore"] > 0 /\ "lore" \notin forced => memory = 0 /\ Bare
    /\ dropped["post_history"] > 0 /\ "post_history" \notin forced =>
         memory = 0 /\ Bare /\ lore = {}
===============================================================================
