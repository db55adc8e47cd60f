------------------------- MODULE TurnSelectionLoop -------------------------
(***************************************************************************)
(* The while loop of select_turns, one pass per step, for every table of   *)
(* turns, every chosen turn and both scopes.                               *)
(***************************************************************************)
EXTENDS TurnSelection, FiniteSets

CONSTANTS
  Tables,   \* the sets of turns the function may be called with
  Scopes    \* "selected" and "following"

VARIABLES
  table,    \* argument turns: the stored turns of the conversation
  reach,    \* argument scope: how far the deletion reaches
  chosen,   \* argument: the revision the user picked
  selected, \* the loop's variable
  returned  \* the function has returned selected

loopVars == <<table, reach, chosen, selected, returned>>
arguments == <<table, reach, chosen>>

ASSUME TablesAssumption ==
  /\ \A turns \in Tables : \A t \in turns : t.revision \in Nat
  /\ Scopes \subseteq {"selected", "following"}

LoopInit ==
  /\ table \in Tables
  /\ reach \in Scopes
  /\ chosen \in Revisions(table)
  /\ selected = Seed(table, chosen, reach)
  /\ returned = FALSE

\* expanded # selected: go round again.
Pass ==
  /\ ~returned
  /\ Expand(Connections(table), selected) # selected
  /\ selected' = Expand(Connections(table), selected)
  /\ UNCHANGED <<arguments, returned>>

\* Mutant: the loop body runs once only.
ReturnAtOnce ==
  /\ ~returned
  /\ returned' = TRUE
  /\ UNCHANGED <<arguments, selected>>

\* Mutant: the result is compared with the initial selection.
ReturnIfSeed ==
  /\ ~returned
  /\ Expand(Connections(table), selected) = Seed(table, chosen, reach)
  /\ returned' = TRUE
  /\ UNCHANGED <<arguments, selected>>

\* expanded = selected: return it.
ReturnSelected ==
  /\ ~returned
  /\ Expand(Connections(table), selected) = selected
  /\ returned' = TRUE
  /\ UNCHANGED <<arguments, selected>>

LoopNext == Pass \/ ReturnSelected

\* The loop runs without interruption, so a pass that can be made is made.
LoopSpec == LoopInit /\ [][LoopNext]_loopVars /\ WF_loopVars(LoopNext)

-----------------------------------------------------------------------------
\* The returned selection is the least one that contains the chosen turns and
\* never separates a tool call from its result.
ReturnsLeastWhole == returned => selected = Selection(table, chosen, reach)

\* The loop ends: select_turns cannot hang on a cyclic chain of call ids.
LoopEnds == <>returned
=============================================================================
