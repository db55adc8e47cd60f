--------------------------- MODULE TurnSelection ---------------------------
(***************************************************************************)
(* Which whole turns one explicit turn deletion removes (turn_deletion.py, *)
(* select_turns).  Deleting a turn that holds a tool call must also delete *)
(* the turn that holds its result, and the other way round, however long   *)
(* the chain of shared call ids is.                                        *)
(*                                                                         *)
(* A message is [role, ids]: for an assistant message ids are the calls it *)
(* makes, for a tool message the one call it answers, for a user message   *)
(* there are none.  A turn is a record with at least the fields revision   *)
(* and messages.                                                           *)
(***************************************************************************)
EXTENDS Naturals, Sequences

\* Revisions of the turns in which an assistant message makes the call k.
CallTurns(turns, k) ==
  {t.revision : t \in {u \in turns : \E i \in DOMAIN u.messages :
     u.messages[i].role = "assistant" /\ k \in u.messages[i].ids}}

\* Revisions of the turns in which a tool message answers the call k.
ResultTurns(turns, k) ==
  {t.revision : t \in {u \in turns : \E i \in DOMAIN u.messages :
     u.messages[i].role = "tool" /\ k \in u.messages[i].ids}}

\* The call ids that occur in the turns at all.
IdsOf(turns) ==
  UNION {UNION {t.messages[i].ids : i \in DOMAIN t.messages} : t \in turns}

\* One group of revisions for every id that has both a call and a result.
Connections(turns) ==
  {CallTurns(turns, k) \cup ResultTurns(turns, k) :
     k \in {j \in IdsOf(turns) :
              CallTurns(turns, j) # {} /\ ResultTurns(turns, j) # {}}}

Revisions(turns) == {t.revision : t \in turns}

\* The turn itself or, with scope "following", it and every later turn.
Seed(turns, r, scope) ==
  {q \in Revisions(turns) : q = r \/ (scope = "following" /\ q > r)}

\* One pass of the loop: every group that touches the selection joins it.
Expand(groups, selected) ==
  selected \cup UNION {g \in groups : g \cap selected # {}}

\* No group is cut in two by the selection.
Whole(groups, selected) ==
  \A g \in groups : g \cap selected # {} => g \subseteq selected

\* What the loop returns: the least whole set that contains the seed.  That the
\* loop computes exactly this set is what module TurnSelectionLoop is about.
LeastWhole(groups, universe, seed) ==
  {q \in universe : \A S \in SUBSET universe :
     (seed \subseteq S /\ Whole(groups, S)) => q \in S}

Selection(turns, r, scope) ==
  LeastWhole(Connections(turns), Revisions(turns), Seed(turns, r, scope))
=============================================================================
