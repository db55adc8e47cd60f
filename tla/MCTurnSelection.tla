-------------------------- MODULE MCTurnSelection --------------------------
(***************************************************************************)
(* Every way to place the calls and the results of two ids in three turns, *)
(* and, with three ids, every chain of one call and one result per turn in *)
(* four turns.                                                             *)
(***************************************************************************)
EXTENDS TurnSelectionLoop

Ids == {"k", "l", "m"}
Pairs == {"k", "l"}

\* A turn as complete() saves it: the tool results, then the assistant message.
Turn(r, calls, results) ==
  LET answers == SelectSeq(<<"k", "l", "m">>, LAMBDA k : k \in results)
  IN  [revision |-> r,
       messages |-> [i \in 1..Len(answers) |->
                       [role |-> "tool", ids |-> {answers[i]}]]
                    \o <<[role |-> "assistant", ids |-> calls]>>]

Dense ==
  {{Turn(r, calls[r], results[r]) : r \in 1..3} :
     calls \in [1..3 -> SUBSET Pairs], results \in [1..3 -> SUBSET Pairs]}

AtMostOne(S) == {{}} \cup {{x} : x \in S}

Chains ==
  {{Turn(2 * r, calls[r], results[r]) : r \in 1..4} :
     calls \in [1..4 -> AtMostOne(Ids)], results \in [1..4 -> {{"k"}, {"l"}, {"m"}}]}

MCTables == Dense \cup Chains
MCScopes == {"selected", "following"}
=============================================================================
