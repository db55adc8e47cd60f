--------------------------- MODULE MCHistoryStore ---------------------------
(***************************************************************************)
(* A small history: the kinds of turn that differ in what they may leak.   *)
(***************************************************************************)
EXTENDS HistoryStore, TLC

User == [role |-> "user", ids |-> {}]
Says == [role |-> "assistant", ids |-> {}]
Calls(k) == [role |-> "assistant", ids |-> {k}]
Result(k) == [role |-> "tool", ids |-> {k}]

Plain(messages) == [messages |-> messages, marked |-> {}, flagged |-> {}]

\* A plain turn, one the caller excludes, and one held for a confirmation.
Memories ==
  {Plain(<<User, Says>>),
   [messages |-> <<User, Says>>, marked |-> {1}, flagged |-> {}],
   [messages |-> <<User, User, Says>>, marked |-> {}, flagged |-> {1}]}

\* Turns whose only difference is what the provider answered.
Turns == {Plain(<<User, Says>>)}

\* A tool call and its result, in two turns.
Pair == {Plain(<<User, Calls(k)>>) : k \in Tool} \cup
        {Plain(<<Result(k), Says>>) : k \in Tool}

Symmetry ==
  Permutations(Conversation) \cup Permutations(Request) \cup Permutations(Fingerprint) \cup Permutations(Answer)
=============================================================================
