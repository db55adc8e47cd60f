---------------------------- MODULE MCCompletion ----------------------------
(***************************************************************************)
(* Small instances of concurrent requests.                                 *)
(***************************************************************************)
EXTENDS Completion, TLC

User == [role |-> "user", ids |-> {}]
Result(k) == [role |-> "tool", ids |-> {k}]

Body(incoming, expected) ==
  [incoming |-> incoming, marked |-> {}, flagged |-> {}, expected |-> expected]

\* Plain requests, and requests that bring a tool result.
Plain == {Body(<<User>>, r) : r \in 0 .. (MaxRevision - 1)}
Tools == Plain \cup
  {Body(<<Result(k)>>, r) : k \in Tool, r \in 1 .. (MaxRevision - 1)}

Submissions == {Stored(f, calls) : f \in Fingerprint, calls \in SUBSET Tool}

AllGranted == {Permission}
\* Everything may be withdrawn, and given back.
AnyGrants == {Permission, {}}

Symmetry ==
  Permutations(Task) \cup Permutations(Request) \cup Permutations(Answer)
    \cup Permutations(Tool)
=============================================================================
