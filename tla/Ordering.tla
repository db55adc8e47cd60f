------------------------------ MODULE Ordering ------------------------------
(***************************************************************************)
(* Sorting.  An order is the set of the pairs of which the first comes     *)
(* first.                                                                  *)
(***************************************************************************)
EXTENDS Naturals, FiniteSets

Before(S, R, x) == {y \in S : <<y, x>> \in R}

\* sorted(): at each place the element that as many others precede.
Sorted(S, R) ==
  [k \in 1 .. Cardinality(S) |-> CHOOSE x \in S : Cardinality(Before(S, R, x)) = k - 1]
=============================================================================
