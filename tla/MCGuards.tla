------------------------------- MODULE MCGuards -------------------------------
(***************************************************************************)
(* One request, and up to MaxChanges changes while it waits.               *)
(***************************************************************************)
EXTENDS Guards, TLC

Levels == {{"local"}, {"local", "memory"}, {"external", "memory"},
           {"local", "external", "memory"}}

Symmetry == Permutations(Policy) \cup Permutations(Memory) \cup Permutations(Retrieval)
===============================================================================
