--------------------------- MODULE MCMemoryRecords ---------------------------
(***************************************************************************)
(* A small memory: what one conversation's turns may be made of.           *)
(***************************************************************************)
EXTENDS MemoryRecords, TLC

CONSTANTS c, i, j  \* a conversation and two record ids

User == [role |-> "user", ids |-> {}]
Says == [role |-> "assistant", ids |-> {}]

\* A plain turn, and one that waits for a confirmation.
Plain == [messages |-> <<User, Says>>, marked |-> {}, flagged |-> {}]
Flagged == [messages |-> <<User, Says>>, marked |-> {}, flagged |-> {1}]

Submissions == {Plain, Flagged}

\* A part of what the user said in the turn saved as revision r, quoted in epoch e.
Quote(r, e, p) ==
  [conversation |-> c, revision |-> r, position |-> 1, epoch |-> e,
   speaker |-> "user", part |-> p]

Empty(kind, id, version) ==
  [kind |-> kind, id |-> id, version |-> version, cites |-> {}, reasons |-> {},
   evidence |-> {}, ends |-> {}, expected |-> {}]

Episode(id, quotes) == [Empty("episode", id, 1) EXCEPT !.cites = quotes]

Reasoned(id, quotes, reasons) == [Episode(id, quotes) EXCEPT !.reasons = reasons]

Fact(id, version, quotes) ==
  [Empty("fact", id, version) EXCEPT
     !.cites = quotes, !.expected = IF version = 1 THEN {} ELSE {version - 1}]

Link(id, e, f) == [Empty("episode_fact_link", id, 1) EXCEPT !.ends = {RefOf(e), RefOf(f)}]

Derived(id, episodes) ==
  [Empty("semantic", id, 1) EXCEPT
     !.evidence = {[episode |-> RefOf(e), sources |-> SourcesOf(e.cites)] : e \in episodes}]

Direct(id, quotes) == [Empty("semantic", id, 1) EXCEPT !.cites = quotes]

First == Episode(i, {Quote(1, 0, 1)})
Second == Reasoned(j, {Quote(2, 0, 1)}, {Quote(1, 0, 2)})
Known == Fact(i, 1, {Quote(1, 0, 2)})
Better == Fact(i, 2, {Quote(2, 0, 2)})

\* Single records, records that come together, and records of a later epoch.
Batches ==
  {{First}, {Known}, {Better}, {Link(i, First, Known)},
   {Second, Link(j, Second, Better)}, {Second, Derived(i, {First, Second})},
   {First, Direct(j, {Quote(2, 0, 1)})},
   {Episode(i, {Quote(1, 1, 1)})}, {Fact(i, 1, {Quote(1, 1, 2)})},
   {Episode(j, {Quote(1, 1, 1)})}}
=============================================================================
