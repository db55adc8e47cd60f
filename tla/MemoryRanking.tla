--------------------------- MODULE MemoryRanking ---------------------------
(***************************************************************************)
(* rank_records of memory_ranking.py.  A direction is a point of a line,   *)
(* the squared distance of two unit vectors grows with their distance, and *)
(* the relevance 1 / (1 + distance) is Top less that distance: the ranking *)
(* only compares relevances with each other, a threshold and a margin.     *)
(***************************************************************************)
EXTENDS LocalEmbedding, Integers, Ordering

CONSTANTS
  Top,      \* the relevance of a memory that equals the query
  Unnamed   \* a memory the user never mentioned

\* RetrievalCandidate, as many as are read: no two have the same identifier.
Candidates(records) ==
  /\ Listed(records)
  /\ \A i \in DOMAIN records :
       /\ records[i].identifier \in Int /\ records[i].created \in Int
       /\ records[i].mentioned \in Int \cup {Unnamed}
  /\ \A i, j \in DOMAIN records : records[i].identifier = records[j].identifier => i = j

\* validate_retrieval_policy.
Acceptable(policy) ==
  /\ policy.max \in 1 .. 16
  /\ policy.pool \in policy.max .. 1000
  /\ policy.threshold \in 0 .. Top /\ policy.margin \in 0 .. Top

\* _unit_vector drops the length; relevance of one unit vector to another.
Relevance(query, vector) ==
  Top - (IF query.direction > vector.direction
           THEN query.direction - vector.direction
           ELSE vector.direction - query.direction)

\* tie: mentioned before never mentioned, then the later, then the newer, then
\* the smaller identifier.
Wins(a, b) ==
  LET named(r) == r.mentioned # Unnamed IN
  \/ named(a) /\ ~named(b)
  \/ /\ named(a) <=> named(b)
     /\ \/ named(a) /\ named(b) /\ a.mentioned > b.mentioned
        \/ /\ a.mentioned = b.mentioned
           /\ \/ a.created > b.created
              \/ a.created = b.created /\ a.identifier < b.identifier

\* sorted(band, key=tie): equal keys keep their order.
TieOrder(records, band) ==
  {p \in (DOMAIN band) \X (DOMAIN band) :
    LET a == records[band[p[1]]] b == records[band[p[2]]] IN
    Wins(a, b) \/ (~Wins(b, a) /\ p[1] < p[2])}

ByTie(records, band) ==
  LET order == Sorted(DOMAIN band, TieOrder(records, band))
  IN [k \in DOMAIN band |-> band[order[k]]]

\* The nearest first, equals in their order.
Nearness(relevance) ==
  {p \in (DOMAIN relevance) \X (DOMAIN relevance) :
    \/ relevance[p[1]] > relevance[p[2]]
    \/ relevance[p[1]] = relevance[p[2]] /\ p[1] < p[2]}

\* The candidate_pool_size nearest.
Pool(relevance, policy) ==
  {i \in DOMAIN relevance :
    Cardinality(Before(DOMAIN relevance, Nearness(relevance), i)) < policy.pool}

\* Those of them that are near enough, the nearest first.
Relevant(relevance, policy) ==
  Sorted({i \in Pool(relevance, policy) : relevance[i] >= policy.threshold},
         Nearness(relevance))

\* Mutant: a band is measured from its last member, so it can drift.
PlaceFromLast(records, relevance, policy, state, i) ==
  IF state.band # <<>> /\ state.leader - relevance[i] > policy.margin
    THEN [ranked |-> state.ranked \o ByTie(records, state.band),
          band |-> <<i>>, leader |-> relevance[i]]
    ELSE [state EXCEPT !.band = Append(@, i), !.leader = relevance[i]]

\* One turn of the loop over the relevant records: the next band begins with
\* the first record that is more than the margin behind the leader of the last.
Place(records, relevance, policy, state, i) ==
  IF state.band # <<>> /\ state.leader - relevance[i] > policy.margin
    THEN [ranked |-> state.ranked \o ByTie(records, state.band),
          band |-> <<i>>, leader |-> relevance[i]]
    ELSE [state EXCEPT !.band = Append(@, i),
                       !.leader = IF state.band = <<>> THEN relevance[i] ELSE @]

\* The loop, turn by turn.
Banded(records, relevance, policy, relevant) ==
  LET after[n \in 0 .. Len(relevant)] ==
        IF n = 0 THEN [ranked |-> <<>>, band |-> <<>>, leader |-> 0]
        ELSE Place(records, relevance, policy, after[n - 1], relevant[n])
  IN after[Len(relevant)]

\* The positions of the records that are returned, the best first.
Ranked(records, relevance, policy) ==
  LET last == Banded(records, relevance, policy, Relevant(relevance, policy))
      ranked == last.ranked \o ByTie(records, last.band)
  IN SubSeq(ranked, 1, IF Len(ranked) < policy.max THEN Len(ranked) ELSE policy.max)

Ranking(records) == [status |-> 200, records |-> records]
RankingFailed == [status |-> 502, records |-> <<>>]

\* vectors[1] is the query's.
RankRecords(records, vectors, policy) ==
  IF /\ Acceptable(policy)
     /\ Len(vectors) = Len(records) + 1
     /\ \A i \in DOMAIN vectors : Usable(vectors[i])
  THEN LET relevance == [i \in DOMAIN records |-> Relevance(vectors[1], vectors[i + 1])]
           order == Ranked(records, relevance, policy)
       IN Ranking([i \in DOMAIN order |-> records[order[i]]])
  ELSE RankingFailed

\* The end of MemoryRetrieval.search: the query and the memories are embedded in
\* one call, and the explicit limit may only lower the policy's count.
Search(profile, policy, limit, query, records, reply) ==
  LET texts == <<query>> \o [i \in DOMAIN records |-> records[i].text]
      embedded == Embed(profile, texts, reply)
      ranked == RankRecords(records, embedded.vectors, policy)
      count == IF limit < policy.max THEN limit ELSE policy.max
  IN IF records = <<>> THEN Ranking(<<>>)
     ELSE IF embedded.status # 200 THEN RankingFailed
     ELSE [ranked EXCEPT
             !.records = SubSeq(@, 1, IF Len(@) < count THEN Len(@) ELSE count)]
=============================================================================
