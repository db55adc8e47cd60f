------------------------- MODULE HistoryStoreProofs -------------------------
(***************************************************************************)
(* What the history store keeps for every number of conversations,         *)
(* requests, answers and turns, and for every bound on the revision, and   *)
(* that it implements the source ledger: every step of the store is a step *)
(* of the ledger or changes nothing the ledger knows of.                   *)
(***************************************************************************)
EXTENDS HistoryStore, TurnSelectionLoop, TLAPS

(***************************************************************************)
(* The selection: facts about LeastWhole for any table of turns, which the *)
(* proofs about the loop and about the store both rest on.                 *)
(***************************************************************************)
\* A group only names turns of the table.
LEMMA GroupsInTable ==
  ASSUME NEW t
  PROVE  \A g \in Connections(t) : g \subseteq Revisions(t)
BY DEF Connections, CallTurns, ResultTurns, Revisions

\* The least whole set contains the seed, stays in the universe and is whole.
LEMMA LeastWholeIsWhole ==
  ASSUME NEW groups, NEW universe, NEW seed,
         seed \subseteq universe,
         \A g \in groups : g \subseteq universe
  PROVE  /\ seed \subseteq LeastWhole(groups, universe, seed)
         /\ LeastWhole(groups, universe, seed) \subseteq universe
         /\ Whole(groups, LeastWhole(groups, universe, seed))
<1> DEFINE L == LeastWhole(groups, universe, seed)
<1>1. seed \subseteq L /\ L \subseteq universe
  BY DEF LeastWhole
<1>2. ASSUME NEW g \in groups, NEW q \in g, q \in L, NEW x \in g
      PROVE  x \in L
  <2>1. x \in universe
    OBVIOUS
  <2>2. ASSUME NEW S \in SUBSET universe, seed \subseteq S, Whole(groups, S)
        PROVE  x \in S
    <3>1. q \in S
      BY <1>2, <2>2 DEF LeastWhole
    <3>2. g \subseteq S
      BY <3>1, <2>2 DEF Whole
    <3>3. QED
      BY <3>2
  <2>3. QED
    BY <2>1, <2>2 DEF LeastWhole
<1>3. Whole(groups, L)
  BY <1>2 DEF Whole
<1>4. QED
  BY <1>1, <1>3

\* Any whole set that contains the seed contains the least one.
LEMMA LeastWholeIsLeast ==
  ASSUME NEW groups, NEW universe, NEW seed,
         NEW S \in SUBSET universe, seed \subseteq S, Whole(groups, S)
  PROVE  LeastWhole(groups, universe, seed) \subseteq S
BY DEF LeastWhole

\* What one turn deletion removes: the chosen turns at least, only stored turns,
\* and both sides of every tool call it touches.
LEMMA SelectionIsWhole ==
  ASSUME NEW t, NEW r, NEW s
  PROVE  /\ Seed(t, r, s) \subseteq Selection(t, r, s)
         /\ Selection(t, r, s) \subseteq Revisions(t)
         /\ Whole(Connections(t), Selection(t, r, s))
<1>1. Seed(t, r, s) \subseteq Revisions(t)
  BY DEF Seed
<1>2. QED
  BY <1>1, GroupsInTable, LeastWholeIsWhole DEF Selection

(***************************************************************************)
(* The loop of select_turns returns the least whole selection.             *)
(***************************************************************************)
\* The loop never selects a turn that the least whole selection leaves out.
LoopInv ==
  /\ Seed(table, chosen, reach) \subseteq selected
  /\ selected \subseteq Selection(table, chosen, reach)
  /\ returned => Expand(Connections(table), selected) = selected

LEMMA LoopInvInit == LoopInit => LoopInv
<1>1. ASSUME LoopInit PROVE LoopInv
  BY <1>1, SelectionIsWhole DEF LoopInit, LoopInv
<1>2. QED
  BY <1>1

LEMMA LoopInvStep == LoopInv /\ [LoopNext]_loopVars => LoopInv'
<1> SUFFICES ASSUME LoopInv, [LoopNext]_loopVars PROVE LoopInv'
  OBVIOUS
<1>1. CASE Pass
  <2> DEFINE L == Selection(table, chosen, reach)
  <2>1. \A g \in Connections(table) : g \cap selected # {} => g \subseteq L
    BY SelectionIsWhole DEF LoopInv, Whole
  <2>2. selected' \subseteq L
    BY <1>1, <2>1 DEF Pass, Expand, LoopInv
  <2>3. selected \subseteq selected' /\ returned' = FALSE
    BY <1>1 DEF Pass, Expand
  <2>4. table' = table /\ chosen' = chosen /\ reach' = reach
    BY <1>1 DEF Pass, arguments
  <2>5. QED
    BY <2>2, <2>3, <2>4 DEF LoopInv
<1>2. CASE ReturnSelected
  <2>1. table' = table /\ chosen' = chosen /\ reach' = reach /\ selected' = selected
    BY <1>2 DEF ReturnSelected, arguments
  <2>2. QED
    BY <1>2, <2>1 DEF LoopInv, ReturnSelected
<1>3. CASE UNCHANGED loopVars
  BY <1>3 DEF LoopInv, loopVars
<1>4. QED
  BY <1>1, <1>2, <1>3 DEF LoopNext

\* What is returned is the least whole selection: nothing the user did not choose
\* goes unless a shared call id forces it, and nothing forced stays behind.
THEOREM LoopCorrect == LoopSpec => []ReturnsLeastWhole
<1>1. LoopInv => ReturnsLeastWhole
  <2> SUFFICES ASSUME LoopInv, returned
               PROVE  selected = Selection(table, chosen, reach)
    BY DEF ReturnsLeastWhole
  <2>1. Whole(Connections(table), selected)
    BY DEF LoopInv, Expand, Whole
  <2>2. selected \subseteq Revisions(table)
    BY SelectionIsWhole DEF LoopInv
  <2>3. Selection(table, chosen, reach) \subseteq selected
    BY <2>1, <2>2, LeastWholeIsLeast DEF Selection, LoopInv
  <2>4. QED
    BY <2>3 DEF LoopInv
<1>2. QED
  BY <1>1, LoopInvInit, LoopInvStep, PTL DEF LoopSpec

(***************************************************************************)
(* The store.                                                              *)
(***************************************************************************)

LEMMA NewTurnType ==
  ASSUME TypeOK, NEW c \in Conversation, NEW q \in Request, NEW f \in Fingerprint,
         NEW r \in 0 .. MaxRevision, NEW s \in Submission, NEW a \in Answer
  PROVE  /\ NewTurn(c, q, f, r, s, a) \in Turn
         /\ ReceiptOf(c, NewTurn(c, q, f, r, s, a)) \in Receipt
<1> DEFINE t == NewTurn(c, q, f, r, s, a)
<1>1. s.messages \in Seq(Message) /\ s.marked \in SUBSET Nat /\ s.flagged \in SUBSET Nat
  BY SubmissionAssumption
<1>2. ExcludedBy(c, s) \in SUBSET Nat
  BY <1>1 DEF ExcludedBy, Generated
<1>3. r + 1 \in Nat
  BY MaxRevisionAssumption
<1>4. UNION {u.heard : u \in turns[c]} \in SUBSET Nat
  BY DEF TypeOK, Turn
<1>5. t \in Turn
  BY <1>1, <1>2, <1>3, <1>4 DEF NewTurn, Turn, TypeOK
<1>6. QED
  BY <1>5 DEF ReceiptOf, Receipt, Turn

LEMMA ResolvedType ==
  ASSUME NEW t \in Turn, NEW i \in t.pending, NEW accept \in BOOLEAN
  PROVE  Resolved(t, i, accept) \in Turn
BY DEF Resolved, Turn

LEMMA ReceiptType ==
  ASSUME NEW c \in Conversation, NEW t \in Turn
  PROVE  ReceiptOf(c, t) \in Receipt
BY DEF ReceiptOf, Receipt, Turn

LEMMA AdvanceType ==
  ASSUME TypeOK, NEW c \in Conversation, NEW r, AdvanceRevision(c, r)
  PROVE  /\ revision' \in [Conversation -> 0 .. MaxRevision]
         /\ revision'[c] = revision[c] + 1
         /\ r = revision[c]
         /\ status[c] = "live"
BY MaxRevisionAssumption DEF TypeOK, AdvanceRevision, Live

LEMMA RevokeType ==
  ASSUME TypeOK, NEW c \in Conversation, NEW e \in Nat,
         NEW reason \in {"delete", "private", "turn_delete"}, Revoke(c, e, reason)
  PROVE  memoryEvents' \subseteq MemoryEvent
BY MaxRevisionAssumption DEF TypeOK, Revoke, MemoryEvent

LEMMA ActivateType ==
  ASSUME TypeOK, NEW c \in Conversation, ActivatePrivate(c)
  PROVE  /\ memoryEvents' \subseteq MemoryEvent
         /\ epoch' \in [Conversation -> Nat]
<1>1. CASE privateMode[c]
  BY <1>1 DEF ActivatePrivate, TypeOK
<1>2. CASE ~privateMode[c]
  <2>1. epoch[c] + 1 \in Nat
    BY DEF TypeOK
  <2>2. Revoke(c, epoch[c] + 1, "private")
    BY <1>2 DEF ActivatePrivate
  <2>3. memoryEvents' \subseteq MemoryEvent
    BY <2>1, <2>2, RevokeType
  <2>4. epoch' \in [Conversation -> Nat]
    BY <1>2, <2>1 DEF ActivatePrivate, TypeOK
  <2>5. QED
    BY <2>3, <2>4
<1>3. QED
  BY <1>1, <1>2

LEMMA TypeStep == TypeOK /\ [Next]_vars => TypeOK'
<1> SUFFICES ASSUME TypeOK, [Next]_vars PROVE TypeOK'
  OBVIOUS
<1> USE MaxRevisionAssumption
<1>1. ASSUME NEW c \in Conversation, Create(c) PROVE TypeOK'
  BY <1>1 DEF Create, TypeOK, outboxes, observed, acked
<1>2. ASSUME NEW c \in Conversation, Delete(c) PROVE TypeOK'
  <2>1. memoryEvents' \subseteq MemoryEvent
    <3>1. epoch[c] + 1 \in Nat
      BY DEF TypeOK
    <3>2. QED
      BY <1>2, <3>1, RevokeType DEF Delete
  <2>2. sourceDeletions' \subseteq SourceNotice
    BY <1>2 DEF Delete, TypeOK, SourceNotice
  <2>3. QED
    BY <1>2, <2>1, <2>2 DEF Delete, TypeOK, acked
<1>3. ASSUME NEW c \in Conversation, NEW q \in Request, NEW f \in Fingerprint,
             AppendRetry(c, q, f)
      PROVE TypeOK'
  BY <1>3, ReceiptType DEF AppendRetry, TypeOK, rows, outboxes, acked
<1>4. ASSUME NEW c \in Conversation, NEW q \in Request, NEW f \in Fingerprint,
             NEW r \in 0 .. MaxRevision, NEW s \in Submission, NEW a \in Answer,
             AppendNew(c, q, f, r, s, a)
      PROVE TypeOK'
  <2> DEFINE t == NewTurn(c, q, f, r, s, a)
  <2>1. t \in Turn /\ ReceiptOf(c, t) \in Receipt
    BY NewTurnType
  <2>2. revision' \in [Conversation -> 0 .. MaxRevision]
    BY <1>4, AdvanceType DEF AppendNew
  <2>3. turns' = [turns EXCEPT ![c] = @ \cup {t}] /\ issued' = issued \cup {ReceiptOf(c, t)}
    BY <1>4 DEF AppendNew
  <2> HIDE DEF t
  <2>4. turns' \in [Conversation -> SUBSET Turn] /\ issued' \subseteq Receipt
    BY <2>1, <2>3 DEF TypeOK
  <2>5. QED
    BY <1>4, <2>2, <2>4 DEF AppendNew, TypeOK, outboxes, acked
<1>5. ASSUME NEW c \in Conversation, NEW r \in 0 .. MaxRevision, NEW p \in 0 .. MaxRevision,
             NEW scope \in {"selected", "following"}, DeleteTurns(c, r, p, scope)
      PROVE TypeOK'
  <2> DEFINE gone == Selection(turns[c], p, scope)
             lost == {t \in turns[c] : t.revision \in gone}
  <2>1. revision' \in [Conversation -> 0 .. MaxRevision]
    BY <1>5, AdvanceType DEF DeleteTurns
  <2>2. memoryEvents' \subseteq MemoryEvent
    <3>1. epoch[c] \in Nat
      BY DEF TypeOK
    <3>2. QED
      BY <1>5, <3>1, RevokeType DEF DeleteTurns
  <2>3. gone \in SUBSET Nat
    <3>1. gone \subseteq Revisions(turns[c])
      BY DEF Selection, LeastWhole
    <3>2. QED
      BY <3>1 DEF Revisions, TypeOK, Turn
  <2>4. lost \subseteq Turn
    BY DEF TypeOK
  <2>5. /\ turnDeletions' = turnDeletions \cup {[conversation |-> c, revisions |-> gone]}
        /\ turns' = [turns EXCEPT ![c] = @ \ lost]
        /\ erased' = [erased EXCEPT ![c] = @ \cup lost]
        /\ tombstones' = [tombstones EXCEPT ![c] = @ \cup
             {[request |-> t.request, revision |-> t.revision] : t \in lost}]
    BY <1>5 DEF DeleteTurns
  <2> HIDE DEF gone, lost
  <2>6. turnDeletions' \subseteq TurnNotice
    BY <2>3, <2>5 DEF TypeOK, TurnNotice
  <2>7. {[request |-> t.request, revision |-> t.revision] : t \in lost}
          \subseteq [request : Request, revision : Nat]
    BY <2>4 DEF Turn
  <2>8. /\ turns' \in [Conversation -> SUBSET Turn]
        /\ erased' \in [Conversation -> SUBSET Turn]
        /\ tombstones' \in [Conversation -> SUBSET [request : Request, revision : Nat]]
    BY <2>4, <2>5, <2>7 DEF TypeOK
  <2>9. QED
    BY <1>5, <2>1, <2>2, <2>6, <2>8 DEF DeleteTurns, TypeOK, acked
<1>6. ASSUME NEW c \in Conversation, NEW r \in 0 .. MaxRevision, NEW p \in BOOLEAN,
             NEW a \in BOOLEAN, Controls(c, r, p, a)
      PROVE TypeOK'
  <2>1. revision' \in [Conversation -> 0 .. MaxRevision]
    BY <1>6, AdvanceType DEF Controls
  <2>2. memoryEvents' \subseteq MemoryEvent /\ epoch' \in [Conversation -> Nat]
    <3>1. CASE p
      BY <1>6, <3>1, ActivateType DEF Controls
    <3>2. CASE ~p
      BY <1>6, <3>2 DEF Controls, TypeOK
    <3>3. QED
      BY <3>1, <3>2
  <2>3. privateMode' \in [Conversation -> BOOLEAN] /\ archived' \in [Conversation -> BOOLEAN]
    BY <1>6 DEF Controls, TypeOK
  <2>4. QED
    BY <1>6, <2>1, <2>2, <2>3 DEF Controls, TypeOK, observed, acked
<1>7. ASSUME NEW c \in Conversation, NEW r \in 0 .. MaxRevision, NEW accept \in BOOLEAN,
             NEW t \in turns[c], NEW i \in t.pending, Confirm(c, r, t, i, accept)
      PROVE TypeOK'
  <2>1. revision' \in [Conversation -> 0 .. MaxRevision]
    BY <1>7, AdvanceType DEF Confirm
  <2>2. /\ memoryEvents' \subseteq MemoryEvent
        /\ epoch' \in [Conversation -> Nat]
        /\ privateMode' \in [Conversation -> BOOLEAN]
    <3>1. CASE accept
      BY <1>7, <3>1, ActivateType DEF Confirm, TypeOK
    <3>2. CASE ~accept
      BY <1>7, <3>2 DEF Confirm, TypeOK
    <3>3. QED
      BY <3>1, <3>2
  <2>3. Resolved(t, i, accept) \in Turn
    BY ResolvedType DEF TypeOK
  <2>4. turns' \in [Conversation -> SUBSET Turn]
    BY <1>7, <2>3 DEF Confirm, TypeOK
  <2>5. QED
    BY <1>7, <2>1, <2>2, <2>4 DEF Confirm, TypeOK, observed, acked
<1>8. ASSUME NEW n \in sourceDeletions, AcknowledgeDeletion(n) PROVE TypeOK'
  BY <1>8 DEF AcknowledgeDeletion, TypeOK, rows
<1>9. ASSUME NEW n \in turnDeletions, AcknowledgeTurnDeletion(n) PROVE TypeOK'
  BY <1>9 DEF AcknowledgeTurnDeletion, TypeOK, rows
<1>10. CASE UNCHANGED vars
  BY <1>10 DEF vars, rows, outboxes, observed, acked, TypeOK
<1>11. QED
  BY <1>1, <1>2, <1>3, <1>4, <1>5, <1>6, <1>7, <1>8, <1>9, <1>10
     DEF Next, Retry, Commit, Forget, Control, Reply

\* The tables keep their shape.
THEOREM TypeCorrect == Spec => []TypeOK
<1>1. Init => TypeOK
  BY MaxRevisionAssumption DEF Init, TypeOK
<1>2. QED
  BY <1>1, TypeStep, PTL DEF Spec

-----------------------------------------------------------------------------
(***************************************************************************)
(* The inductive invariant, seen from one conversation.  A step changes    *)
(* the rows of one conversation only, so each action has two cases: the    *)
(* conversation it is about and any other.                                 *)
(***************************************************************************)
Local(c) ==
  /\ ~Live(c) => turns[c] = {} /\ ~privateMode[c]
  /\ status[c] = "fresh" => erased[c] = {} /\ revision[c] = 0
  /\ Live(c) => \A t \in Ever(c) :
       t.revision <= revision[c] /\ t.heard \subseteq 0 .. revision[c]
  /\ Live(c) => /\ \A t \in erased[c] : Settled(c, t.request)
                /\ \A t \in turns[c] : ~Settled(c, t.request)
  /\ \A t, u \in Ever(c) :
       t.revision = u.revision \/ t.request = u.request => t = u
  /\ \A t \in turns[c] :
       t.excluded # {} => Generated(t.messages) \subseteq t.excluded
  /\ \A t \in turns[c] : t.excluded = {} /\ ~t.private =>
       \A u \in Ever(c) : u.revision \in t.heard => ~Restricted(u)
  /\ \A u \in erased[c] :
       \/ \E n \in sourceDeletions \cup ackedSources :
            n.conversation = c /\ u.revision <= n.through
       \/ \E n \in turnDeletions \cup ackedTurns :
            n.conversation = c /\ u.revision \in n.revisions

LEMMA InvByConversation ==
  HistoryInv <=> /\ TypeOK
                 /\ ReceiptsFinal
                 /\ EventsCounted
                 /\ \A c \in Conversation : Local(c)
BY DEF HistoryInv, RowsOfLive, Counted, Marked, TurnIdentity, ExcludedWhole,
       CleanLineage, NoticesCoverErased, Local

LEMMA InvNext ==
  ASSUME TypeOK', ReceiptsFinal', EventsCounted',
         \A c \in Conversation : Local(c)'
  PROVE  HistoryInv'
BY DEF HistoryInv, RowsOfLive, Counted, Marked, TurnIdentity, ExcludedWhole,
       CleanLineage, NoticesCoverErased, Local

\* Notices are only ever added, or moved from an outbox to its acknowledgements.
NoticesKept ==
  /\ sourceDeletions \cup ackedSources \subseteq (sourceDeletions \cup ackedSources)'
  /\ turnDeletions \cup ackedTurns \subseteq (turnDeletions \cup ackedTurns)'

RowsKept(c) ==
  /\ status'[c] = status[c]
  /\ revision'[c] = revision[c]
  /\ privateMode'[c] = privateMode[c]
  /\ turns'[c] = turns[c]
  /\ tombstones'[c] = tombstones[c]
  /\ erased'[c] = erased[c]

LEMMA LocalKept ==
  ASSUME NEW c \in Conversation, Local(c), RowsKept(c), NoticesKept
  PROVE  Local(c)'
BY DEF Local, RowsKept, NoticesKept, Ever, Live, Settled

\* A step that issues no receipt keeps them final when every turn keeps its own.
LEMMA ReceiptsKept ==
  ASSUME TypeOK, ReceiptsFinal, issued' = issued,
         \A c \in Conversation : \A t \in Ever(c) :
           \E u \in Ever(c)' : ReceiptOf(c, u) = ReceiptOf(c, t)
  PROVE  ReceiptsFinal'
<1>1. \A x, y \in issued' :
        x.conversation = y.conversation /\ x.request = y.request => x = y
  BY DEF ReceiptsFinal
<1>2. ASSUME NEW x \in issued'
      PROVE  \E t \in Ever(x.conversation)' : x = ReceiptOf(x.conversation, t)
  <2>1. x.conversation \in Conversation
    BY DEF TypeOK, Receipt
  <2>2. PICK t \in Ever(x.conversation) : x = ReceiptOf(x.conversation, t)
    BY DEF ReceiptsFinal
  <2>3. QED
    BY <2>1, <2>2
<1>3. QED
  BY <1>1, <1>2 DEF ReceiptsFinal

LEMMA EventsKept ==
  ASSUME TypeOK, TypeOK', EventsCounted, memoryEvents' = memoryEvents,
         \A c \in Conversation :
           /\ status[c] # "fresh" => status'[c] # "fresh"
           /\ status'[c] = "live" => revision[c] <= revision'[c]
           /\ status[c] = "deleted" => status'[c] = "deleted"
  PROVE  EventsCounted'
<1> SUFFICES ASSUME NEW e \in memoryEvents
             PROVE  /\ status'[e.conversation] # "fresh"
                    /\ status'[e.conversation] = "live" => e.at < revision'[e.conversation]
  BY DEF EventsCounted, Live
<1>1. e.conversation \in Conversation /\ e.at \in Nat
  BY DEF TypeOK, MemoryEvent
<1>2. status[e.conversation] # "fresh"
  BY DEF EventsCounted
<1>3. status'[e.conversation] = "live" => status[e.conversation] = "live"
  BY <1>1, <1>2 DEF TypeOK
<1>4. revision[e.conversation] \in Nat
  BY <1>1, MaxRevisionAssumption DEF TypeOK
<1>5. ASSUME status'[e.conversation] = "live"
      PROVE  e.at < revision'[e.conversation]
  <2>1. e.at < revision[e.conversation]
    BY <1>3, <1>5 DEF EventsCounted, Live
  <2>2. revision[e.conversation] <= revision'[e.conversation]
    BY <1>1, <1>5
  <2>3. revision'[e.conversation] \in Nat
    BY <1>1, MaxRevisionAssumption DEF TypeOK
  <2>4. QED
    BY <1>1, <1>4, <2>1, <2>2, <2>3
<1>6. QED
  BY <1>1, <1>2, <1>5

\* A revocation is recorded at the revision before the step's own.
LEMMA EventAdded ==
  ASSUME TypeOK, TypeOK', EventsCounted, NEW c \in Conversation, status[c] = "live",
         NEW e0, NEW reason,
         Revoke(c, e0, reason),
         \A d \in Conversation \ {c} : status'[d] = status[d] /\ revision'[d] = revision[d],
         status'[c] # "fresh",
         status'[c] = "live" => revision'[c] = revision[c] + 1
  PROVE  EventsCounted'
<1> SUFFICES ASSUME NEW e \in memoryEvents'
             PROVE  /\ status'[e.conversation] # "fresh"
                    /\ status'[e.conversation] = "live" => e.at < revision'[e.conversation]
  BY DEF EventsCounted, Live
<1>1. e.conversation \in Conversation /\ e.at \in Nat
  BY DEF TypeOK, MemoryEvent
<1>2. revision[c] \in Nat /\ revision'[c] \in Nat
  BY MaxRevisionAssumption DEF TypeOK
<1>3. CASE e \in memoryEvents
  <2>1. status[e.conversation] # "fresh"
    BY <1>3 DEF EventsCounted
  <2>2. status[e.conversation] = "live" => e.at < revision[e.conversation]
    BY <1>3 DEF EventsCounted, Live
  <2>3. CASE e.conversation = c
    BY <1>1, <1>2, <2>2, <2>3
  <2>4. CASE e.conversation # c
    BY <1>1, <2>1, <2>2, <2>4
  <2>5. QED
    BY <2>3, <2>4
<1>4. CASE e \notin memoryEvents
  <2>1. e.conversation = c /\ e.at = revision[c]
    BY <1>4 DEF Revoke
  <2>2. QED
    BY <1>2, <2>1
<1>5. QED
  BY <1>3, <1>4

-----------------------------------------------------------------------------
LEMMA InvCreate ==
  ASSUME HistoryInv, TypeOK', NEW c \in Conversation, Create(c)
  PROVE  HistoryInv'
<1> USE InvByConversation
<1>1. NoticesKept
  BY DEF NoticesKept, Create, outboxes, observed, acked
<1>2. ASSUME NEW d \in Conversation PROVE Local(d)'
  <2>1. CASE d # c
    BY <1>1, <2>1, LocalKept DEF RowsKept, Create, observed, TypeOK
  <2>2. CASE d = c
    <3>1. /\ turns'[c] = {} /\ erased'[c] = {} /\ revision'[c] = 0
          /\ ~privateMode'[c]
          /\ status'[c] = "live"
      BY DEF Local, Create, Live, observed, TypeOK
    <3>2. QED
      BY <2>2, <3>1 DEF Local, Ever, Live
  <2>3. QED
    BY <2>1, <2>2
<1>3. ReceiptsFinal'
  BY ReceiptsKept DEF Create, observed, Ever
<1>4. EventsCounted'
  <2>1. memoryEvents' = memoryEvents
    BY DEF Create, outboxes
  <2>2. revision' = revision
    BY DEF Create
  <2>3. \A d \in Conversation : revision[d] <= revision'[d]
    BY <2>2, MaxRevisionAssumption DEF TypeOK
  <2>4. \A d \in Conversation :
          /\ status[d] # "fresh" => status'[d] # "fresh"
          /\ status[d] = "deleted" => status'[d] = "deleted"
    BY DEF Create, TypeOK
  <2>5. QED
    BY <2>1, <2>3, <2>4, EventsKept
<1>5. QED
  BY <1>2, <1>3, <1>4, InvNext

LEMMA InvDelete ==
  ASSUME HistoryInv, TypeOK', NEW c \in Conversation, Delete(c)
  PROVE  HistoryInv'
<1> USE InvByConversation
<1>1. NoticesKept
  BY DEF NoticesKept, Delete, acked
<1>2. ASSUME NEW d \in Conversation PROVE Local(d)'
  <2>1. CASE d # c
    BY <1>1, <2>1, LocalKept DEF RowsKept, Delete, TypeOK
  <2>2. CASE d = c
    <3>1. /\ turns'[c] = {} /\ ~privateMode'[c]
          /\ status'[c] = "deleted"
          /\ erased'[c] = Ever(c)
      BY DEF Delete, TypeOK, Ever
    <3>2. \E n \in sourceDeletions' : n.conversation = c /\ n.through = revision[c]
      <4> DEFINE n == [conversation |-> c, through |-> revision[c]]
      <4>1. n \in sourceDeletions'
        BY DEF Delete
      <4>2. n.conversation = c /\ n.through = revision[c]
        OBVIOUS
      <4>3. QED
        BY <4>1, <4>2
    <3>3. \A u \in Ever(c) : u.revision <= revision[c]
      BY DEF Local, Delete
    <3>4. QED
      BY <1>1, <2>2, <3>1, <3>2, <3>3 DEF Local, Ever, Live
  <2>3. QED
    BY <2>1, <2>2
<1>3. ReceiptsFinal'
  <2>1. \A d \in Conversation : Ever(d) \subseteq Ever(d)'
    BY DEF Delete, TypeOK, Ever
  <2>2. issued' = issued
    BY DEF Delete
  <2>3. QED
    BY <2>1, <2>2, ReceiptsKept
<1>4. EventsCounted'
  BY EventAdded DEF Delete, Live, TypeOK
<1>5. QED
  BY <1>2, <1>3, <1>4, InvNext

LEMMA InvRetry ==
  ASSUME HistoryInv, TypeOK', NEW c \in Conversation, NEW q \in Request,
         NEW f \in Fingerprint, AppendRetry(c, q, f)
  PROVE  HistoryInv'
<1> USE InvByConversation
<1>1. NoticesKept
  BY DEF NoticesKept, AppendRetry, outboxes, acked
<1>2. \A d \in Conversation : Local(d)'
  BY <1>1, LocalKept DEF RowsKept, AppendRetry, rows
<1>3. ReceiptsFinal'
  <2>1. PICK t \in turns[c] : issued' = issued \cup {ReceiptOf(c, t)}
    BY DEF AppendRetry
  <2>2. \A d \in Conversation : Ever(d)' = Ever(d)
    BY DEF AppendRetry, rows, Ever
  <2>3. \A x \in issued' : x.conversation \in Conversation
    BY DEF TypeOK, Receipt
  <2>4. \A x \in issued' : \E u \in Ever(x.conversation) : x = ReceiptOf(x.conversation, u)
    <3>1. ReceiptOf(c, t).conversation = c /\ t \in Ever(c)
      BY DEF ReceiptOf, Ever
    <3>2. QED
      BY <2>1, <3>1 DEF ReceiptsFinal
  <2>5. \A d \in Conversation : \A u, v \in Ever(d) :
          ReceiptOf(d, u).request = ReceiptOf(d, v).request => u = v
    BY DEF ReceiptOf, Local
  <2>6. QED
    BY <2>2, <2>3, <2>4, <2>5 DEF ReceiptsFinal
<1>4. EventsCounted'
  BY DEF EventsCounted, AppendRetry, rows, outboxes, Live
<1>5. QED
  BY <1>2, <1>3, <1>4, InvNext

\* What the exclusions of a new turn say about the history it was generated from.
LEMMA ExclusionFacts ==
  ASSUME TypeOK, NEW c \in Conversation, NEW s \in Submission
  PROVE  /\ ExcludedBy(c, s) # {} => Generated(s.messages) \subseteq ExcludedBy(c, s)
         /\ ExcludedBy(c, s) = {} =>
              /\ s.marked = {} /\ s.flagged = {}
              /\ \A t \in turns[c] : ~t.private /\ t.excluded = {}
              /\ \A t \in turns[c] : t.pending \cup t.accepted = {}
<1>1. CASE Tainted(c, s) \/ Held(c, s)
  <2>1. ExcludedBy(c, s) = s.marked \cup Generated(s.messages)
    BY <1>1 DEF ExcludedBy
  <2>2. Len(s.messages) \in DOMAIN s.messages
    <3>1. s.messages \in Seq(Message) /\ Len(s.messages) > 0
      BY SubmissionAssumption
    <3>2. QED
      BY <3>1
  <2>3. Len(s.messages) \in Generated(s.messages)
    BY <2>2, SubmissionAssumption DEF Generated
  <2>4. QED
    BY <2>1, <2>3
<1>2. CASE ~(Tainted(c, s) \/ Held(c, s))
  <2>1. ExcludedBy(c, s) = s.marked
    BY <1>2 DEF ExcludedBy
  <2>2. s.marked = {}
    BY <1>2 DEF Tainted
  <2>3. QED
    BY <1>2, <2>1, <2>2 DEF Tainted, Held
<1>3. QED
  BY <1>1, <1>2

LEMMA InvAppend ==
  ASSUME HistoryInv, TypeOK', NEW c \in Conversation, NEW q \in Request,
         NEW f \in Fingerprint, NEW r \in 0 .. MaxRevision,
         NEW s \in Submission, NEW a \in Answer,
         AppendNew(c, q, f, r, s, a)
  PROVE  HistoryInv'
<1> USE InvByConversation, MaxRevisionAssumption
<1> DEFINE t == NewTurn(c, q, f, r, s, a)
<1>1. /\ turns' = [turns EXCEPT ![c] = @ \cup {t}]
      /\ issued' = issued \cup {ReceiptOf(c, t)}
      /\ status' = status /\ privateMode' = privateMode /\ tombstones' = tombstones
      /\ erased' = erased
      /\ memoryEvents' = memoryEvents
      /\ revision' = [revision EXCEPT ![c] = @ + 1]
      /\ status[c] = "live"
      /\ r = revision[c]
  BY DEF AppendNew, AdvanceRevision, Live, outboxes
<1>2. NoticesKept
  BY DEF NoticesKept, AppendNew, outboxes, acked
<1>3. /\ t.request = q /\ t.revision = r + 1 /\ t.excluded = ExcludedBy(c, s)
      /\ t.messages = s.messages /\ t.private = privateMode[c]
      /\ t.marked = s.marked /\ t.pending = s.flagged /\ t.accepted = {}
      /\ t.heard = {r + 1} \cup UNION {u.heard : u \in turns[c]}
  BY DEF NewTurn
<1>4. t \in Turn
  BY NewTurnType
<1>5. ~Settled(c, q) /\ \A u \in turns[c] : u.request # q
  BY DEF AppendNew
<1> HIDE DEF t
<1>6. /\ turns'[c] = turns[c] \cup {t}
      /\ Ever(c)' = Ever(c) \cup {t}
      /\ \A d \in Conversation \ {c} : turns'[d] = turns[d]
      /\ revision'[c] = r + 1
      /\ \A d \in Conversation \ {c} : revision'[d] = revision[d]
  BY <1>1 DEF TypeOK, Ever
<1>7. r \in Nat /\ \A u \in Ever(c) : u.revision \in Nat /\ u.heard \subseteq Nat
  BY <1>1 DEF TypeOK, Turn, Ever
<1>8. \A u \in Ever(c) : u.revision <= r /\ u.heard \subseteq 0 .. r
  BY <1>1 DEF Local, Live
<1>9. \A u \in Ever(c) : u.request # q
  BY <1>1, <1>5 DEF Local, Live, Ever, Settled
<1>10. ASSUME NEW d \in Conversation PROVE Local(d)'
  <2>1. CASE d # c
    BY <1>1, <1>2, <1>6, <2>1, LocalKept DEF RowsKept
  <2>2. CASE d = c
    <3>1. \A u \in Ever(c)' : u.revision <= r + 1 /\ u.heard \subseteq 0 .. (r + 1)
      <4>1. \A u \in Ever(c) : u.revision <= r + 1 /\ u.heard \subseteq 0 .. (r + 1)
        BY <1>7, <1>8
      <4>2. t.heard \subseteq 0 .. (r + 1)
        BY <1>3, <1>7, <4>1 DEF Ever
      <4>3. QED
        BY <1>3, <1>6, <1>7, <4>1, <4>2
    <3>2. \A u, v \in Ever(c)' : u.revision = v.revision \/ u.request = v.request => u = v
      <4>1. \A u \in Ever(c) : u.revision # t.revision /\ u.request # t.request
        BY <1>3, <1>7, <1>8, <1>9
      <4>2. QED
        BY <1>6, <4>1 DEF Local
    <3>3. \A u \in turns'[c] : u.excluded # {} => Generated(u.messages) \subseteq u.excluded
      BY <1>3, <1>6, ExclusionFacts DEF Local
    <3>4. ASSUME NEW u \in turns'[c], u.excluded = {}, ~u.private,
                 NEW v \in Ever(c)', v.revision \in u.heard
          PROVE  ~Restricted(v)
      <4>1. CASE u = t
        <5>1. /\ s.marked = {} /\ s.flagged = {}
              /\ \A w \in turns[c] : ~w.private /\ w.excluded = {}
          BY <1>3, <3>4, <4>1, ExclusionFacts
        <5>2. CASE v = t
          BY <1>3, <3>4, <4>1, <5>1, <5>2 DEF Restricted
        <5>3. CASE v # t
          <6>1. v \in Ever(c) /\ v.revision # r + 1
            BY <1>6, <1>7, <1>8, <5>3
          <6>2. PICK w \in turns[c] : v.revision \in w.heard
            BY <1>3, <3>4, <4>1, <6>1
          <6>3. QED
            BY <5>1, <6>1, <6>2 DEF Local
        <5>4. QED
          BY <5>2, <5>3
      <4>2. CASE u # t
        <5>1. u \in turns[c]
          BY <1>6, <4>2
        <5>2. v # t
          BY <1>3, <1>7, <1>8, <3>4, <5>1 DEF Ever
        <5>3. v \in Ever(c)
          BY <1>6, <5>2
        <5>4. QED
          BY <3>4, <5>1, <5>3 DEF Local
      <4>3. QED
        BY <4>1, <4>2
    <3>5. Live(c)' /\ Live(c) /\ status[c] # "fresh"
      BY <1>1 DEF Live
    <3>6. \A u \in turns'[c] : ~Settled(c, u.request)'
      BY <1>1, <1>3, <1>5, <1>6 DEF Local, Live, Settled
    <3>7. QED
      BY <1>1, <1>2, <1>6, <2>2, <3>1, <3>2, <3>3, <3>4, <3>5, <3>6
         DEF Local, Settled, NoticesKept
  <2>3. QED
    BY <2>1, <2>2
<1>11. ReceiptsFinal'
  <2>1. ReceiptOf(c, t).conversation = c /\ ReceiptOf(c, t).request = q
    BY <1>3 DEF ReceiptOf
  <2>2. \A x \in issued : x.conversation = c => x.request # q
    BY <1>9 DEF ReceiptsFinal, ReceiptOf
  <2>3. \A x \in issued : x.conversation \in Conversation
    BY DEF TypeOK, Receipt
  <2>4. \A d \in Conversation : Ever(d) \subseteq Ever(d)'
    BY <1>1, <1>6 DEF Ever
  <2>5. t \in Ever(c)'
    BY <1>6
  <2>6. \A x \in issued' : \E u \in Ever(x.conversation)' : x = ReceiptOf(x.conversation, u)
    BY <1>1, <2>1, <2>3, <2>4, <2>5 DEF ReceiptsFinal
  <2>7. \A x, y \in issued' :
          x.conversation = y.conversation /\ x.request = y.request => x = y
    BY <1>1, <2>1, <2>2 DEF ReceiptsFinal
  <2>8. QED
    BY <2>6, <2>7 DEF ReceiptsFinal
<1>12. EventsCounted'
  <2>1. \A d \in Conversation : revision[d] <= revision'[d]
    BY <1>1, <1>6, <1>7 DEF TypeOK
  <2>2. QED
    BY <1>1, <2>1, EventsKept
<1>13. QED
  BY <1>10, <1>11, <1>12, InvNext

LEMMA InvDeleteTurns ==
  ASSUME HistoryInv, TypeOK', NEW c \in Conversation, NEW r \in 0 .. MaxRevision,
         NEW p \in 0 .. MaxRevision, NEW scope \in {"selected", "following"},
         DeleteTurns(c, r, p, scope)
  PROVE  HistoryInv'
<1> USE InvByConversation, MaxRevisionAssumption
<1> DEFINE gone == Selection(turns[c], p, scope)
           lost == {t \in turns[c] : t.revision \in gone}
           notice == [conversation |-> c, revisions |-> gone]
<1>1. /\ turns' = [turns EXCEPT ![c] = @ \ lost]
      /\ erased' = [erased EXCEPT ![c] = @ \cup lost]
      /\ turnDeletions' = turnDeletions \cup {notice}
      /\ tombstones' = [tombstones EXCEPT ![c] = @ \cup
           {[request |-> t.request, revision |-> t.revision] : t \in lost}]
      /\ status' = status /\ privateMode' = privateMode
      /\ revision' = [revision EXCEPT ![c] = @ + 1]
      /\ status[c] = "live"
      /\ issued' = issued
      /\ sourceDeletions' = sourceDeletions
      /\ ackedSources' = ackedSources /\ ackedTurns' = ackedTurns
      /\ Revoke(c, epoch[c], "turn_delete")
  BY DEF DeleteTurns, AdvanceRevision, Live, acked
<1>2. NoticesKept
  BY <1>1 DEF NoticesKept
<1>3. /\ lost \subseteq turns[c]
      /\ \A u \in lost : u.revision \in gone
      /\ notice.conversation = c /\ notice.revisions = gone
  OBVIOUS
<1> HIDE DEF gone, lost, notice
<1>4. /\ turns'[c] = turns[c] \ lost
      /\ erased'[c] = erased[c] \cup lost
      /\ Ever(c)' = Ever(c)
      /\ revision'[c] = revision[c] + 1
      /\ tombstones'[c] = tombstones[c] \cup
           {[request |-> t.request, revision |-> t.revision] : t \in lost}
      /\ \A d \in Conversation \ {c} :
           turns'[d] = turns[d] /\ erased'[d] = erased[d] /\ tombstones'[d] = tombstones[d]
           /\ revision'[d] = revision[d]
  BY <1>1, <1>3 DEF TypeOK, Ever
<1>5. revision[c] \in Nat /\ \A u \in Ever(c) : u.revision \in Nat /\ u.heard \subseteq Nat
  BY DEF TypeOK, Turn, Ever
<1>6. ASSUME NEW d \in Conversation PROVE Local(d)'
  <2>1. CASE d # c
    BY <1>1, <1>2, <1>4, <2>1, LocalKept DEF RowsKept
  <2>2. CASE d = c
    <3>1. \A u \in Ever(c)' : u.revision <= revision'[c] /\ u.heard \subseteq 0 .. revision'[c]
      <4>1. \A u \in Ever(c) : u.revision <= revision[c] /\ u.heard \subseteq 0 .. revision[c]
        BY <1>1 DEF Local, Live
      <4>2. QED
        BY <1>4, <1>5, <4>1
    <3>2. ASSUME NEW u \in erased'[c] PROVE \E x \in tombstones'[c] : x.request = u.request
      <4>1. CASE u \in lost
        <5> DEFINE x == [request |-> u.request, revision |-> u.revision]
        <5>1. x \in tombstones'[c] /\ x.request = u.request
          BY <1>4, <4>1
        <5>2. QED
          BY <5>1
      <4>2. CASE u \in erased[c]
        BY <1>1, <1>4, <4>2 DEF Local, Live, Settled
      <4>3. QED
        BY <1>4, <4>1, <4>2
    <3>3. \A u \in erased'[c] :
           \/ \E n \in (sourceDeletions \cup ackedSources)' :
                n.conversation = c /\ u.revision <= n.through
           \/ \E n \in (turnDeletions \cup ackedTurns)' :
                n.conversation = c /\ u.revision \in n.revisions
      <4>1. notice \in turnDeletions'
        BY <1>1
      <4>2. QED
        BY <1>2, <1>3, <1>4, <4>1 DEF NoticesKept, Local
    <3>4. ASSUME NEW u \in turns'[c], NEW x \in tombstones'[c] PROVE x.request # u.request
      <4>1. CASE x \in tombstones[c]
        BY <1>1, <1>4, <4>1 DEF Local, Live, Settled
      <4>2. CASE x \notin tombstones[c]
        <5>1. PICK w \in lost : x = [request |-> w.request, revision |-> w.revision]
          BY <1>4, <4>2
        <5>2. u # w /\ u \in Ever(c) /\ w \in Ever(c)
          BY <1>3, <1>4 DEF Ever
        <5>3. QED
          BY <5>1, <5>2 DEF Local
      <4>3. QED
        BY <4>1, <4>2
    <3>5. Live(c)' /\ Live(c) /\ status'[c] # "fresh"
      BY <1>1 DEF Live
    <3>6. QED
      BY <1>4, <2>2, <3>1, <3>2, <3>3, <3>4, <3>5 DEF Local, Settled
  <2>3. QED
    BY <2>1, <2>2
<1>7. ReceiptsFinal'
  <2>1. \A d \in Conversation : Ever(d)' = Ever(d)
    BY <1>4 DEF Ever
  <2>2. QED
    BY <1>1, <2>1, ReceiptsKept
<1>8. EventsCounted'
  <2>1. status'[c] # "fresh" /\ \A d \in Conversation : status'[d] = status[d]
    BY <1>1
  <2>2. QED
    BY <1>1, <1>4, <2>1, EventAdded
<1>9. QED
  BY <1>6, <1>7, <1>8, InvNext

\* The modes of a conversation change: its turns do not.
LEMMA InvControls ==
  ASSUME HistoryInv, TypeOK', NEW c \in Conversation, NEW r \in 0 .. MaxRevision,
         NEW p \in BOOLEAN, NEW a \in BOOLEAN, Controls(c, r, p, a)
  PROVE  HistoryInv'
<1> USE InvByConversation, MaxRevisionAssumption
<1>1. /\ turns' = turns /\ erased' = erased /\ tombstones' = tombstones
      /\ status' = status /\ issued' = issued
      /\ sourceDeletions' = sourceDeletions /\ turnDeletions' = turnDeletions
      /\ ackedSources' = ackedSources /\ ackedTurns' = ackedTurns
      /\ revision' = [revision EXCEPT ![c] = @ + 1]
      /\ privateMode' = [privateMode EXCEPT ![c] = p]
      /\ status[c] = "live"
  BY DEF Controls, AdvanceRevision, Live, observed, acked
<1>2. NoticesKept
  BY <1>1 DEF NoticesKept
<1>3. /\ revision'[c] = revision[c] + 1
      /\ \A d \in Conversation \ {c} :
           revision'[d] = revision[d] /\ privateMode'[d] = privateMode[d]
      /\ \A d \in Conversation : revision[d] \in Nat
  BY <1>1 DEF TypeOK
<1>4. \A u \in Ever(c) : u.revision \in Nat /\ u.heard \subseteq Nat
  BY DEF TypeOK, Turn, Ever
<1>5. ASSUME NEW d \in Conversation PROVE Local(d)'
  <2>1. CASE d # c
    BY <1>1, <1>2, <1>3, <2>1, LocalKept DEF RowsKept
  <2>2. CASE d = c
    <3>1. \A u \in Ever(c)' : u.revision <= revision'[c] /\ u.heard \subseteq 0 .. revision'[c]
      <4>1. \A u \in Ever(c) : u.revision <= revision[c] /\ u.heard \subseteq 0 .. revision[c]
        BY <1>1 DEF Local, Live
      <4>2. QED
        BY <1>1, <1>3, <1>4, <4>1 DEF Ever
    <3>2. Live(c)' /\ Live(c) /\ status'[c] # "fresh"
      BY <1>1 DEF Live
    <3>3. QED
      BY <1>1, <2>2, <3>1, <3>2 DEF Local, Settled, Ever
  <2>3. QED
    BY <2>1, <2>2
<1>6. ReceiptsFinal'
  BY <1>1, ReceiptsKept DEF Ever
<1>7. EventsCounted'
  <2>1. CASE memoryEvents' = memoryEvents
    <3>1. \A d \in Conversation : revision[d] <= revision'[d]
      BY <1>3
    <3>2. QED
      BY <1>1, <2>1, <3>1, EventsKept
  <2>2. CASE Revoke(c, epoch[c] + 1, "private")
    <3>1. status'[c] # "fresh" /\ \A d \in Conversation : status'[d] = status[d]
      BY <1>1
    <3>2. QED
      BY <1>1, <1>3, <2>2, <3>1, EventAdded
  <2>3. QED
    BY <2>1, <2>2 DEF Controls, ActivatePrivate
<1>8. QED
  BY <1>5, <1>6, <1>7, InvNext

\* An answer changes the confirmation state of a turn and nothing else of it.
LEMMA ResolvedFields ==
  ASSUME NEW t \in Turn, NEW i \in t.pending, NEW accept \in BOOLEAN
  PROVE  /\ Resolved(t, i, accept).request = t.request
         /\ Resolved(t, i, accept).fingerprint = t.fingerprint
         /\ Resolved(t, i, accept).answer = t.answer
         /\ Resolved(t, i, accept).revision = t.revision
         /\ Resolved(t, i, accept).messages = t.messages
         /\ Resolved(t, i, accept).private = t.private
         /\ Resolved(t, i, accept).excluded = t.excluded
         /\ Resolved(t, i, accept).marked = t.marked
         /\ Resolved(t, i, accept).heard = t.heard
         /\ Resolved(t, i, accept).pending = t.pending \ {i}
         /\ Resolved(t, i, accept).accepted \subseteq t.accepted \cup {i}
<1>1. CASE accept
  BY <1>1 DEF Resolved, Turn
<1>2. CASE ~accept
  BY <1>2 DEF Resolved, Turn
<1>3. QED
  BY <1>1, <1>2

LEMMA InvConfirm ==
  ASSUME HistoryInv, TypeOK', NEW c \in Conversation, NEW r \in 0 .. MaxRevision,
         NEW accept \in BOOLEAN, NEW t \in turns[c], NEW i \in t.pending,
         Confirm(c, r, t, i, accept)
  PROVE  HistoryInv'
<1> USE InvByConversation, MaxRevisionAssumption
<1> DEFINE v == Resolved(t, i, accept)
<1>1. /\ turns' = [turns EXCEPT ![c] = (@ \ {t}) \cup {v}]
      /\ erased' = erased /\ tombstones' = tombstones
      /\ status' = status /\ issued' = issued
      /\ sourceDeletions' = sourceDeletions /\ turnDeletions' = turnDeletions
      /\ ackedSources' = ackedSources /\ ackedTurns' = ackedTurns
      /\ revision' = [revision EXCEPT ![c] = @ + 1]
      /\ status[c] = "live"
  BY DEF Confirm, AdvanceRevision, Live, observed, acked
<1>2. NoticesKept
  BY <1>1 DEF NoticesKept
<1>3. /\ v.request = t.request /\ v.fingerprint = t.fingerprint
      /\ v.answer = t.answer /\ v.revision = t.revision
      /\ v.messages = t.messages /\ v.private = t.private
      /\ v.excluded = t.excluded /\ v.marked = t.marked /\ v.heard = t.heard
      /\ v.pending \subseteq t.pending
      /\ v.accepted \subseteq t.accepted \cup {i}
  <2>1. t \in Turn
    BY DEF TypeOK
  <2>2. v.pending = t.pending \ {i} /\ v.accepted \subseteq t.accepted \cup {i}
    BY <2>1, ResolvedFields
  <2>3. QED
    BY <2>1, <2>2, ResolvedFields
<1> HIDE DEF v
<1>4. /\ Restricted(v) => Restricted(t)
      /\ \A d \in Conversation : ReceiptOf(d, v) = ReceiptOf(d, t)
  BY <1>3 DEF Restricted, ReceiptOf
<1>5. /\ turns'[c] = (turns[c] \ {t}) \cup {v}
      /\ erased'[c] = erased[c] /\ tombstones'[c] = tombstones[c]
      /\ revision'[c] = revision[c] + 1
      /\ \A d \in Conversation \ {c} : turns'[d] = turns[d] /\ revision'[d] = revision[d]
      /\ \A d \in Conversation : revision[d] \in Nat
  BY <1>1 DEF TypeOK
<1>6. \A u \in Ever(c) : u.revision \in Nat /\ u.heard \subseteq Nat
  BY DEF TypeOK, Turn, Ever
<1>7. t \notin erased[c]
  BY <1>1 DEF Local, Live
<1>8. \A u \in Ever(c)' : u = v \/ (u \in Ever(c) /\ u # t)
  BY <1>1, <1>5, <1>7 DEF Ever
<1>9. ~accept => privateMode' = privateMode
  BY DEF Confirm
<1>10. \A d \in Conversation \ {c} : privateMode'[d] = privateMode[d]
  BY <1>9 DEF Confirm, TypeOK
<1>11. ASSUME NEW d \in Conversation PROVE Local(d)'
  <2>1. CASE d # c
    BY <1>1, <1>2, <1>5, <1>10, <2>1, LocalKept DEF RowsKept
  <2>2. CASE d = c
    <3>1. \A u \in Ever(c)' : u.revision <= revision'[c] /\ u.heard \subseteq 0 .. revision'[c]
      <4>1. \A u \in Ever(c) : u.revision <= revision[c] /\ u.heard \subseteq 0 .. revision[c]
        BY <1>1 DEF Local, Live
      <4>2. t \in Ever(c)
        BY DEF Ever
      <4>3. QED
        BY <1>3, <1>5, <1>6, <1>8, <4>1, <4>2
    <3>2. \A u, w \in Ever(c)' : u.revision = w.revision \/ u.request = w.request => u = w
      BY <1>3, <1>8 DEF Local, Ever
    <3>3. \A u \in turns'[c] : u.excluded # {} => Generated(u.messages) \subseteq u.excluded
      BY <1>3, <1>5 DEF Local
    <3>4. ASSUME NEW u \in turns'[c], u.excluded = {}, ~u.private,
                 NEW w \in Ever(c)', w.revision \in u.heard
          PROVE  ~Restricted(w)
      <4>1. PICK u0 \in turns[c] :
              u0.excluded = {} /\ ~u0.private /\ u0.heard = u.heard
        BY <1>3, <1>5, <3>4
      <4>2. PICK w0 \in Ever(c) :
              w0.revision = w.revision /\ (Restricted(w) => Restricted(w0))
        BY <1>3, <1>4, <1>8 DEF Ever
      <4>3. QED
        BY <3>4, <4>1, <4>2 DEF Local
    <3>5. \A u \in turns'[c] : ~Settled(c, u.request)'
      BY <1>1, <1>3, <1>5 DEF Local, Live, Settled
    <3>6. Live(c)' /\ Live(c) /\ status'[c] # "fresh"
      BY <1>1 DEF Live
    <3>7. QED
      BY <1>1, <1>2, <1>5, <2>2, <3>1, <3>2, <3>3, <3>4, <3>5, <3>6
         DEF Local, Settled, NoticesKept
  <2>3. QED
    BY <2>1, <2>2
<1>12. ReceiptsFinal'
  <2>1. ASSUME NEW d \in Conversation, NEW u \in Ever(d)
        PROVE  \E w \in Ever(d)' : ReceiptOf(d, w) = ReceiptOf(d, u)
    <3>1. CASE d = c /\ u = t
      <4>1. v \in Ever(d)'
        BY <1>5, <3>1 DEF Ever
      <4>2. QED
        BY <1>4, <3>1, <4>1
    <3>2. CASE d # c \/ u # t
      <4>1. u \in Ever(d)'
        BY <1>1, <1>5, <3>2 DEF Ever
      <4>2. QED
        BY <4>1
    <3>3. QED
      BY <3>1, <3>2
  <2>2. QED
    BY <1>1, <2>1, ReceiptsKept
<1>13. EventsCounted'
  <2>1. CASE memoryEvents' = memoryEvents
    <3>1. \A d \in Conversation : revision[d] <= revision'[d]
      BY <1>5
    <3>2. QED
      BY <1>1, <2>1, <3>1, EventsKept
  <2>2. CASE Revoke(c, epoch[c] + 1, "private")
    <3>1. status'[c] # "fresh" /\ \A d \in Conversation : status'[d] = status[d]
      BY <1>1
    <3>2. QED
      BY <1>1, <1>5, <2>2, <3>1, EventAdded
  <2>3. QED
    BY <2>1, <2>2 DEF Confirm, ActivatePrivate
<1>14. QED
  BY <1>11, <1>12, <1>13, InvNext
\* An acknowledged notice is remembered as acknowledged; the rows do not change.
LEMMA InvAcknowledge ==
  ASSUME HistoryInv, TypeOK', NoticesKept,
         rows' = rows, memoryEvents' = memoryEvents,
         erased' = erased, issued' = issued
  PROVE  HistoryInv'
<1> USE InvByConversation
<1>1. ASSUME NEW d \in Conversation PROVE Local(d)'
  BY LocalKept DEF RowsKept, rows
<1>2. ReceiptsFinal'
  BY ReceiptsKept DEF Ever, rows
<1>3. EventsCounted'
  <2>1. \A d \in Conversation : revision[d] <= revision'[d]
    BY MaxRevisionAssumption DEF TypeOK, rows
  <2>2. status' = status
    BY DEF rows
  <2>3. QED
    BY <2>1, <2>2, EventsKept
<1>4. QED
  BY <1>1, <1>2, <1>3, InvNext

LEMMA InvInit == Init => HistoryInv
<1>1. Init => TypeOK
  BY MaxRevisionAssumption DEF Init, TypeOK
<1>2. Init => ReceiptsFinal /\ EventsCounted
  BY DEF Init, ReceiptsFinal, EventsCounted
<1>3. ASSUME Init, NEW c \in Conversation PROVE Local(c)
  BY <1>3 DEF Init, Local, Ever, Live
<1>4. QED
  BY <1>1, <1>2, <1>3, InvByConversation

LEMMA InvStep == HistoryInv /\ [Next]_vars => HistoryInv'
<1> SUFFICES ASSUME HistoryInv, [Next]_vars PROVE HistoryInv'
  OBVIOUS
<1>1. TypeOK /\ TypeOK'
  BY TypeStep DEF HistoryInv
<1>2. ASSUME NEW c \in Conversation, Create(c) PROVE HistoryInv'
  BY <1>1, <1>2, InvCreate
<1>3. ASSUME NEW c \in Conversation, Delete(c) PROVE HistoryInv'
  BY <1>1, <1>3, InvDelete
<1>4. ASSUME NEW c \in Conversation, NEW q \in Request, NEW f \in Fingerprint,
             AppendRetry(c, q, f)
      PROVE HistoryInv'
  BY <1>1, <1>4, InvRetry
<1>5. ASSUME NEW c \in Conversation, NEW q \in Request, NEW f \in Fingerprint,
             NEW r \in 0 .. MaxRevision, NEW s \in Submission, NEW a \in Answer,
             AppendNew(c, q, f, r, s, a)
      PROVE HistoryInv'
  BY <1>1, <1>5, InvAppend
<1>6. ASSUME NEW c \in Conversation, NEW r \in 0 .. MaxRevision, NEW p \in 0 .. MaxRevision,
             NEW scope \in {"selected", "following"}, DeleteTurns(c, r, p, scope)
      PROVE HistoryInv'
  BY <1>1, <1>6, InvDeleteTurns
<1>7. ASSUME NEW c \in Conversation, NEW r \in 0 .. MaxRevision, NEW p \in BOOLEAN,
             NEW a \in BOOLEAN, Controls(c, r, p, a)
      PROVE HistoryInv'
  BY <1>1, <1>7, InvControls
<1>8. ASSUME NEW c \in Conversation, NEW r \in 0 .. MaxRevision, NEW accept \in BOOLEAN,
             NEW t \in turns[c], NEW i \in t.pending, Confirm(c, r, t, i, accept)
      PROVE HistoryInv'
  BY <1>1, <1>8, InvConfirm
<1>9. ASSUME NEW n \in sourceDeletions, AcknowledgeDeletion(n) PROVE HistoryInv'
  <2>1. NoticesKept
    BY <1>9 DEF AcknowledgeDeletion, NoticesKept
  <2>2. QED
    BY <1>1, <1>9, <2>1, InvAcknowledge DEF AcknowledgeDeletion
<1>10. ASSUME NEW n \in turnDeletions, AcknowledgeTurnDeletion(n) PROVE HistoryInv'
  <2>1. NoticesKept
    BY <1>10 DEF AcknowledgeTurnDeletion, NoticesKept
  <2>2. QED
    BY <1>1, <1>10, <2>1, InvAcknowledge DEF AcknowledgeTurnDeletion
<1>11. CASE UNCHANGED vars
  <2>1. NoticesKept
    BY <1>11 DEF vars, outboxes, observed, acked, NoticesKept
  <2>2. QED
    BY <1>1, <1>11, <2>1, InvAcknowledge DEF vars, outboxes, observed, acked
<1>12. QED
  BY <1>2, <1>3, <1>4, <1>5, <1>6, <1>7, <1>8, <1>9, <1>10, <1>11
     DEF Next, Retry, Commit, Forget, Control, Reply

\* The inductive invariant holds in every state of the store.
THEOREM HistoryCorrect == Spec => []HistoryInv
BY InvInit, InvStep, PTL DEF Spec

\* A revision and a request id name one turn of a conversation for ever, and a
\* sender is never given two different answers for one request id.
THEOREM RequestsIdempotent == Spec => [](TurnIdentity /\ ReceiptsFinal)
<1>1. HistoryInv => TurnIdentity /\ ReceiptsFinal
  BY DEF HistoryInv
<1>2. QED
  BY <1>1, HistoryCorrect, PTL

\* One request id, one answer: an append repeated at any time, after deletions and
\* confirmations too, is told what the first one was told.
THEOREM ReceiptsAreFinal == Spec => []ReceiptsFinal
BY RequestsIdempotent, PTL

\* Whatever is gone has been announced, in the outboxes or to whoever emptied them.
THEOREM DeletionsAnnounced == Spec => []NoticesCoverErased
<1>1. HistoryInv => NoticesCoverErased
  BY DEF HistoryInv
<1>2. QED
  BY <1>1, HistoryCorrect, PTL

\* No usable answer echoes a turn that is private, excluded or waiting to be cleared.
THEOREM NothingEchoed == Spec => []NoEchoedSource
<1>1. ASSUME HistoryInv PROVE NoEchoedSource
  <2> SUFFICES ASSUME NEW c \in Conversation, NEW t \in turns[c],
                      NEW i \in Generated(t.messages), Eligible(c, t.revision, i),
                      NEW u \in Ever(c), u.revision \in t.heard
               PROVE  ~Restricted(u)
    BY DEF NoEchoedSource
  <2> USE <1>1 DEF HistoryInv
  <2>1. PICK v \in turns[c] : v.revision = t.revision /\ Open(v, i)
    BY DEF Eligible
  <2>2. v = t
    BY <2>1 DEF TurnIdentity, Ever
  <2>3. ~t.private /\ t.excluded = {}
    BY <2>1, <2>2 DEF Open, ExcludedWhole
  <2>4. QED
    BY <2>3 DEF CleanLineage
<1>2. QED
  BY <1>1, HistoryCorrect, PTL
-----------------------------------------------------------------------------
(***************************************************************************)
(* Action properties.                                                      *)
(***************************************************************************)
\* Revocations of a live conversation are told apart by the revision they were
\* recorded at, so recording one always adds one.
LEMMA RevocationIsNew ==
  ASSUME HistoryInv, NEW c \in Conversation, Live(c), NEW e, NEW reason,
         Revoke(c, e, reason)
  PROVE  \E x \in memoryEvents' \ memoryEvents : x.conversation = c
<1> DEFINE x == [conversation |-> c, epoch |-> e, reason |-> reason, at |-> revision[c]]
<1>1. x \in memoryEvents'
  BY DEF Revoke
<1>2. x.conversation = c /\ x.at = revision[c]
  OBVIOUS
<1> HIDE DEF x
<1>3. ASSUME x \in memoryEvents PROVE FALSE
  <2>1. x.at < revision[c]
    BY <1>2, <1>3 DEF HistoryInv, EventsCounted, Live
  <2>2. revision[c] \in Nat
    BY MaxRevisionAssumption DEF HistoryInv, TypeOK
  <2>3. QED
    BY <1>2, <2>1, <2>2
<1>4. QED
  BY <1>1, <1>2, <1>3

Withdrawn(c) ==
  \E t \in turns[c] : \E i \in DOMAIN t.messages :
    Eligible(c, t.revision, i) /\ ~Eligible(c, t.revision, i)'

\* A conversation whose rows stay as they are, or only grow, loses no source.
LEMMA NothingWithdrawn ==
  ASSUME NEW c, turns[c] \subseteq turns'[c], privateMode'[c] = privateMode[c]
  PROVE  ~Withdrawn(c)
BY DEF Withdrawn, Eligible

\* Switching private mode on either finds the conversation private already, and
\* then there is nothing to withdraw, or revokes.
LEMMA PrivateRevokes ==
  ASSUME HistoryInv, NEW c \in Conversation, Live(c), ActivatePrivate(c), Withdrawn(c)
  PROVE  \E x \in memoryEvents' \ memoryEvents : x.conversation = c
<1>1. ~privateMode[c]
  BY DEF Withdrawn, Eligible
<1>2. Revoke(c, epoch[c] + 1, "private")
  BY <1>1 DEF ActivatePrivate
<1>3. QED
  BY <1>2, RevocationIsNew

\* A refusal leaves every message at least as open as it was.
LEMMA RefusalWithdrawsNothing ==
  ASSUME TypeOK, NEW c \in Conversation, NEW t \in turns[c], NEW i \in t.pending,
         turns'[c] = (turns[c] \ {t}) \cup {Resolved(t, i, FALSE)},
         privateMode'[c] = privateMode[c]
  PROVE  ~Withdrawn(c)
<1> DEFINE v == Resolved(t, i, FALSE)
<1>1. /\ v.revision = t.revision /\ v.messages = t.messages /\ v.private = t.private
      /\ v.excluded = t.excluded /\ v.pending \subseteq t.pending
      /\ v.accepted = t.accepted
  BY DEF Resolved, Turn, TypeOK
<1> HIDE DEF v
<1>2. \A k : Open(t, k) => Open(v, k)
  BY <1>1 DEF Open, Blocked
<1>3. QED
  BY <1>1, <1>2 DEF Withdrawn, Eligible, v

\* Whatever takes a usable source away says so in the same step.
THEOREM WithdrawalsRevoke == Spec => EveryWithdrawalRevokes
<1>1. ASSUME HistoryInv, [Next]_vars, NEW d \in Conversation, Withdrawn(d)
      PROVE  \E x \in memoryEvents' \ memoryEvents : x.conversation = d
  <2> USE <1>1 DEF HistoryInv
  <2>1. ASSUME NEW c \in Conversation, Create(c) PROVE FALSE
    BY <2>1, NothingWithdrawn DEF Create
  <2>2. ASSUME NEW c \in Conversation, Delete(c)
        PROVE  \E x \in memoryEvents' \ memoryEvents : x.conversation = d
    <3>1. CASE d = c
      BY <2>2, <3>1, RevocationIsNew DEF Delete
    <3>2. CASE d # c
      <4>1. turns'[d] = turns[d] /\ privateMode'[d] = privateMode[d]
        BY <2>2, <3>2 DEF Delete, TypeOK
      <4>2. QED
        BY <4>1, NothingWithdrawn
    <3>3. QED
      BY <3>1, <3>2
  <2>3. ASSUME NEW c \in Conversation, NEW q \in Request, NEW f \in Fingerprint,
               AppendRetry(c, q, f)
        PROVE  FALSE
    BY <2>3, NothingWithdrawn DEF AppendRetry, rows
  <2>4. ASSUME NEW c \in Conversation, NEW q \in Request, NEW f \in Fingerprint,
               NEW r \in 0 .. MaxRevision, NEW s \in Submission, NEW a \in Answer,
               AppendNew(c, q, f, r, s, a)
        PROVE  FALSE
    <3>1. turns[d] \subseteq turns'[d] /\ privateMode'[d] = privateMode[d]
      BY <2>4 DEF AppendNew, TypeOK
    <3>2. QED
      BY <3>1, NothingWithdrawn
  <2>5. ASSUME NEW c \in Conversation, NEW r \in 0 .. MaxRevision,
               NEW p \in 0 .. MaxRevision, NEW scope \in {"selected", "following"},
               DeleteTurns(c, r, p, scope)
        PROVE  \E x \in memoryEvents' \ memoryEvents : x.conversation = d
    <3>1. CASE d = c
      BY <2>5, <3>1, RevocationIsNew DEF DeleteTurns, AdvanceRevision
    <3>2. CASE d # c
      <4>1. turns'[d] = turns[d] /\ privateMode'[d] = privateMode[d]
        BY <2>5, <3>2 DEF DeleteTurns, TypeOK
      <4>2. QED
        BY <4>1, NothingWithdrawn
    <3>3. QED
      BY <3>1, <3>2
  <2>6. ASSUME NEW c \in Conversation, NEW r \in 0 .. MaxRevision, NEW p \in BOOLEAN,
               NEW a \in BOOLEAN, Controls(c, r, p, a)
        PROVE  \E x \in memoryEvents' \ memoryEvents : x.conversation = d
    <3>1. CASE d # c
      <4>1. turns'[d] = turns[d] /\ privateMode'[d] = privateMode[d]
        BY <2>6, <3>1 DEF Controls, TypeOK
      <4>2. QED
        BY <4>1, NothingWithdrawn
    <3>2. CASE d = c /\ p
      BY <2>6, <3>2, PrivateRevokes DEF Controls, AdvanceRevision
    <3>3. CASE d = c /\ ~p
      <4>1. turns'[c] = turns[c] /\ ~privateMode'[c]
        BY <2>6, <3>3 DEF Controls, TypeOK
      <4>2. QED
        BY <3>3, <4>1 DEF Withdrawn, Eligible
    <3>4. QED
      BY <3>1, <3>2, <3>3
  <2>7. ASSUME NEW c \in Conversation, NEW r \in 0 .. MaxRevision,
               NEW accept \in BOOLEAN, NEW t \in turns[c], NEW i \in t.pending,
               Confirm(c, r, t, i, accept)
        PROVE  \E x \in memoryEvents' \ memoryEvents : x.conversation = d
    <3>1. CASE d # c
      <4>1. turns'[d] = turns[d] /\ privateMode'[d] = privateMode[d]
        BY <2>7, <3>1 DEF Confirm, TypeOK
      <4>2. QED
        BY <4>1, NothingWithdrawn
    <3>2. CASE d = c /\ accept
      BY <2>7, <3>2, PrivateRevokes DEF Confirm, AdvanceRevision
    <3>3. CASE d = c /\ ~accept
      <4>1. /\ turns'[c] = (turns[c] \ {t}) \cup {Resolved(t, i, FALSE)}
            /\ privateMode'[c] = privateMode[c]
        BY <2>7, <3>3 DEF Confirm, TypeOK
      <4>2. QED
        BY <3>3, <4>1, RefusalWithdrawsNothing
    <3>4. QED
      BY <3>1, <3>2, <3>3
  <2>8. ASSUME NEW n \in sourceDeletions, AcknowledgeDeletion(n) PROVE FALSE
    BY <2>8, NothingWithdrawn DEF AcknowledgeDeletion, rows
  <2>9. ASSUME NEW n \in turnDeletions, AcknowledgeTurnDeletion(n) PROVE FALSE
    BY <2>9, NothingWithdrawn DEF AcknowledgeTurnDeletion, rows
  <2>10. CASE UNCHANGED vars
    BY <2>10, NothingWithdrawn DEF vars, rows
  <2>11. QED
    BY <2>1, <2>2, <2>3, <2>4, <2>5, <2>6, <2>7, <2>8, <2>9, <2>10
       DEF Next, Retry, Commit, Forget, Control, Reply
<1>2. HistoryInv /\ [Next]_vars =>
        [\A c \in Conversation :
           (\E t \in turns[c] : \E i \in DOMAIN t.messages :
              Eligible(c, t.revision, i) /\ ~Eligible(c, t.revision, i)')
           => \E e \in memoryEvents' \ memoryEvents : e.conversation = c]_vars
  BY <1>1 DEF Withdrawn
<1>3. QED
  BY <1>2, HistoryCorrect, PTL DEF Spec, EveryWithdrawalRevokes
\* Nothing disappears from a conversation whose turns keep their revisions.
LEMMA NothingSeparated ==
  ASSUME NEW c, Revisions(turns[c]) \subseteq Revisions(turns'[c])
  PROVE  Whole(Connections(turns[c]), Revisions(turns[c]) \ Revisions(turns'[c]))
BY DEF Whole

\* A deletion of turns never separates a tool call from its result.
THEOREM PairsStayWhole == Spec => ToolPairsWhole
<1>1. ASSUME TypeOK, [Next]_vars, NEW d \in Conversation, Live(d), Live(d)'
      PROVE  Whole(Connections(turns[d]), Revisions(turns[d]) \ Revisions(turns'[d]))
  <2> USE <1>1
  <2>1. CASE turns[d] \subseteq turns'[d]
    BY <2>1, NothingSeparated DEF Revisions
  <2>2. ASSUME NEW c \in Conversation, Delete(c) PROVE turns[d] \subseteq turns'[d]
    BY <2>2 DEF Delete, Live, TypeOK
  <2>3. ASSUME NEW c \in Conversation, NEW q \in Request, NEW f \in Fingerprint,
               NEW r \in 0 .. MaxRevision, NEW s \in Submission, NEW a \in Answer,
               AppendNew(c, q, f, r, s, a)
        PROVE  turns[d] \subseteq turns'[d]
    BY <2>3 DEF AppendNew, TypeOK
  <2>4. ASSUME NEW c \in Conversation, NEW r \in 0 .. MaxRevision,
               NEW p \in 0 .. MaxRevision, NEW scope \in {"selected", "following"},
               DeleteTurns(c, r, p, scope)
        PROVE  Whole(Connections(turns[d]), Revisions(turns[d]) \ Revisions(turns'[d]))
    <3> DEFINE gone == Selection(turns[c], p, scope)
               lost == {t \in turns[c] : t.revision \in gone}
    <3>1. turns' = [turns EXCEPT ![c] = @ \ lost]
      BY <2>4 DEF DeleteTurns
    <3>2. gone \subseteq Revisions(turns[c]) /\ Whole(Connections(turns[c]), gone)
      BY SelectionIsWhole
    <3> HIDE DEF gone
    <3>3. CASE d = c
      <4>1. turns'[c] = turns[c] \ lost
        BY <3>1 DEF TypeOK
      <4>2. Revisions(turns[c]) \ Revisions(turns'[c]) = gone
        BY <3>2, <4>1 DEF Revisions
      <4>3. QED
        BY <3>2, <3>3, <4>2
    <3>4. CASE d # c
      BY <2>1, <3>1, <3>4 DEF TypeOK
    <3>5. QED
      BY <3>3, <3>4
  <2>5. ASSUME NEW c \in Conversation, NEW r \in 0 .. MaxRevision,
               NEW accept \in BOOLEAN, NEW t \in turns[c], NEW i \in t.pending,
               Confirm(c, r, t, i, accept)
        PROVE  Whole(Connections(turns[d]), Revisions(turns[d]) \ Revisions(turns'[d]))
    <3>1. turns' = [turns EXCEPT ![c] = (@ \ {t}) \cup {Resolved(t, i, accept)}]
      BY <2>5 DEF Confirm
    <3>2. Resolved(t, i, accept).revision = t.revision
      BY ResolvedFields DEF TypeOK
    <3>3. Revisions(turns[d]) \subseteq Revisions(turns'[d])
      <4>1. CASE d = c
        BY <3>1, <3>2, <4>1 DEF Revisions, TypeOK
      <4>2. CASE d # c
        BY <3>1, <4>2 DEF Revisions, TypeOK
      <4>3. QED
        BY <4>1, <4>2
    <3>4. QED
      BY <3>3, NothingSeparated
  <2>6. CASE turns' = turns
    BY <2>1, <2>6
  <2>7. QED
    BY <2>1, <2>2, <2>3, <2>4, <2>5, <2>6
       DEF Next, Retry, Commit, Forget, Control, Reply, Create, AppendRetry, Controls,
           AcknowledgeDeletion, AcknowledgeTurnDeletion, rows, vars
<1>2. TypeOK /\ [Next]_vars =>
        [\A c \in Conversation : Live(c) /\ Live(c)' =>
           Whole(Connections(turns[c]),
                 Revisions(turns[c]) \ Revisions(turns[c])')]_vars
  BY <1>1 DEF Revisions
<1>3. QED
  BY <1>2, TypeCorrect, PTL DEF Spec, ToolPairsWhole

-----------------------------------------------------------------------------
\* The names a ledger holds back.
HeldNames(S) == Names(S) \ (OpenNames(S) \cup BarredNames(S))

\* The names of two sets of turns are those of either.
LEMMA NamesOfUnion ==
  ASSUME NEW A, NEW B
  PROVE  /\ Names(A \cup B) = Names(A) \cup Names(B)
         /\ OpenNames(A \cup B) = OpenNames(A) \cup OpenNames(B)
         /\ BarredNames(A \cup B) = BarredNames(A) \cup BarredNames(B)
<1>1. Names(A \cup B) = Names(A) \cup Names(B)
  BY DEF Names
<1>2. OpenNames(A \cup B) = OpenNames(A) \cup OpenNames(B)
  BY DEF OpenNames
<1>3. BarredNames(A \cup B) = BarredNames(A) \cup BarredNames(B)
  BY DEF BarredNames
<1>4. QED
  BY <1>1, <1>2, <1>3

LEMMA NamesOfNone == Names({}) = {} /\ OpenNames({}) = {} /\ BarredNames({}) = {}
BY DEF Names, OpenNames, BarredNames

\* A name starts with the revision of its turn, and standing is given to names only.
LEMMA NamesOfTurns ==
  ASSUME NEW S
  PROVE  /\ \A x \in Names(S) : \E t \in S : x[1] = t.revision
         /\ OpenNames(S) \subseteq Names(S)
         /\ BarredNames(S) \subseteq Names(S)
<1>1. \A x \in Names(S) : \E t \in S : x[1] = t.revision
  BY DEF Names
<1>2. OpenNames(S) \subseteq Names(S)
  BY DEF Names, OpenNames
<1>3. BarredNames(S) \subseteq Names(S)
  BY DEF Names, BarredNames
<1>4. QED
  BY <1>1, <1>2, <1>3

\* Turns with different revisions share no name.
LEMMA NamesApart ==
  ASSUME NEW A, NEW B, \A t \in A, u \in B : t.revision # u.revision
  PROVE  Names(A) \cap Names(B) = {}
<1>1. ASSUME NEW x \in Names(A), x \in Names(B) PROVE FALSE
  <2>1. PICK t \in A : x[1] = t.revision
    BY NamesOfTurns
  <2>2. PICK u \in B : x[1] = u.revision
    BY <1>1, NamesOfTurns
  <2>3. QED
    BY <2>1, <2>2
<1>2. QED
  BY <1>1

LEMMA NamesOfOne ==
  ASSUME NEW t
  PROVE  /\ Names({t}) = {t.revision} \X DOMAIN t.messages
         /\ OpenNames({t}) = {t.revision} \X {i \in DOMAIN t.messages : Open(t, i)}
         /\ BarredNames({t}) = {t.revision} \X {i \in DOMAIN t.messages : Barred(t, i)}
<1>1. Names({t}) = {t.revision} \X DOMAIN t.messages
  BY DEF Names
<1>2. OpenNames({t}) = {t.revision} \X {i \in DOMAIN t.messages : Open(t, i)}
  BY DEF OpenNames
<1>3. BarredNames({t}) = {t.revision} \X {i \in DOMAIN t.messages : Barred(t, i)}
  BY DEF BarredNames
<1>4. QED
  BY <1>1, <1>2, <1>3

LEMMA RowOfPairs ==
  ASSUME NEW r, NEW k, NEW D, NEW E, E = D \cup {k}
  PROVE  /\ {r} \X E = ({r} \X D) \cup {<<r, k>>}
         /\ <<r, k>> \in {r} \X D <=> k \in D
OBVIOUS

LEMMA LedgerInit == Init => Ledger!Init
<1> SUFFICES ASSUME Init PROVE Ledger!Init
  OBVIOUS
<1>1. \A c \in Conversation : turns[c] = {} /\ erased[c] = {} /\ ~privateMode[c]
  BY DEF Init
<1>2. privateMode = [c \in Conversation |-> FALSE]
  BY DEF Init
<1>3. QED
  BY <1>1, <1>2, NamesOfNone DEF Ledger!Init

\* The turns and the mode of every other conversation stay as they are.
Others(c) ==
  \A d \in Conversation \ {c} :
    turns'[d] = turns[d] /\ erased'[d] = erased[d] /\ privateMode'[d] = privateMode[d]

LEMMA LedgerElsewhere ==
  ASSUME NEW c \in Conversation, Others(c)
  PROVE  Ledger!Elsewhere(c)
BY DEF Others, Ledger!Elsewhere

\* Saving a turn under a revision of its own saves its messages as sources.
LEMMA LedgerSave ==
  ASSUME NEW c \in Conversation, NEW t,
         turns'[c] = turns[c] \cup {t}, erased'[c] = erased[c],
         privateMode'[c] = privateMode[c],
         \A u \in Ever(c) : u.revision < t.revision,
         \A u \in Ever(c) \cup {t} : u.revision \in Nat
  PROVE  Ledger!Save(c)
<1> DEFINE N == Names({t})
<1>1. /\ Names(turns[c]) \cap N = {}
      /\ Names(erased[c]) \cap N = {}
  BY NamesApart DEF Ever
<1>2. /\ OpenNames(turns[c]) \subseteq Names(turns[c])
      /\ BarredNames(turns[c]) \subseteq Names(turns[c])
      /\ OpenNames({t}) \subseteq N
      /\ BarredNames({t}) \subseteq N
  BY NamesOfTurns
<1>3. /\ Names(turns'[c]) = Names(turns[c]) \cup N
      /\ OpenNames(turns'[c]) = OpenNames(turns[c]) \cup OpenNames({t})
      /\ BarredNames(turns'[c]) = BarredNames(turns[c]) \cup BarredNames({t})
  <2> DEFINE S == turns[c]
  <2>1. /\ Names(S \cup {t}) = Names(S) \cup N
        /\ OpenNames(S \cup {t}) = OpenNames(S) \cup OpenNames({t})
        /\ BarredNames(S \cup {t}) = BarredNames(S) \cup BarredNames({t})
    BY NamesOfUnion
  <2>2. QED
    BY <2>1
<1>4. Ledger!Known(c) = Names(turns[c]) \cup Names(erased[c])
  BY <1>2 DEF Ledger!Known
<1>5. Ledger!Known(c)' = Names(turns[c]) \cup N \cup Names(erased[c])
  BY <1>2, <1>3 DEF Ledger!Known
<1>6. Ledger!Known(c)' \ Ledger!Known(c) = N
  BY <1>1, <1>4, <1>5
<1>7. \A x \in N : x[1] = t.revision
  BY NamesOfTurns
<1>8. \A y \in Ledger!Known(c) : y[1] < t.revision
  BY <1>4, NamesOfTurns DEF Ever
<1> HIDE DEF N
<1>9. QED
  BY <1>1, <1>2, <1>3, <1>6, <1>7, <1>8 DEF Ledger!Save

\* Turns that move to the erased ones take their names with them, and no others.
LEMMA LedgerErase ==
  ASSUME NEW c \in Conversation, NEW lost, lost \subseteq turns[c],
         turns'[c] = turns[c] \ lost, erased'[c] = erased[c] \cup lost,
         \A t, u \in Ever(c) : t.revision = u.revision => t = u,
         turns[c] \cap erased[c] = {},
         privateMode'[c] = privateMode[c] \/ lost = turns[c]
  PROVE  Ledger!Erase(c)
<1> DEFINE kept == turns[c] \ lost
           N == Names(lost)
<1>1. turns[c] = kept \cup lost /\ turns'[c] = kept
  OBVIOUS
<1>2. \A t \in lost : \A u \in kept \cup erased[c] : t.revision # u.revision
  BY DEF Ever
<1> HIDE DEF kept
<1>3. Names(kept) \cap N = {} /\ Names(erased[c]) \cap N = {}
  BY <1>2, NamesApart
<1>4. /\ OpenNames(kept) \subseteq Names(kept) /\ BarredNames(kept) \subseteq Names(kept)
      /\ OpenNames(lost) \subseteq N /\ BarredNames(lost) \subseteq N
  BY NamesOfTurns
<1>5. /\ Names(turns[c]) = Names(kept) \cup N
      /\ OpenNames(turns[c]) = OpenNames(kept) \cup OpenNames(lost)
      /\ BarredNames(turns[c]) = BarredNames(kept) \cup BarredNames(lost)
  <2>1. /\ Names(kept \cup lost) = Names(kept) \cup N
        /\ OpenNames(kept \cup lost) = OpenNames(kept) \cup OpenNames(lost)
        /\ BarredNames(kept \cup lost) = BarredNames(kept) \cup BarredNames(lost)
    BY NamesOfUnion
  <2>2. QED
    BY <1>1, <2>1
<1>6. Names(erased'[c]) = Names(erased[c]) \cup N
  <2> DEFINE E == erased[c]
  <2>1. Names(E \cup lost) = Names(E) \cup N
    BY NamesOfUnion
  <2>2. QED
    BY <2>1
<1>7. Ledger!Known(c) = Names(turns[c]) \cup Names(erased[c])
  BY <1>4, <1>5 DEF Ledger!Known
<1>8. lost = turns[c] => N = Names(turns[c])
  OBVIOUS
<1> HIDE DEF N
<1>9. Names(erased'[c]) \ Names(erased[c]) = N
  BY <1>3, <1>6
<1>10. /\ OpenNames(turns'[c]) = OpenNames(turns[c]) \ N
       /\ BarredNames(turns'[c]) = BarredNames(turns[c]) \ N
       /\ Names(turns'[c]) = Names(turns[c]) \ N
  BY <1>1, <1>3, <1>4, <1>5
<1>11. QED
  BY <1>5, <1>6, <1>7, <1>8, <1>9, <1>10 DEF Ledger!Erase

\* Two states in which a conversation has the same sources in the same standing.
SameSources(c) ==
  /\ OpenNames(turns'[c]) = OpenNames(turns[c])
  /\ BarredNames(turns'[c]) = BarredNames(turns[c])
  /\ Names(turns'[c]) = Names(turns[c])
  /\ Names(erased'[c]) = Names(erased[c])

LEMMA LedgerHide ==
  ASSUME NEW c \in Conversation, SameSources(c)
  PROVE  Ledger!Hide(c)
BY DEF SameSources, Ledger!Hide

\* An answer that concerns a message which is barred anyway, or which does not
\* exist, leaves every source in its standing.
LEMMA AnswerToBarred ==
  ASSUME NEW t \in Turn, NEW i \in t.pending, NEW accept \in BOOLEAN,
         i \in DOMAIN t.messages => Barred(t, i)
  PROVE  LET v == Resolved(t, i, accept) IN
         /\ Names({v}) = Names({t})
         /\ OpenNames({v}) = OpenNames({t})
         /\ BarredNames({v}) = BarredNames({t})
<1> DEFINE v == Resolved(t, i, accept)
<1>1. /\ v.revision = t.revision /\ v.messages = t.messages /\ v.private = t.private
      /\ v.excluded = t.excluded /\ v.pending = t.pending \ {i}
      /\ v.accepted \subseteq t.accepted \cup {i}
      /\ t.accepted \subseteq v.accepted
  BY ResolvedFields DEF Resolved, Turn
<1> HIDE DEF v
<1>2. \A k \in DOMAIN t.messages : Open(v, k) <=> Open(t, k)
  BY <1>1 DEF Open, Barred, Blocked
<1>3. \A k \in DOMAIN t.messages : Barred(v, k) <=> Barred(t, k)
  BY <1>1 DEF Barred
<1>4. QED
  BY <1>1, <1>2, <1>3, NamesOfOne DEF v

\* Any other answer moves that one message: a refusal opens it, an acceptance
\* bars it.
LEMMA AnswerToHeld ==
  ASSUME NEW t \in Turn, NEW i \in t.pending,
         i \in DOMAIN t.messages, ~Barred(t, i)
  PROVE  /\ <<t.revision, i>> \in HeldNames({t})
         /\ Names({Resolved(t, i, FALSE)}) = Names({t})
         /\ OpenNames({Resolved(t, i, FALSE)}) = OpenNames({t}) \cup {<<t.revision, i>>}
         /\ BarredNames({Resolved(t, i, FALSE)}) = BarredNames({t})
         /\ Names({Resolved(t, i, TRUE)}) = Names({t})
         /\ OpenNames({Resolved(t, i, TRUE)}) = OpenNames({t})
         /\ BarredNames({Resolved(t, i, TRUE)}) = BarredNames({t}) \cup {<<t.revision, i>>}
<1>1. <<t.revision, i>> \in HeldNames({t})
  <2> DEFINE r == t.revision
             D == DOMAIN t.messages
             O == {k \in DOMAIN t.messages : Open(t, k)}
             B == {k \in DOMAIN t.messages : Barred(t, k)}
  <2>1. i \in D /\ i \notin O /\ i \notin B
    BY DEF Open, Blocked
  <2> HIDE DEF D, O, B, r
  <2>2. <<r, i>> \in {r} \X D /\ <<r, i>> \notin {r} \X O /\ <<r, i>> \notin {r} \X B
    BY <2>1, RowOfPairs
  <2>3. QED
    BY <2>2, NamesOfOne DEF HeldNames, D, O, B, r
<1>2. /\ Names({Resolved(t, i, FALSE)}) = Names({t})
      /\ OpenNames({Resolved(t, i, FALSE)}) = OpenNames({t}) \cup {<<t.revision, i>>}
      /\ BarredNames({Resolved(t, i, FALSE)}) = BarredNames({t})
  <2> DEFINE v == Resolved(t, i, FALSE)
  <2>1. /\ v.revision = t.revision /\ v.messages = t.messages /\ v.private = t.private
        /\ v.excluded = t.excluded /\ v.pending = t.pending \ {i}
        /\ v.accepted = t.accepted
    BY DEF Resolved, Turn
  <2> HIDE DEF v
  <2>2. \A k \in DOMAIN t.messages : Open(v, k) <=> Open(t, k) \/ k = i
    BY <2>1 DEF Open, Barred, Blocked
  <2>3. \A k \in DOMAIN t.messages : Barred(v, k) <=> Barred(t, k)
    BY <2>1 DEF Barred
  <2>4. {k \in DOMAIN v.messages : Open(v, k)}
          = {k \in DOMAIN t.messages : Open(t, k)} \cup {i}
    BY <2>1, <2>2
  <2>5. {k \in DOMAIN v.messages : Barred(v, k)} = {k \in DOMAIN t.messages : Barred(t, k)}
    BY <2>1, <2>3
  <2>6. OpenNames({v}) = OpenNames({t}) \cup {<<t.revision, i>>}
    <3> DEFINE r == t.revision
               D == {k \in DOMAIN t.messages : Open(t, k)}
               E == {k \in DOMAIN v.messages : Open(v, k)}
    <3>1. OpenNames({t}) = {r} \X D /\ OpenNames({v}) = {r} \X E
      BY <2>1, NamesOfOne
    <3>2. E = D \cup {i}
      BY <2>4
    <3> HIDE DEF D, E, r
    <3>3. {r} \X E = ({r} \X D) \cup {<<r, i>>}
      BY <3>2, RowOfPairs
    <3>4. QED
      BY <3>1, <3>3 DEF r
  <2>7. QED
    BY <2>1, <2>5, <2>6, NamesOfOne DEF v
<1>3. /\ Names({Resolved(t, i, TRUE)}) = Names({t})
      /\ OpenNames({Resolved(t, i, TRUE)}) = OpenNames({t})
      /\ BarredNames({Resolved(t, i, TRUE)}) = BarredNames({t}) \cup {<<t.revision, i>>}
  <2> DEFINE v == Resolved(t, i, TRUE)
  <2>1. /\ v.revision = t.revision /\ v.messages = t.messages /\ v.private = t.private
        /\ v.excluded = t.excluded /\ v.pending = t.pending \ {i}
        /\ v.accepted = t.accepted \cup {i}
    BY DEF Resolved, Turn
  <2> HIDE DEF v
  <2>2. \A k \in DOMAIN t.messages : Open(v, k) <=> Open(t, k)
    BY <2>1 DEF Open, Barred, Blocked
  <2>3. \A k \in DOMAIN t.messages : Barred(v, k) <=> Barred(t, k) \/ k = i
    BY <2>1 DEF Barred
  <2>4. {k \in DOMAIN v.messages : Open(v, k)} = {k \in DOMAIN t.messages : Open(t, k)}
    BY <2>1, <2>2
  <2>5. {k \in DOMAIN v.messages : Barred(v, k)}
          = {k \in DOMAIN t.messages : Barred(t, k)} \cup {i}
    BY <2>1, <2>3
  <2>6. BarredNames({v}) = BarredNames({t}) \cup {<<t.revision, i>>}
    <3> DEFINE r == t.revision
               D == {k \in DOMAIN t.messages : Barred(t, k)}
               E == {k \in DOMAIN v.messages : Barred(v, k)}
    <3>1. BarredNames({t}) = {r} \X D /\ BarredNames({v}) = {r} \X E
      BY <2>1, NamesOfOne
    <3>2. E = D \cup {i}
      BY <2>5
    <3> HIDE DEF D, E, r
    <3>3. {r} \X E = ({r} \X D) \cup {<<r, i>>}
      BY <3>2, RowOfPairs
    <3>4. QED
      BY <3>1, <3>3 DEF r
  <2>7. QED
    BY <2>1, <2>4, <2>6, NamesOfOne DEF v
<1>4. QED
  BY <1>1, <1>2, <1>3

\* Standing is shared out: nothing is open and barred at once.
LEMMA OpenNotBarred ==
  ASSUME NEW t
  PROVE  OpenNames({t}) \cap BarredNames({t}) = {}
<1>1. ASSUME NEW x \in OpenNames({t}), x \in BarredNames({t}) PROVE FALSE
  <2>1. x \in {t.revision} \X {k \in DOMAIN t.messages : Open(t, k)}
    BY NamesOfOne
  <2>2. x \in {t.revision} \X {k \in DOMAIN t.messages : Barred(t, k)}
    BY <1>1, NamesOfOne
  <2>3. PICK k \in DOMAIN t.messages : Open(t, k) /\ x = <<t.revision, k>>
    BY <2>1
  <2>4. PICK j \in DOMAIN t.messages : Barred(t, j) /\ x = <<t.revision, j>>
    BY <2>2
  <2>5. k = j
    BY <2>3, <2>4
  <2>6. QED
    BY <2>3, <2>4, <2>5 DEF Open, Barred, Blocked
<1>2. QED
  BY <1>1

LEMMA LedgerConfirm ==
  ASSUME NEW c \in Conversation, NEW t \in turns[c], t \in Turn, NEW i \in t.pending,
         NEW accept \in BOOLEAN,
         turns'[c] = (turns[c] \ {t}) \cup {Resolved(t, i, accept)},
         erased'[c] = erased[c],
         \A u \in turns[c] : u.revision = t.revision => u = t,
         ~accept => privateMode'[c] = privateMode[c],
         accept => privateMode'[c]
  PROVE  Ledger!Hide(c) \/ Ledger!Release(c) \/ Ledger!Bar(c)
<1> DEFINE kept == turns[c] \ {t}
           v == Resolved(t, i, accept)
           s == <<t.revision, i>>
<1>1. /\ Names(turns[c]) = Names(kept) \cup Names({t})
      /\ OpenNames(turns[c]) = OpenNames(kept) \cup OpenNames({t})
      /\ BarredNames(turns[c]) = BarredNames(kept) \cup BarredNames({t})
  <2>1. turns[c] = kept \cup {t}
    OBVIOUS
  <2> HIDE DEF kept
  <2>2. /\ Names(kept \cup {t}) = Names(kept) \cup Names({t})
        /\ OpenNames(kept \cup {t}) = OpenNames(kept) \cup OpenNames({t})
        /\ BarredNames(kept \cup {t}) = BarredNames(kept) \cup BarredNames({t})
    BY NamesOfUnion
  <2>3. QED
    BY <2>1, <2>2
<1>2. /\ Names(turns'[c]) = Names(kept) \cup Names({v})
      /\ OpenNames(turns'[c]) = OpenNames(kept) \cup OpenNames({v})
      /\ BarredNames(turns'[c]) = BarredNames(kept) \cup BarredNames({v})
  <2>1. turns'[c] = kept \cup {v}
    OBVIOUS
  <2> HIDE DEF kept, v
  <2>2. /\ Names(kept \cup {v}) = Names(kept) \cup Names({v})
        /\ OpenNames(kept \cup {v}) = OpenNames(kept) \cup OpenNames({v})
        /\ BarredNames(kept \cup {v}) = BarredNames(kept) \cup BarredNames({v})
    BY NamesOfUnion
  <2>3. QED
    BY <2>1, <2>2
<1>3. Names(kept) \cap Names({t}) = {}
  BY NamesApart
<1>4. /\ OpenNames(kept) \subseteq Names(kept) /\ BarredNames(kept) \subseteq Names(kept)
      /\ OpenNames({t}) \subseteq Names({t}) /\ BarredNames({t}) \subseteq Names({t})
  BY NamesOfTurns
<1>5. OpenNames({t}) \cap BarredNames({t}) = {}
  BY OpenNotBarred
<1>6. Names(erased'[c]) = Names(erased[c])
  OBVIOUS
<1> HIDE DEF kept, s
<1>7. CASE i \in DOMAIN t.messages => Barred(t, i)
  <2>1. /\ Names({v}) = Names({t}) /\ OpenNames({v}) = OpenNames({t})
        /\ BarredNames({v}) = BarredNames({t})
    BY <1>7, AnswerToBarred
  <2>2. QED
    BY <1>1, <1>2, <1>6, <2>1, LedgerHide DEF SameSources
<1>8. CASE i \in DOMAIN t.messages /\ ~Barred(t, i) /\ ~accept
  <2>1. /\ Names({v}) = Names({t}) /\ OpenNames({v}) = OpenNames({t}) \cup {s}
        /\ BarredNames({v}) = BarredNames({t})
        /\ s \in HeldNames({t})
    BY <1>8, AnswerToHeld DEF s
  <2> HIDE DEF v
  <2>2. s \in HeldNames(turns[c])
    BY <1>1, <1>3, <1>4, <2>1 DEF HeldNames
  <2>3. HeldNames(turns'[c]) = HeldNames(turns[c]) \ {s}
    BY <1>1, <1>2, <1>3, <1>4, <2>1 DEF HeldNames
  <2>4. /\ OpenNames(turns'[c]) = OpenNames(turns[c]) \cup {s}
        /\ BarredNames(turns'[c]) = BarredNames(turns[c])
    BY <1>1, <1>2, <2>1
  <2>5. Ledger!Release(c)
    BY <1>6, <1>8, <2>2, <2>3, <2>4 DEF Ledger!Release, HeldNames
  <2>6. QED
    BY <2>5
<1>9. CASE i \in DOMAIN t.messages /\ ~Barred(t, i) /\ accept
  <2>1. /\ Names({v}) = Names({t}) /\ OpenNames({v}) = OpenNames({t})
        /\ BarredNames({v}) = BarredNames({t}) \cup {s}
        /\ s \in HeldNames({t})
    BY <1>9, AnswerToHeld DEF s
  <2> HIDE DEF v
  <2>2. s \in HeldNames(turns[c])
    BY <1>1, <1>3, <1>4, <2>1 DEF HeldNames
  <2>3. HeldNames(turns'[c]) = HeldNames(turns[c]) \ {s}
    BY <1>1, <1>2, <1>3, <1>4, <2>1 DEF HeldNames
  <2>4. /\ OpenNames(turns'[c]) = OpenNames(turns[c])
        /\ BarredNames(turns'[c]) = BarredNames(turns[c]) \cup {s}
    BY <1>1, <1>2, <2>1
  <2>5. Ledger!Bar(c)
    BY <1>6, <1>9, <2>2, <2>3, <2>4 DEF Ledger!Bar, HeldNames
  <2>6. QED
    BY <2>5
<1>10. QED
  BY <1>7, <1>8, <1>9

\* A step about the conversation c that the ledger allows.
LEMMA LedgerNext ==
  ASSUME NEW c \in Conversation, Others(c),
         Ledger!Save(c) \/ Ledger!Hide(c) \/ Ledger!Release(c) \/ Ledger!Bar(c)
           \/ Ledger!Erase(c)
  PROVE  Ledger!Next
BY LedgerElsewhere DEF Ledger!Next

LEMMA LedgerStep == HistoryInv /\ [Next]_vars => [Ledger!Next]_(Ledger!vars)
<1> SUFFICES ASSUME HistoryInv, [Next]_vars PROVE [Ledger!Next]_(Ledger!vars)
  OBVIOUS
<1> USE DEF HistoryInv
<1>1. CASE turns' = turns /\ erased' = erased /\ privateMode' = privateMode
  BY <1>1 DEF Ledger!vars
<1>2. ASSUME NEW c \in Conversation, Delete(c) PROVE Ledger!Next
  <2>1. Others(c)
    BY <1>2 DEF Others, Delete, TypeOK
  <2>2. turns'[c] = turns[c] \ turns[c] /\ erased'[c] = erased[c] \cup turns[c]
    BY <1>2 DEF Delete, TypeOK
  <2>3. turns[c] \cap erased[c] = {}
    BY <1>2 DEF Delete, Marked
  <2>4. \A t, u \in Ever(c) : t.revision = u.revision => t = u
    BY DEF TurnIdentity
  <2>5. Ledger!Erase(c)
    BY <2>2, <2>3, <2>4, LedgerErase
  <2>6. QED
    BY <2>1, <2>5, LedgerNext
<1>3. ASSUME NEW c \in Conversation, NEW q \in Request, NEW f \in Fingerprint,
             NEW r \in 0 .. MaxRevision, NEW s \in Submission, NEW a \in Answer,
             AppendNew(c, q, f, r, s, a)
      PROVE  Ledger!Next
  <2> DEFINE t == NewTurn(c, q, f, r, s, a)
  <2>1. turns' = [turns EXCEPT ![c] = @ \cup {t}] /\ erased' = erased
        /\ privateMode' = privateMode /\ Live(c) /\ r = revision[c]
    BY <1>3 DEF AppendNew, AdvanceRevision
  <2>2. t.revision = r + 1
    BY DEF NewTurn
  <2> HIDE DEF t
  <2>3. Others(c) /\ turns'[c] = turns[c] \cup {t}
    BY <2>1 DEF Others, TypeOK
  <2>4. \A u \in Ever(c) : u.revision \in Nat /\ u.revision <= r
    BY <2>1 DEF Counted, Ever, TypeOK, Turn
  <2>5. /\ \A u \in Ever(c) : u.revision < t.revision
        /\ \A u \in Ever(c) \cup {t} : u.revision \in Nat
    BY <2>2, <2>4, MaxRevisionAssumption
  <2>6. Ledger!Save(c)
    BY <2>1, <2>3, <2>5, LedgerSave
  <2>7. QED
    BY <2>3, <2>6, LedgerNext
<1>4. ASSUME NEW c \in Conversation, NEW r \in 0 .. MaxRevision,
             NEW p \in 0 .. MaxRevision, NEW scope \in {"selected", "following"},
             DeleteTurns(c, r, p, scope)
      PROVE  Ledger!Next
  <2> DEFINE lost == {t \in turns[c] : t.revision \in Selection(turns[c], p, scope)}
  <2>1. /\ turns' = [turns EXCEPT ![c] = @ \ lost]
        /\ erased' = [erased EXCEPT ![c] = @ \cup lost]
        /\ privateMode' = privateMode /\ Live(c)
    BY <1>4 DEF DeleteTurns, AdvanceRevision
  <2>2. lost \subseteq turns[c]
    OBVIOUS
  <2> HIDE DEF lost
  <2>3. Others(c) /\ turns'[c] = turns[c] \ lost /\ erased'[c] = erased[c] \cup lost
    BY <2>1 DEF Others, TypeOK
  <2>4. turns[c] \cap erased[c] = {}
    BY <2>1 DEF Marked
  <2>5. \A t, u \in Ever(c) : t.revision = u.revision => t = u
    BY DEF TurnIdentity
  <2>6. Ledger!Erase(c)
    BY <2>1, <2>2, <2>3, <2>4, <2>5, LedgerErase
  <2>7. QED
    BY <2>3, <2>6, LedgerNext
<1>5. ASSUME NEW c \in Conversation, NEW r \in 0 .. MaxRevision, NEW p \in BOOLEAN,
             NEW a \in BOOLEAN, Controls(c, r, p, a)
      PROVE  Ledger!Next
  <2>1. turns' = turns /\ erased' = erased /\ Others(c)
    BY <1>5 DEF Controls, observed, Others, TypeOK
  <2>2. Ledger!Hide(c)
    BY <2>1, LedgerHide DEF SameSources
  <2>3. QED
    BY <2>1, <2>2, LedgerNext
<1>6. ASSUME NEW c \in Conversation, NEW r \in 0 .. MaxRevision,
             NEW accept \in BOOLEAN, NEW t \in turns[c], NEW i \in t.pending,
             Confirm(c, r, t, i, accept)
      PROVE  Ledger!Next
  <2>1. /\ turns' = [turns EXCEPT ![c] = (@ \ {t}) \cup {Resolved(t, i, accept)}]
        /\ erased' = erased
        /\ accept => privateMode' = [privateMode EXCEPT ![c] = TRUE]
        /\ ~accept => privateMode' = privateMode
    BY <1>6 DEF Confirm, observed
  <2>2. /\ turns'[c] = (turns[c] \ {t}) \cup {Resolved(t, i, accept)}
        /\ \A d \in Conversation \ {c} : turns'[d] = turns[d]
        /\ accept => privateMode'[c]
    BY <2>1 DEF TypeOK
  <2>3. Others(c)
    BY <2>1, <2>2 DEF Others, TypeOK
  <2>4. t \in Turn
    BY DEF TypeOK
  <2>5. \A u \in turns[c] : u.revision = t.revision => u = t
    BY DEF TurnIdentity, Ever
  <2>6. Ledger!Hide(c) \/ Ledger!Release(c) \/ Ledger!Bar(c)
    BY <2>1, <2>2, <2>4, <2>5, LedgerConfirm
  <2>7. QED
    BY <2>3, <2>6, LedgerNext
<1>7. QED
  BY <1>1, <1>2, <1>3, <1>4, <1>5, <1>6
     DEF Next, Retry, Commit, Forget, Control, Reply, Create, AppendRetry,
         AcknowledgeDeletion, AcknowledgeTurnDeletion, rows, observed, vars

\* The store keeps every promise of the ledger: nothing barred or deleted is ever
\* usable again, nothing held is before the user's answer, and no name is reused.
THEOREM StoreKeepsLedger == Spec => KeepsLedger
<1>1. Spec => Ledger!Spec
  BY LedgerInit, LedgerStep, HistoryCorrect, PTL DEF Spec, Ledger!Spec
<1>2. QED
  BY <1>1 DEF KeepsLedger
=============================================================================
