---------------------------- MODULE HistoryStore ----------------------------
(***************************************************************************)
(* The PostgreSQL history adapter (postgres_history.py) for one Binding.   *)
(*                                                                         *)
(* Every method runs in one transaction that first takes an advisory lock  *)
(* on the Binding (postgres_db.py, transaction), so a method is one atomic *)
(* step; a method that raises rolls back and is no step at all.  What the  *)
(* methods do between transactions is the business of the modules that use *)
(* this one.                                                               *)
(*                                                                         *)
(* Message positions start at 1 here and at 0 in the code.                 *)
(***************************************************************************)
EXTENDS TurnSelection, FiniteSets

CONSTANTS
  Conversation,  \* the identifiers uuid4 hands out
  Request,       \* caller-chosen request ids
  Fingerprint,   \* hashes of a request body and its routing configuration
  Answer,        \* what the provider produced: content, finish reason, Card hash
  Tool,          \* tool call ids
  Submission,    \* what may be appended: [messages, marked, flagged]
  MaxRevision    \* bound on the revision counter of a conversation

Message == [role : {"user", "assistant", "tool"}, ids : SUBSET Tool]

\* complete() stores the incoming messages followed by the assistant's reply.
ASSUME SubmissionAssumption ==
  \A s \in Submission :
    /\ s \in [messages : Seq(Message),
              marked   : SUBSET Nat,    \* memory_excluded_indices
              flagged  : SUBSET Nat]    \* memory_confirmation_indices
    /\ Len(s.messages) > 0
    /\ s.messages[Len(s.messages)].role = "assistant"

ASSUME MaxRevisionAssumption == MaxRevision \in Nat

VARIABLES
  status,          \* "fresh" (id not issued yet), "live" or "deleted"
  revision,        \* conversations.revision
  epoch,           \* conversations.memory_epoch
  privateMode,     \* conversations.private_mode
  archived,        \* conversations.archived
  turns,           \* the rows of turns, per conversation
  tombstones,      \* the rows of turn_tombstones, per conversation
  sourceDeletions, \* outbox of whole deletions, not yet acknowledged
  turnDeletions,   \* outbox of turn deletions, not yet acknowledged
  memoryEvents,    \* the revocation events of memory_events
  (*------------------------ observability variables ----------------------*)
  erased,          \* turns that were stored once and are gone
  issued,          \* receipts that append has returned
  ackedSources,    \* whole-deletion notices a consumer has acknowledged
  ackedTurns       \* turn-deletion notices a consumer has acknowledged

rows == <<status, revision, epoch, privateMode, archived, turns, tombstones>>
outboxes == <<sourceDeletions, turnDeletions, memoryEvents>>
acked == <<ackedSources, ackedTurns>>
observed == <<erased, issued, acked>>
vars == <<rows, outboxes, observed>>

(***************************************************************************)
(* A row of turns.  pending, accepted and refused are the positions that   *)
(* memory_confirmation maps to None, True and False.  marked and heard are *)
(* observability: the caller's own exclusions, before append widens them,  *)
(* and the revisions whose text may echo in what was generated.            *)
(***************************************************************************)
Turn ==
  [request : Request, fingerprint : Fingerprint, answer : Answer,
   revision : Nat, messages : Seq(Message), private : BOOLEAN,
   excluded : SUBSET Nat,
   pending : SUBSET Nat, accepted : SUBSET Nat, refused : SUBSET Nat,
   marked : SUBSET Nat, heard : SUBSET Nat]

Receipt ==
  [conversation : Conversation, request : Request, fingerprint : Fingerprint,
   revision : Nat, answer : Answer]

ReceiptOf(c, t) ==
  [conversation |-> c, request |-> t.request, fingerprint |-> t.fingerprint,
   revision |-> t.revision, answer |-> t.answer]

Live(c) == status[c] = "live"

\* Every turn the conversation has ever stored.
Ever(c) == turns[c] \cup erased[c]

Generated(messages) ==
  {i \in DOMAIN messages : messages[i].role # "user"}

\* memory_confirmation.blocked
Blocked(t, i) == i \in t.pending \cup t.accepted

\* What a stored turn itself allows of its message i.
Open(t, i) ==
  /\ i \in DOMAIN t.messages
  /\ ~t.private
  /\ i \notin t.excluded
  /\ ~Blocked(t, i)

\* Message i of the turn saved as revision r may serve as a memory source: the
\* flag read() reports and the answer of source_eligible().
Eligible(c, r, i) ==
  /\ ~privateMode[c]
  /\ \E t \in turns[c] : t.revision = r /\ Open(t, i)

-----------------------------------------------------------------------------
Init ==
  /\ status = [c \in Conversation |-> "fresh"]
  /\ revision = [c \in Conversation |-> 0]
  /\ epoch = [c \in Conversation |-> 0]
  /\ privateMode = [c \in Conversation |-> FALSE]
  /\ archived = [c \in Conversation |-> FALSE]
  /\ turns = [c \in Conversation |-> {}]
  /\ tombstones = [c \in Conversation |-> {}]
  /\ sourceDeletions = {}
  /\ turnDeletions = {}
  /\ memoryEvents = {}
  /\ erased = [c \in Conversation |-> {}]
  /\ issued = {}
  /\ ackedSources = {}
  /\ ackedTurns = {}

\* schema.revoke and schema.revoke_turns: one event per revocation.  The code
\* tells rows apart by a fresh id; the revision at which the event is written
\* does the same here.
Revoke(c, e, reason) ==
  memoryEvents' = memoryEvents \cup
    {[conversation |-> c, epoch |-> e, reason |-> reason,
      at |-> revision[c]]}

\* Mutant: the revision is compared and not counted up.
CompareRevision(c, r) ==
  /\ Live(c)
  /\ revision[c] = r
  /\ revision' = revision

\* Compare-and-set: UPDATE conversations SET revision=revision+1 WHERE revision=r
AdvanceRevision(c, r) ==
  /\ Live(c)
  /\ revision[c] = r
  /\ revision[c] < MaxRevision
  /\ revision' = [revision EXCEPT ![c] = @ + 1]

Create(c) ==
  /\ status[c] = "fresh"
  /\ status' = [status EXCEPT ![c] = "live"]
  /\ UNCHANGED <<revision, epoch, privateMode, archived, turns, tombstones,
                 outboxes, observed>>

\* Mutant: only a deletion at the current revision is remembered.
SettledNow(c, q) ==
  \E d \in tombstones[c] : d.request = q /\ d.revision = revision[c]

\* _receipt: a tombstone means request_deleted.
Settled(c, q) == \E d \in tombstones[c] : d.request = q

\* Mutant: the bodies are not compared, and the receipt repeats the new one.
AppendRetryAny(c, q, f) ==
  /\ ~Settled(c, q)
  /\ \E t \in turns[c] :
       /\ t.request = q
       /\ issued' = issued \cup {ReceiptOf(c, [t EXCEPT !.fingerprint = f])}
  /\ UNCHANGED <<rows, outboxes, erased, acked>>

\* append, when the request id already has a row with the same fingerprint.
AppendRetry(c, q, f) ==
  /\ ~Settled(c, q)
  /\ \E t \in turns[c] :
       /\ t.request = q
       /\ t.fingerprint = f
       /\ issued' = issued \cup {ReceiptOf(c, t)}
  /\ UNCHANGED <<rows, outboxes, erased, acked>>

\* Exclusions name incoming messages, confirmations name user messages.
Acceptable(s) ==
  /\ s.marked \subseteq 1 .. (Len(s.messages) - 1)
  /\ s.flagged \subseteq
       {i \in 1 .. (Len(s.messages) - 1) : s.messages[i].role = "user"}

\* Mutant: a turn saved in private mode does not taint what follows it.
TaintedByMarks(c, s) ==
  s.marked # {} \/ \E t \in turns[c] : t.excluded # {}

Tainted(c, s) ==
  \/ s.marked # {}
  \/ \E t \in turns[c] : t.private \/ t.excluded # {}

Held(c, s) ==
  \/ s.flagged # {}
  \/ \E t \in turns[c] : t.pending \cup t.accepted # {}

\* What is generated can depend on the whole history that was supplied.
ExcludedBy(c, s) ==
  IF Tainted(c, s) \/ Held(c, s)
  THEN s.marked \cup Generated(s.messages)
  ELSE s.marked

\* Mutant: two columns of the INSERT are swapped.
NewTurnSwapped(c, q, f, r, s, a) ==
  [request |-> q, fingerprint |-> a, answer |-> f,
   revision |-> r + 1, messages |-> s.messages, private |-> privateMode[c],
   excluded |-> ExcludedBy(c, s),
   pending |-> s.flagged, accepted |-> {}, refused |-> {},
   marked |-> s.marked,
   heard |-> {r + 1} \cup UNION {t.heard : t \in turns[c]}]

NewTurn(c, q, f, r, s, a) ==
  [request |-> q, fingerprint |-> f, answer |-> a,
   revision |-> r + 1, messages |-> s.messages, private |-> privateMode[c],
   excluded |-> ExcludedBy(c, s),
   pending |-> s.flagged, accepted |-> {}, refused |-> {},
   marked |-> s.marked,
   heard |-> {r + 1} \cup UNION {t.heard : t \in turns[c]}]

\* append, when the request id is new: r is the revision of the caller's snapshot.
AppendNew(c, q, f, r, s, a) ==
  LET t == NewTurn(c, q, f, r, s, a) IN
  /\ ~Settled(c, q)
  /\ ~\E u \in turns[c] : u.request = q
  /\ AdvanceRevision(c, r)
  /\ Acceptable(s)
  /\ turns' = [turns EXCEPT ![c] = @ \cup {t}]
  /\ issued' = issued \cup {ReceiptOf(c, t)}
  /\ UNCHANGED <<status, epoch, privateMode, archived, tombstones,
                 outboxes, erased, acked>>

\* delete: the row goes and takes turns and tombstones with it (ON DELETE CASCADE).
Delete(c) ==
  /\ Live(c)
  /\ status' = [status EXCEPT ![c] = "deleted"]
  /\ sourceDeletions' = sourceDeletions \cup
       {[conversation |-> c, through |-> revision[c]]}
  /\ Revoke(c, epoch[c] + 1, "delete")
  /\ turns' = [turns EXCEPT ![c] = {}]
  /\ tombstones' = [tombstones EXCEPT ![c] = {}]
  /\ erased' = [erased EXCEPT ![c] = @ \cup turns[c]]
  /\ revision' = [revision EXCEPT ![c] = 0]
  /\ epoch' = [epoch EXCEPT ![c] = 0]
  /\ privateMode' = [privateMode EXCEPT ![c] = FALSE]
  /\ archived' = [archived EXCEPT ![c] = FALSE]
  /\ UNCHANGED <<turnDeletions, issued, acked>>

\* delete_turns: r is the expected revision, p the chosen turn.
DeleteTurns(c, r, p, scope) ==
  LET gone == Selection(turns[c], p, scope)
      lost == {t \in turns[c] : t.revision \in gone}
  IN
  /\ AdvanceRevision(c, r)
  /\ p \in Revisions(turns[c])
  /\ tombstones' = [tombstones EXCEPT ![c] = @ \cup
       {[request |-> t.request, revision |-> t.revision] : t \in lost}]
  /\ Revoke(c, epoch[c], "turn_delete")
  /\ turnDeletions' = turnDeletions \cup
       {[conversation |-> c, revisions |-> gone]}
  /\ turns' = [turns EXCEPT ![c] = @ \ lost]
  /\ erased' = [erased EXCEPT ![c] = @ \cup lost]
  /\ UNCHANGED <<status, epoch, privateMode, archived, sourceDeletions,
                 issued, acked>>

\* Mutant: the epoch moves and nothing is revoked.
ActivatePrivateQuietly(c) ==
  /\ epoch' = [epoch EXCEPT ![c] = IF privateMode[c] THEN @ ELSE @ + 1]
  /\ UNCHANGED memoryEvents

\* _activate_private, on the row as it was before the update; epoch and event
\* change only when the conversation was not private already.
ActivatePrivate(c) ==
  IF privateMode[c]
  THEN UNCHANGED <<epoch, memoryEvents>>
  ELSE /\ epoch' = [epoch EXCEPT ![c] = @ + 1]
       /\ Revoke(c, epoch[c] + 1, "private")

\* controls: p and a are the modes after COALESCE(change, current).
Controls(c, r, p, a) ==
  /\ AdvanceRevision(c, r)
  /\ privateMode' = [privateMode EXCEPT ![c] = p]
  /\ archived' = [archived EXCEPT ![c] = a]
  /\ IF p THEN ActivatePrivate(c) ELSE UNCHANGED <<epoch, memoryEvents>>
  /\ UNCHANGED <<status, turns, tombstones, sourceDeletions, turnDeletions,
                 observed>>

\* Mutant: an accepted confirmation is cleared like a refused one.
ResolvedAlike(t, i, accept) ==
  [t EXCEPT !.pending = @ \ {i}, !.refused = @ \cup {i}]

\* memory_confirmation.resolve
Resolved(t, i, accept) ==
  [t EXCEPT !.pending = @ \ {i},
            !.accepted = IF accept THEN @ \cup {i} ELSE @,
            !.refused = IF accept THEN @ ELSE @ \cup {i}]

\* confirm: the answer to one pending confirmation.
Confirm(c, r, t, i, accept) ==
  /\ AdvanceRevision(c, r)
  /\ t \in turns[c]
  /\ i \in t.pending
  /\ turns' = [turns EXCEPT ![c] = (@ \ {t}) \cup {Resolved(t, i, accept)}]
  /\ IF accept
     THEN /\ ActivatePrivate(c)
          /\ privateMode' = [privateMode EXCEPT ![c] = TRUE]
     ELSE UNCHANGED <<epoch, memoryEvents, privateMode>>
  /\ UNCHANGED <<status, archived, tombstones, sourceDeletions, turnDeletions,
                 observed>>

AcknowledgeDeletion(n) ==
  /\ n \in sourceDeletions
  /\ sourceDeletions' = sourceDeletions \ {n}
  /\ ackedSources' = ackedSources \cup {n}
  /\ UNCHANGED <<rows, turnDeletions, memoryEvents, erased, issued, ackedTurns>>

\* Mutant: every notice goes with the acknowledged one.
AcknowledgeTurnDeletionAll(n) ==
  /\ n \in turnDeletions
  /\ turnDeletions' = {}
  /\ ackedTurns' = ackedTurns \cup {n}
  /\ UNCHANGED <<rows, sourceDeletions, memoryEvents, erased, issued,
                 ackedSources>>

AcknowledgeTurnDeletion(n) ==
  /\ n \in turnDeletions
  /\ turnDeletions' = turnDeletions \ {n}
  /\ ackedTurns' = ackedTurns \cup {n}
  /\ UNCHANGED <<rows, sourceDeletions, memoryEvents, erased, issued,
                 ackedSources>>

-----------------------------------------------------------------------------
Retry == \E c \in Conversation, q \in Request, f \in Fingerprint :
           AppendRetry(c, q, f)

Commit == \E c \in Conversation, q \in Request, f \in Fingerprint,
             r \in 0 .. MaxRevision, s \in Submission, a \in Answer :
            AppendNew(c, q, f, r, s, a)

Forget == \E c \in Conversation, r, p \in 0 .. MaxRevision,
             scope \in {"selected", "following"} : DeleteTurns(c, r, p, scope)

Control == \E c \in Conversation, r \in 0 .. MaxRevision, p, a \in BOOLEAN :
             Controls(c, r, p, a)

Reply == \E c \in Conversation, r \in 0 .. MaxRevision, accept \in BOOLEAN :
           \E t \in turns[c] : \E i \in t.pending : Confirm(c, r, t, i, accept)

Next ==
  \/ \E c \in Conversation : Create(c) \/ Delete(c)
  \/ Retry
  \/ Commit
  \/ Forget
  \/ Control
  \/ Reply
  \/ \E n \in sourceDeletions : AcknowledgeDeletion(n)
  \/ \E n \in turnDeletions : AcknowledgeTurnDeletion(n)

Spec == Init /\ [][Next]_vars

-----------------------------------------------------------------------------
(***************************************************************************)
(* The history as its memory consumers are promised it (SourceLedger).     *)
(***************************************************************************)
Barred(t, i) == t.private \/ i \in t.excluded \/ i \in t.accepted

\* The sources named by the turns in S, their standing and what became of them.
Names(S) == UNION {{t.revision} \X DOMAIN t.messages : t \in S}

OpenNames(S) ==
  UNION {{t.revision} \X {i \in DOMAIN t.messages : Open(t, i)} : t \in S}

BarredNames(S) ==
  UNION {{t.revision} \X {i \in DOMAIN t.messages : Barred(t, i)} : t \in S}

Ledger == INSTANCE SourceLedger WITH
  open   <- [c \in Conversation |-> OpenNames(turns[c])],
  held   <- [c \in Conversation |->
               Names(turns[c]) \ (OpenNames(turns[c]) \cup BarredNames(turns[c]))],
  barred <- [c \in Conversation |-> BarredNames(turns[c])],
  erased <- [c \in Conversation |-> Names(erased[c])],
  hidden <- privateMode

\* Every behaviour of the store is one the ledger allows: nothing barred or
\* deleted is ever usable again, and nothing held is before the user's answer.
KeepsLedger == Ledger!Spec

-----------------------------------------------------------------------------
SourceNotice == [conversation : Conversation, through : Nat]
TurnNotice == [conversation : Conversation, revisions : SUBSET Nat]
MemoryEvent ==
  [conversation : Conversation, epoch : Nat,
   reason : {"delete", "private", "turn_delete"}, at : Nat]

\* The shape of the tables, of the outboxes and of what was observed.
TypeOK ==
  /\ status \in [Conversation -> {"fresh", "live", "deleted"}]
  /\ revision \in [Conversation -> 0 .. MaxRevision]
  /\ epoch \in [Conversation -> Nat]
  /\ privateMode \in [Conversation -> BOOLEAN]
  /\ archived \in [Conversation -> BOOLEAN]
  /\ turns \in [Conversation -> SUBSET Turn]
  /\ tombstones \in
       [Conversation -> SUBSET [request : Request, revision : Nat]]
  /\ sourceDeletions \subseteq SourceNotice
  /\ turnDeletions \subseteq TurnNotice
  /\ memoryEvents \subseteq MemoryEvent
  /\ erased \in [Conversation -> SUBSET Turn]
  /\ issued \subseteq Receipt
  /\ ackedSources \subseteq SourceNotice
  /\ ackedTurns \subseteq TurnNotice

\* A conversation never stores two turns under one revision or one request id,
\* not even after the first of them was deleted: a source reference keeps naming
\* the message it named, and a deleted request is never run again.
TurnIdentity ==
  \A c \in Conversation : \A t, u \in Ever(c) :
    t.revision = u.revision \/ t.request = u.request => t = u

\* Whoever sends a request id again, whenever, is told of one answer only, and
\* that answer is (or was) the stored one.
ReceiptsFinal ==
  /\ \A x, y \in issued :
       x.conversation = y.conversation /\ x.request = y.request => x = y
  /\ \A x \in issued : \E t \in Ever(x.conversation) :
       x = ReceiptOf(x.conversation, t)

Restricted(t) ==
  t.private \/ t.marked # {} \/ t.pending \cup t.accepted # {}

\* No generated message that may serve as a memory source can echo, directly or
\* through earlier answers, deleted turns included, a turn the user made private,
\* excluded, or has not cleared for memory.
NoEchoedSource ==
  \A c \in Conversation : \A t \in turns[c] : \A i \in Generated(t.messages) :
    Eligible(c, t.revision, i) =>
      \A u \in Ever(c) : u.revision \in t.heard => ~Restricted(u)

\* Every turn that is gone is named by a notice, so a consumer that works through
\* the two outboxes hears of every source that no longer exists.
NoticesCoverErased ==
  \A c \in Conversation : \A u \in erased[c] :
    \/ \E n \in sourceDeletions \cup ackedSources :
         n.conversation = c /\ u.revision <= n.through
    \/ \E n \in turnDeletions \cup ackedTurns :
         n.conversation = c /\ u.revision \in n.revisions

\* A step that takes a usable source away, by private mode, by a deletion of turns
\* or of the conversation, records in that same step a revocation for it.
EveryWithdrawalRevokes ==
  [][\A c \in Conversation :
       (\E t \in turns[c] : \E i \in DOMAIN t.messages :
          Eligible(c, t.revision, i) /\ ~Eligible(c, t.revision, i)')
       => \E e \in memoryEvents' \ memoryEvents : e.conversation = c]_vars

\* While a conversation lives, a tool call and its result stay or go together,
\* whichever of the two turns the user picked.
ToolPairsWhole ==
  [][\A c \in Conversation : Live(c) /\ Live(c)' =>
       Whole(Connections(turns[c]),
             Revisions(turns[c]) \ Revisions(turns[c])')]_vars

-----------------------------------------------------------------------------
(***************************************************************************)
(* The inductive invariant behind the properties above, in named parts.    *)
(***************************************************************************)
\* Rows exist only while the conversation does; a fresh id has no past.
RowsOfLive ==
  \A c \in Conversation :
    /\ ~Live(c) => turns[c] = {} /\ ~privateMode[c]
    /\ status[c] = "fresh" => erased[c] = {} /\ revision[c] = 0

\* A turn's revision, and every revision it may echo, was already counted.
Counted ==
  \A c \in Conversation : Live(c) =>
    \A t \in Ever(c) : t.revision <= revision[c] /\ t.heard \subseteq 0 .. revision[c]

\* While the conversation lives, deleted requests are marked and stored ones not.
Marked ==
  \A c \in Conversation : Live(c) =>
    /\ \A t \in erased[c] : Settled(c, t.request)
    /\ \A t \in turns[c] : ~Settled(c, t.request)

\* A turn excludes either nothing or everything that was generated in it.
ExcludedWhole ==
  \A c \in Conversation : \A t \in turns[c] :
    t.excluded # {} => Generated(t.messages) \subseteq t.excluded

\* A turn that excludes nothing and is not private descends from cleared turns.
CleanLineage ==
  \A c \in Conversation : \A t \in turns[c] :
    t.excluded = {} /\ ~t.private =>
      \A u \in Ever(c) : u.revision \in t.heard => ~Restricted(u)

\* Revocations were recorded at earlier revisions of the conversation.
EventsCounted ==
  \A e \in memoryEvents :
    /\ status[e.conversation] # "fresh"
    /\ Live(e.conversation) => e.at < revision[e.conversation]

HistoryInv ==
  /\ TypeOK
  /\ RowsOfLive
  /\ Counted
  /\ Marked
  /\ TurnIdentity
  /\ ReceiptsFinal
  /\ ExcludedWhole
  /\ CleanLineage
  /\ NoticesCoverErased
  /\ EventsCounted
=============================================================================
