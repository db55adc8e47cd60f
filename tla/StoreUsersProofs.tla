-------------------------- MODULE StoreUsersProofs --------------------------
(***************************************************************************)
(* The two users of the history store, which keep what it keeps.  Requests *)
(* for a reply are users like any other: what the store keeps it keeps     *)
(* under them, and what they keep among themselves they keep for any       *)
(* number of them.  The memory records keep theirs for every set of        *)
(* batches and every number of conversations: a step registers a batch,    *)
(* revokes what cites given turns, or leaves the records alone and no      *)
(* source becomes invalid.  One lemma per way shows that the invariant is  *)
(* kept; then each action is shown to be one of the three.                 *)
(***************************************************************************)
EXTENDS Completion, MemoryRecords, HistoryStoreProofs

-----------------------------------------------------------------------------
(***************************************************************************)
(* The requests.                                                           *)
(***************************************************************************)
LEMMA StoredSubmission ==
  ASSUME NEW f \in Fingerprint, NEW calls \in SUBSET Tool
  PROVE  Stored(f, calls) \in Submission
BY StoredAssumption

LEMMA TaskTypeInit == CompletionInit => TypeOK /\ TaskTypeOK
<1>1. CompletionInit => TypeOK
  BY MaxRevisionAssumption DEF CompletionInit, Init, TypeOK
<1>2. CompletionInit => TaskTypeOK
  BY DEF CompletionInit, TaskTypeOK
<1>3. QED
  BY <1>1, <1>2

\* An active task has the fields of one, and stays one in another phase.
LEMMA ActiveFields ==
  ASSUME NEW k \in Task, TaskTypeOK, tasks[k] # Idle
  PROVE  /\ tasks[k] \in ActiveTask
         /\ tasks[k].conversation \in Conversation
         /\ tasks[k].request \in Request
         /\ tasks[k].body \in Fingerprint
         /\ tasks[k].snapshot.revision \in Nat
         /\ tasks[k].reply \subseteq [answer : Answer, calls : SUBSET Tool]
BY DEF TaskTypeOK, ActiveTask

LEMMA PhaseActive ==
  ASSUME NEW k \in Task, TaskTypeOK,
         tasks[k].phase \in {"checking", "preparing", "inferring", "resting"}
  PROVE  tasks[k] # Idle
BY DEF Idle

LEMMA BecomeType ==
  ASSUME TaskTypeOK, NEW k \in Task, NEW state \in {Idle} \cup ActiveTask,
         Become(k, state)
  PROVE  tasks' \in [Task -> {Idle} \cup ActiveTask]
BY DEF TaskTypeOK, Become

\* A task saves by a step of the store, or leaves the store alone.
LEMMA SaveIsStoreStep ==
  ASSUME TypeOK, TaskTypeOK, NEW k \in Task, Save(k)
  PROVE  [Next]_vars
<1> DEFINE task == tasks[k]
           c == task.conversation
           q == task.request
           f == task.body
           r == task.snapshot.revision
<1>1. tasks[k] # Idle
  BY PhaseActive DEF Save, InPhase
<1>2. c \in Conversation /\ q \in Request /\ f \in Fingerprint
      /\ task.reply \subseteq [answer : Answer, calls : SUBSET Tool]
  BY <1>1, ActiveFields
<1> HIDE DEF task, c, q, f, r
<1>3. CASE UNCHANGED vars
  BY <1>3
<1>4. CASE AppendRetry(c, q, f)
  BY <1>2, <1>4 DEF Next, Retry
<1>5. ASSUME NEW reply \in task.reply,
             AppendNew(c, q, f, r, Stored(f, reply.calls), reply.answer)
      PROVE  Next
  <2>1. reply.answer \in Answer /\ Stored(f, reply.calls) \in Submission
    BY <1>2, StoredSubmission
  <2>2. r \in 0 .. MaxRevision
    BY <1>2, <1>5 DEF AppendNew, AdvanceRevision, TypeOK
  <2>3. QED
    BY <1>2, <1>5, <2>1, <2>2 DEF Next, Commit
<1>6. \/ UNCHANGED vars
      \/ AppendRetry(c, q, f)
      \/ \E reply \in task.reply :
           AppendNew(c, q, f, r, Stored(f, reply.calls), reply.answer)
  BY DEF Save, task, c, q, f, r
<1>7. QED
  BY <1>3, <1>4, <1>5, <1>6

LEMMA StoreStep == TypeOK /\ TaskTypeOK /\ [CompletionNext]_allVars => [Next]_vars
<1> SUFFICES ASSUME TypeOK, TaskTypeOK, [CompletionNext]_allVars PROVE [Next]_vars
  OBVIOUS
<1>1. ASSUME NEW k \in Task, Save(k) PROVE [Next]_vars
  BY <1>1, SaveIsStoreStep
<1>2. CASE Elsewhere
  BY <1>2 DEF Elsewhere, Next
<1>3. ASSUME NEW k \in Task,
             \/ Check(k) \/ Prepare(k) \/ Infer(k) \/ Disconnect(k)
             \/ \E c \in Conversation, q \in Request, f \in Fingerprint : Begin(k, c, q, f)
      PROVE  UNCHANGED vars
  BY <1>3 DEF Check, Prepare, Infer, Disconnect, Begin
<1>4. CASE Crash \/ \E g \in Grants : Configure(g)
  BY <1>4 DEF Crash, Configure
<1>5. CASE UNCHANGED allVars
  BY <1>5 DEF allVars
<1>6. QED
  BY <1>1, <1>2, <1>3, <1>4, <1>5 DEF CompletionNext, Proceed
-----------------------------------------------------------------------------
LEMMA FailType ==
  ASSUME TaskTypeOK, NEW k \in Task, Fail(k)
  PROVE  tasks' \in [Task -> {Idle} \cup ActiveTask] /\ answers' \subseteq Receipt
BY DEF Fail, Become, TaskTypeOK

LEMMA ReturnType ==
  ASSUME TaskTypeOK, NEW k \in Task, NEW receipt \in Receipt, Return(k, receipt)
  PROVE  tasks' \in [Task -> {Idle} \cup ActiveTask] /\ answers' \subseteq Receipt
BY DEF Return, Become, TaskTypeOK

LEMMA BeginType ==
  ASSUME TypeOK, TaskTypeOK, NEW k \in Task, NEW c \in Conversation, NEW q \in Request,
         NEW f \in Fingerprint, Begin(k, c, q, f)
  PROVE  TaskTypeOK'
<1> DEFINE snapshot == [revision |-> revision[c], private |-> privateMode[c],
                        turns |-> turns[c]]
           known == Settled(c, q) \/ \E t \in turns[c] : t.request = q
           state == [phase |-> "checking", conversation |-> c, request |-> q, body |-> f,
                     snapshot |-> snapshot, known |-> known, reply |-> {}]
<1>1. revision[c] \in Nat /\ privateMode[c] \in BOOLEAN /\ turns[c] \in SUBSET Turn
  BY MaxRevisionAssumption DEF TypeOK
<1>2. snapshot \in [revision : Nat, private : BOOLEAN, turns : SUBSET Turn]
  BY <1>1
<1>3. known \in BOOLEAN
  OBVIOUS
<1>4. Become(k, state) /\ grants' = grants /\ answers' = answers
  BY DEF Begin
<1> HIDE DEF snapshot, known
<1>5. state \in ActiveTask
  BY <1>2, <1>3 DEF ActiveTask
<1>6. QED
  BY <1>4, <1>5, BecomeType DEF TaskTypeOK

LEMMA CheckType ==
  ASSUME TypeOK, TaskTypeOK, NEW k \in Task, Check(k)
  PROVE  TaskTypeOK'
<1>1. tasks[k] \in ActiveTask /\ tasks[k].conversation \in Conversation
  BY PhaseActive, ActiveFields DEF Check, InPhase
<1>2. grants' = grants
  BY DEF Check
<1>3. CASE Fail(k)
  BY <1>2, <1>3, FailType DEF TaskTypeOK
<1>4. ASSUME NEW t \in turns[tasks[k].conversation],
             Return(k, ReceiptOf(tasks[k].conversation, t))
      PROVE  TaskTypeOK'
  <2>1. t \in Turn
    BY <1>1 DEF TypeOK
  <2>2. QED
    BY <1>1, <1>2, <1>4, <2>1, ReceiptType, ReturnType DEF TaskTypeOK
<1>5. CASE Become(k, [tasks[k] EXCEPT !.phase = "preparing"]) /\ UNCHANGED answers
  <2>1. [tasks[k] EXCEPT !.phase = "preparing"] \in ActiveTask
    BY <1>1 DEF ActiveTask
  <2>2. QED
    BY <1>2, <1>5, <2>1, BecomeType DEF TaskTypeOK
<1>6. \/ Fail(k)
      \/ \E t \in turns[tasks[k].conversation] :
           Return(k, ReceiptOf(tasks[k].conversation, t))
      \/ Become(k, [tasks[k] EXCEPT !.phase = "preparing"]) /\ UNCHANGED answers
  BY DEF Check, StoredTurns
<1>7. QED
  BY <1>3, <1>4, <1>5, <1>6

LEMMA AwaitType ==
  ASSUME TaskTypeOK, NEW k \in Task, Prepare(k) \/ Infer(k)
  PROVE  TaskTypeOK'
<1>1. tasks[k] \in ActiveTask
  BY PhaseActive, ActiveFields DEF Prepare, Infer, InPhase
<1>2. grants' = grants
  BY DEF Prepare, Infer
<1>3. CASE Fail(k)
  BY <1>2, <1>3, FailType DEF TaskTypeOK
<1>4. CASE Become(k, [tasks[k] EXCEPT !.phase = "inferring"]) /\ UNCHANGED answers
  <2>1. [tasks[k] EXCEPT !.phase = "inferring"] \in ActiveTask
    BY <1>1 DEF ActiveTask
  <2>2. QED
    BY <1>2, <1>4, <2>1, BecomeType DEF TaskTypeOK
<1>5. ASSUME NEW a \in Answer, NEW calls \in SUBSET Tool,
             Become(k, [tasks[k] EXCEPT !.phase = "resting",
                                        !.reply = {[answer |-> a, calls |-> calls]}]),
             UNCHANGED answers
      PROVE  TaskTypeOK'
  <2> DEFINE reply == {[answer |-> a, calls |-> calls]}
  <2>1. reply \in SUBSET [answer : Answer, calls : SUBSET Tool]
    OBVIOUS
  <2> HIDE DEF reply
  <2>2. [tasks[k] EXCEPT !.phase = "resting", !.reply = reply] \in ActiveTask
    BY <1>1, <2>1 DEF ActiveTask
  <2>3. QED
    BY <1>2, <1>5, <2>2, BecomeType DEF TaskTypeOK, reply
<1>6. QED
  BY <1>3, <1>4, <1>5 DEF Prepare, Infer

LEMMA SaveType ==
  ASSUME TypeOK, TypeOK', TaskTypeOK, NEW k \in Task, Save(k)
  PROVE  TaskTypeOK'
<1> DEFINE task == tasks[k]
           c == task.conversation
           q == task.request
           f == task.body
           r == task.snapshot.revision
<1>1. tasks[k] # Idle
  BY PhaseActive DEF Save, InPhase
<1>2. c \in Conversation /\ q \in Request /\ f \in Fingerprint
      /\ task.reply \subseteq [answer : Answer, calls : SUBSET Tool]
  BY <1>1, ActiveFields
<1>3. grants' = grants
  BY DEF Save
<1> HIDE DEF task, c, q, f, r
<1>4. CASE Fail(k)
  BY <1>3, <1>4, FailType DEF TaskTypeOK
<1>5. ASSUME NEW t \in turns[c], Return(k, ReceiptOf(c, t)) PROVE TaskTypeOK'
  <2>1. t \in Turn
    BY <1>2 DEF TypeOK
  <2>2. QED
    BY <1>2, <1>3, <1>5, <2>1, ReceiptType, ReturnType DEF TaskTypeOK
<1>6. ASSUME NEW reply \in task.reply,
             AppendNew(c, q, f, r, Stored(f, reply.calls), reply.answer),
             Return(k, ReceiptOf(c, NewTurn(c, q, f, r, Stored(f, reply.calls), reply.answer)))
      PROVE  TaskTypeOK'
  <2>1. reply.answer \in Answer /\ Stored(f, reply.calls) \in Submission
    BY <1>2, StoredSubmission
  <2>2. r \in 0 .. MaxRevision
    BY <1>2, <1>6 DEF AppendNew, AdvanceRevision, TypeOK
  <2>3. ReceiptOf(c, NewTurn(c, q, f, r, Stored(f, reply.calls), reply.answer)) \in Receipt
    BY <1>2, <2>1, <2>2, NewTurnType
  <2>4. QED
    BY <1>3, <1>6, <2>3, ReturnType DEF TaskTypeOK
<1>7. \/ Fail(k)
      \/ \E t \in turns[c] : Return(k, ReceiptOf(c, t))
      \/ \E reply \in task.reply :
           /\ AppendNew(c, q, f, r, Stored(f, reply.calls), reply.answer)
           /\ Return(k, ReceiptOf(c, NewTurn(c, q, f, r, Stored(f, reply.calls), reply.answer)))
  BY DEF Save, task, c, q, f, r
<1>8. QED
  BY <1>4, <1>5, <1>6, <1>7

LEMMA TaskTypeStep == TypeOK /\ TaskTypeOK /\ [CompletionNext]_allVars => TypeOK' /\ TaskTypeOK'
<1> SUFFICES ASSUME TypeOK, TaskTypeOK, [CompletionNext]_allVars PROVE TypeOK' /\ TaskTypeOK'
  OBVIOUS
<1>1. TypeOK'
  BY StoreStep, TypeStep
<1>2. ASSUME NEW k \in Task, NEW c \in Conversation, NEW q \in Request, NEW f \in Fingerprint,
             Begin(k, c, q, f)
      PROVE  TaskTypeOK'
  BY <1>2, BeginType
<1>3. ASSUME NEW k \in Task, Proceed(k) PROVE TaskTypeOK'
  BY <1>1, <1>3, CheckType, AwaitType, SaveType DEF Proceed
<1>4. ASSUME NEW k \in Task, Disconnect(k) PROVE TaskTypeOK'
  BY <1>4, FailType DEF Disconnect, TaskTypeOK
<1>5. CASE Crash
  BY <1>1, <1>5 DEF Crash, TaskTypeOK
<1>6. ASSUME NEW g \in Grants, Configure(g) PROVE TaskTypeOK'
  BY <1>6 DEF Configure, TaskTypeOK
<1>7. CASE Elsewhere \/ UNCHANGED allVars
  BY <1>1, <1>7 DEF Elsewhere, taskVars, allVars, TaskTypeOK
<1>8. QED
  BY <1>1, <1>2, <1>3, <1>4, <1>5, <1>6, <1>7 DEF CompletionNext

\* The state of the store and of every task keeps its shape.
THEOREM TasksTyped == CompletionSpec => [](TypeOK /\ TaskTypeOK)
BY TaskTypeInit, TaskTypeStep, PTL DEF CompletionSpec

\* Whatever the requests do, the store behaves as its own specification says; so
\* every theorem about Spec is one about the store under any number of requests.
THEOREM CompletionUsesStore == CompletionSpec => Spec
<1>1. CompletionInit => Init
  BY DEF CompletionInit
<1>2. QED
  BY <1>1, TasksTyped, StoreStep, PTL DEF CompletionSpec, Spec
-----------------------------------------------------------------------------
(***************************************************************************)
(* What a step of the store does to what a task has read.                  *)
(***************************************************************************)
KnownRequest(c, q) == Settled(c, q) \/ \E t \in turns[c] : t.request = q

SameHistory(c) ==
  /\ turns'[c] = turns[c]
  /\ privateMode'[c] = privateMode[c]
  /\ tombstones'[c] = tombstones[c]

\* A conversation that still lives lived before; if its revision did not advance,
\* its history did not change; and no request in it is forgotten.
Succession(c) ==
  /\ status[c] # "fresh" => status'[c] # "fresh"
  /\ status[c] # "fresh" /\ Live(c)' =>
       /\ Live(c)
       /\ revision'[c] = revision[c] => SameHistory(c)
       /\ revision[c] <= revision'[c]
       /\ \A q : KnownRequest(c, q) => KnownRequest(c, q)'

LEMMA UnchangedSucceeds ==
  ASSUME TypeOK, NEW c \in Conversation, status'[c] = status[c],
         revision'[c] = revision[c], SameHistory(c)
  PROVE  Succession(c)
<1>1. revision[c] \in Nat
  BY MaxRevisionAssumption DEF TypeOK
<1>2. QED
  BY <1>1 DEF Succession, SameHistory, KnownRequest, Settled, Live

\* A step that advances the revision may change anything, but forgets no request.
LEMMA AdvanceSucceeds ==
  ASSUME TypeOK, NEW c \in Conversation, status[c] = "live", status'[c] = "live",
         revision'[c] = revision[c] + 1,
         tombstones[c] \subseteq tombstones'[c],
         \A t \in turns[c] :
           \/ \E u \in turns'[c] : u.request = t.request
           \/ \E d \in tombstones'[c] : d.request = t.request
  PROVE  Succession(c)
<1>1. revision[c] \in Nat
  BY MaxRevisionAssumption DEF TypeOK
<1>2. \A q : KnownRequest(c, q) => KnownRequest(c, q)'
  BY DEF KnownRequest, Settled
<1>3. QED
  BY <1>1, <1>2 DEF Succession, Live

LEMMA EveryStepSucceeds ==
  ASSUME TypeOK, [Next]_vars, NEW d \in Conversation
  PROVE  Succession(d)
<1>1. ASSUME NEW c \in Conversation, Create(c) PROVE Succession(d)
  <2>1. CASE d = c
    BY <1>1, <2>1 DEF Create, Succession, TypeOK
  <2>2. CASE d # c
    BY <1>1, <2>2, UnchangedSucceeds DEF Create, SameHistory, TypeOK
  <2>3. QED
    BY <2>1, <2>2
<1>2. ASSUME NEW c \in Conversation, Delete(c) PROVE Succession(d)
  <2>1. CASE d = c
    BY <1>2, <2>1 DEF Delete, Succession, Live, TypeOK
  <2>2. CASE d # c
    BY <1>2, <2>2, UnchangedSucceeds DEF Delete, SameHistory, TypeOK
  <2>3. QED
    BY <2>1, <2>2
<1>3. ASSUME NEW c \in Conversation, NEW q \in Request, NEW f \in Fingerprint,
             AppendRetry(c, q, f)
      PROVE  Succession(d)
  BY <1>3, UnchangedSucceeds DEF AppendRetry, rows, SameHistory
<1>4. ASSUME NEW c \in Conversation, NEW q \in Request, NEW f \in Fingerprint,
             NEW r \in 0 .. MaxRevision, NEW s \in Submission, NEW a \in Answer,
             AppendNew(c, q, f, r, s, a)
      PROVE  Succession(d)
  <2>1. CASE d = c
    <3>1. /\ status[c] = "live" /\ status'[c] = "live"
          /\ revision'[c] = revision[c] + 1
          /\ tombstones' = tombstones
          /\ turns[c] \subseteq turns'[c]
      BY <1>4 DEF AppendNew, AdvanceRevision, Live, TypeOK
    <3>2. QED
      BY <2>1, <3>1, AdvanceSucceeds
  <2>2. CASE d # c
    BY <1>4, <2>2, UnchangedSucceeds DEF AppendNew, AdvanceRevision, SameHistory, TypeOK
  <2>3. QED
    BY <2>1, <2>2
<1>5. ASSUME NEW c \in Conversation, NEW r \in 0 .. MaxRevision, NEW p \in 0 .. MaxRevision,
             NEW scope \in {"selected", "following"}, DeleteTurns(c, r, p, scope)
      PROVE  Succession(d)
  <2> DEFINE lost == {t \in turns[c] : t.revision \in Selection(turns[c], p, scope)}
             marks == {[request |-> t.request, revision |-> t.revision] : t \in lost}
  <2>1. /\ turns' = [turns EXCEPT ![c] = @ \ lost]
        /\ tombstones' = [tombstones EXCEPT ![c] = @ \cup marks]
        /\ revision' = [revision EXCEPT ![c] = @ + 1]
        /\ status' = status /\ privateMode' = privateMode /\ status[c] = "live"
    BY <1>5 DEF DeleteTurns, AdvanceRevision, Live
  <2>2. \A t \in lost : \E x \in marks : x.request = t.request
    <3>1. ASSUME NEW t \in lost PROVE \E x \in marks : x.request = t.request
      <4>1. [request |-> t.request, revision |-> t.revision] \in marks
        OBVIOUS
      <4>2. QED
        BY <4>1
    <3>2. QED
      BY <3>1
  <2> HIDE DEF lost, marks
  <2>3. CASE d = c
    <3>1. /\ turns'[c] = turns[c] \ lost
          /\ tombstones'[c] = tombstones[c] \cup marks
          /\ revision'[c] = revision[c] + 1
      BY <2>1 DEF TypeOK
    <3>2. QED
      BY <2>1, <2>2, <2>3, <3>1, AdvanceSucceeds
  <2>4. CASE d # c
    BY <2>1, <2>4, UnchangedSucceeds DEF SameHistory, TypeOK
  <2>5. QED
    BY <2>3, <2>4
<1>6. ASSUME NEW c \in Conversation, NEW r \in 0 .. MaxRevision, NEW p \in BOOLEAN,
             NEW a \in BOOLEAN, Controls(c, r, p, a)
      PROVE  Succession(d)
  <2>1. CASE d = c
    <3>1. /\ status[c] = "live" /\ status'[c] = "live"
          /\ revision'[c] = revision[c] + 1
          /\ tombstones' = tombstones /\ turns' = turns
      BY <1>6 DEF Controls, AdvanceRevision, Live, TypeOK
    <3>2. QED
      BY <2>1, <3>1, AdvanceSucceeds
  <2>2. CASE d # c
    BY <1>6, <2>2, UnchangedSucceeds DEF Controls, AdvanceRevision, SameHistory, TypeOK
  <2>3. QED
    BY <2>1, <2>2
<1>7. ASSUME NEW c \in Conversation, NEW r \in 0 .. MaxRevision, NEW accept \in BOOLEAN,
             NEW t \in turns[c], NEW i \in t.pending, Confirm(c, r, t, i, accept)
      PROVE  Succession(d)
  <2>1. /\ turns' = [turns EXCEPT ![c] = (@ \ {t}) \cup {Resolved(t, i, accept)}]
        /\ revision' = [revision EXCEPT ![c] = @ + 1]
        /\ status' = status /\ tombstones' = tombstones /\ status[c] = "live"
    BY <1>7 DEF Confirm, AdvanceRevision, Live
  <2>2. CASE d = c
    <3>1. Resolved(t, i, accept).request = t.request
      BY ResolvedFields DEF TypeOK
    <3>2. /\ turns'[c] = (turns[c] \ {t}) \cup {Resolved(t, i, accept)}
          /\ revision'[c] = revision[c] + 1
      BY <2>1 DEF TypeOK
    <3>3. \A u \in turns[c] : \E w \in turns'[c] : w.request = u.request
      BY <3>1, <3>2
    <3>4. QED
      BY <2>1, <2>2, <3>2, <3>3, AdvanceSucceeds
  <2>3. CASE d # c
    <3>1. privateMode'[d] = privateMode[d]
      BY <1>7, <2>3 DEF Confirm, TypeOK
    <3>2. QED
      BY <2>1, <2>3, <3>1, UnchangedSucceeds DEF SameHistory, TypeOK
  <2>4. QED
    BY <2>2, <2>3
<1>8. CASE UNCHANGED rows
  BY <1>8, UnchangedSucceeds DEF rows, SameHistory
<1>9. QED
  BY <1>1, <1>2, <1>3, <1>4, <1>5, <1>6, <1>7, <1>8
     DEF Next, Retry, Commit, Forget, Control, Reply, AcknowledgeDeletion,
         AcknowledgeTurnDeletion, vars
-----------------------------------------------------------------------------
(***************************************************************************)
(* What an active task knows is true for as long as it can matter.         *)
(***************************************************************************)
Reads(task) ==
  LET c == task.conversation
      s == task.snapshot
  IN  /\ status[c] # "fresh"
      /\ Live(c) =>
           /\ s.revision <= revision[c]
           /\ s.revision = revision[c] => s.turns = turns[c] /\ s.private = privateMode[c]
           /\ task.known => KnownRequest(c, task.request)
           /\ task.phase # "checking" => ~task.known

TasksRead == \A k \in Task : tasks[k] # Idle => Reads(tasks[k])

\* No step of the store makes a task's knowledge wrong.
LEMMA ReadsKept ==
  ASSUME TypeOK, TypeOK', [Next]_vars, NEW task \in ActiveTask, Reads(task)
  PROVE  Reads(task)'
<1> DEFINE c == task.conversation
           s == task.snapshot
<1>1. c \in Conversation /\ s.revision \in Nat
  BY DEF ActiveTask
<1>2. Succession(c)
  BY <1>1, EveryStepSucceeds
<1>3. revision[c] \in Nat /\ revision'[c] \in Nat
  BY <1>1, MaxRevisionAssumption DEF TypeOK
<1> HIDE DEF c, s
<1>4. status'[c] # "fresh"
  BY <1>2 DEF Reads, Succession, c, s
<1>5. ASSUME Live(c)'
      PROVE  /\ s.revision <= revision'[c]
             /\ s.revision = revision'[c] => s.turns = turns'[c] /\ s.private = privateMode'[c]
             /\ task.known => KnownRequest(c, task.request)'
             /\ task.phase # "checking" => ~task.known
  <2>1. /\ Live(c) /\ revision[c] <= revision'[c]
        /\ revision'[c] = revision[c] => SameHistory(c)
        /\ KnownRequest(c, task.request) => KnownRequest(c, task.request)'
    BY <1>2, <1>5 DEF Reads, Succession, c, s
  <2>2. /\ s.revision <= revision[c]
        /\ s.revision = revision[c] => s.turns = turns[c] /\ s.private = privateMode[c]
        /\ task.known => KnownRequest(c, task.request)
        /\ task.phase # "checking" => ~task.known
    BY <2>1 DEF Reads, c, s
  <2>3. s.revision = revision'[c] => s.revision = revision[c] /\ revision'[c] = revision[c]
    BY <1>1, <1>3, <2>1, <2>2
  <2>4. QED
    BY <1>1, <1>3, <2>1, <2>2, <2>3 DEF SameHistory
<1>6. QED
  BY <1>4, <1>5 DEF Reads, c, s

LEMMA BeginReads ==
  ASSUME TypeOK, TaskTypeOK, NEW k \in Task, NEW c \in Conversation, NEW q \in Request,
         NEW f \in Fingerprint, Begin(k, c, q, f)
  PROVE  Reads(tasks[k])'
<1>1. /\ tasks'[k].conversation = c /\ tasks'[k].request = q
      /\ tasks'[k].phase = "checking"
      /\ tasks'[k].known = KnownRequest(c, q)
      /\ tasks'[k].snapshot = [revision |-> revision[c], private |-> privateMode[c],
                               turns |-> turns[c]]
  BY DEF Begin, Become, TaskTypeOK, KnownRequest
<1>2. /\ status' = status /\ revision' = revision /\ turns' = turns
      /\ privateMode' = privateMode /\ tombstones' = tombstones
      /\ status[c] = "live"
  BY DEF Begin, vars, rows, Live
<1>3. revision[c] \in Nat
  BY MaxRevisionAssumption DEF TypeOK
<1>4. KnownRequest(c, q)' = KnownRequest(c, q)
  BY <1>2 DEF KnownRequest, Settled
<1>5. QED
  BY <1>1, <1>2, <1>3, <1>4 DEF Reads, Live

\* A task that goes on after looking for a receipt found none.
LEMMA CheckReads ==
  ASSUME TypeOK, TaskTypeOK, NEW k \in Task, tasks[k] # Idle, Reads(tasks[k]), Check(k),
         tasks'[k] # Idle
  PROVE  Reads(tasks[k])'
<1>1. tasks[k] \in ActiveTask /\ tasks[k].conversation \in Conversation
  BY ActiveFields
<1>2. /\ tasks'[k] = [tasks[k] EXCEPT !.phase = "preparing"]
      /\ ~KnownRequest(tasks[k].conversation, tasks[k].request)
  BY DEF Check, StoredTurns, Fail, Return, Become, TaskTypeOK, KnownRequest
<1>3. /\ tasks'[k].conversation = tasks[k].conversation
      /\ tasks'[k].request = tasks[k].request
      /\ tasks'[k].known = tasks[k].known
      /\ tasks'[k].snapshot = tasks[k].snapshot
  BY <1>1, <1>2 DEF ActiveTask
<1>4. /\ status' = status /\ revision' = revision /\ turns' = turns
      /\ privateMode' = privateMode /\ tombstones' = tombstones
  BY DEF Check, vars, rows
<1>5. QED
  BY <1>2, <1>3, <1>4 DEF Reads, Live, KnownRequest, Settled

LEMMA AwaitReads ==
  ASSUME TypeOK, TaskTypeOK, NEW k \in Task, tasks[k] # Idle, Reads(tasks[k]),
         Prepare(k) \/ Infer(k), tasks'[k] # Idle
  PROVE  Reads(tasks[k])'
<1>1. tasks[k] \in ActiveTask
  BY ActiveFields
<1>2. /\ tasks'[k].conversation = tasks[k].conversation
      /\ tasks'[k].request = tasks[k].request
      /\ tasks'[k].known = tasks[k].known
      /\ tasks'[k].snapshot = tasks[k].snapshot
      /\ tasks[k].phase # "checking"
  <2>1. CASE Prepare(k)
    <3>1. /\ tasks'[k] = [tasks[k] EXCEPT !.phase = "inferring"]
          /\ tasks[k].phase = "preparing"
      BY <2>1 DEF Prepare, InPhase, Fail, Become, TaskTypeOK
    <3>2. QED
      BY <1>1, <3>1 DEF ActiveTask
  <2>2. CASE Infer(k)
    <3>1. PICK reply : tasks'[k] = [tasks[k] EXCEPT !.phase = "resting", !.reply = reply]
      BY <2>2 DEF Infer, Fail, Become, TaskTypeOK
    <3>2. tasks[k].phase = "inferring"
      BY <2>2 DEF Infer, InPhase
    <3>3. QED
      BY <1>1, <3>1, <3>2 DEF ActiveTask
  <2>3. QED
    BY <2>1, <2>2
<1>3. /\ status' = status /\ revision' = revision /\ turns' = turns
      /\ privateMode' = privateMode /\ tombstones' = tombstones
  BY DEF Prepare, Infer, vars, rows
<1>4. QED
  BY <1>2, <1>3 DEF Reads, Live, KnownRequest, Settled

LEMMA TasksReadStep ==
  TypeOK /\ TaskTypeOK /\ TasksRead /\ [CompletionNext]_allVars => TasksRead'
<1> SUFFICES ASSUME TypeOK, TaskTypeOK, TasksRead, [CompletionNext]_allVars,
                    NEW k \in Task, tasks'[k] # Idle
             PROVE  Reads(tasks[k])'
  BY DEF TasksRead
<1>1. TypeOK' /\ TaskTypeOK' /\ [Next]_vars
  BY TaskTypeStep, StoreStep
<1>2. CASE tasks'[k] = tasks[k]
  BY <1>1, <1>2, ActiveFields, ReadsKept DEF TasksRead
<1>3. ASSUME NEW c \in Conversation, NEW q \in Request, NEW f \in Fingerprint,
             Begin(k, c, q, f)
      PROVE  Reads(tasks[k])'
  BY <1>3, BeginReads
<1>4. CASE Check(k)
  <2>1. tasks[k] # Idle
    BY <1>4, PhaseActive DEF Check, InPhase
  <2>2. QED
    BY <1>4, <2>1, CheckReads DEF TasksRead
<1>5. CASE Prepare(k) \/ Infer(k)
  <2>1. tasks[k] # Idle
    BY <1>5, PhaseActive DEF Prepare, Infer, InPhase
  <2>2. QED
    BY <1>5, <2>1, AwaitReads DEF TasksRead
<1>6. CASE Save(k) \/ Disconnect(k)
  <2>1. tasks'[k] = Idle
    BY <1>6 DEF Save, Disconnect, Fail, Return, Become, TaskTypeOK
  <2>2. QED
    BY <2>1
<1>7. ASSUME NEW j \in Task, j # k,
             \/ \E c \in Conversation, q \in Request, f \in Fingerprint : Begin(j, c, q, f)
             \/ Proceed(j)
             \/ Disconnect(j)
      PROVE  tasks'[k] = tasks[k]
  BY <1>7 DEF Begin, Proceed, Check, Prepare, Infer, Save, Disconnect, Fail, Return,
              Become, TaskTypeOK
<1>8. CASE Crash
  BY <1>8 DEF Crash
<1>9. CASE Elsewhere \/ (\E g \in Grants : Configure(g)) \/ UNCHANGED allVars
  BY <1>2, <1>9 DEF Elsewhere, Configure, taskVars, allVars
<1>10. QED
  BY <1>2, <1>3, <1>4, <1>5, <1>6, <1>7, <1>8, <1>9 DEF CompletionNext, Proceed

THEOREM TasksReadTruly == CompletionSpec => []TasksRead
<1>1. CompletionInit => TasksRead
  BY DEF CompletionInit, TasksRead
<1>2. QED
  BY <1>1, TasksReadStep, TasksTyped, PTL DEF CompletionSpec

\* Whoever holds the current revision holds the current history, for any number
\* of tasks: a reply is only ever stored after the very turns it was made from.
THEOREM RevisionNamesHistory == CompletionSpec => []SnapshotNamesHistory
<1>1. TasksRead => SnapshotNamesHistory
  BY DEF TasksRead, Reads, SnapshotNamesHistory
<1>2. QED
  BY <1>1, TasksReadTruly, PTL

\* An answered or deleted request is never inferred again.
THEOREM NeverInferredTwice == CompletionSpec => []NoSecondInference
<1>1. TasksRead => NoSecondInference
  BY DEF TasksRead, Reads, NoSecondInference
<1>2. QED
  BY <1>1, TasksReadTruly, PTL
-----------------------------------------------------------------------------
\* A stored turn's receipt has been issued, and only issued receipts are returned.
StoredIssued == \A c \in Conversation : \A t \in turns[c] : ReceiptOf(c, t) \in issued

AnswersIssued == StoredIssued /\ answers \subseteq issued

LEMMA StoredIssuedStep ==
  ASSUME TypeOK, StoredIssued, [Next]_vars
  PROVE  StoredIssued' /\ issued \subseteq issued'
<1>1. CASE issued' = issued /\ \A c \in Conversation : turns'[c] \subseteq turns[c]
  BY <1>1 DEF StoredIssued
<1>2. ASSUME NEW c \in Conversation, Create(c) \/ Delete(c)
      PROVE  issued' = issued /\ \A d \in Conversation : turns'[d] \subseteq turns[d]
  BY <1>2 DEF Create, Delete, observed, TypeOK
<1>3. ASSUME NEW c \in Conversation, NEW q \in Request, NEW f \in Fingerprint,
             AppendRetry(c, q, f)
      PROVE  StoredIssued' /\ issued \subseteq issued'
  BY <1>3 DEF AppendRetry, rows, StoredIssued
<1>4. ASSUME NEW c \in Conversation, NEW q \in Request, NEW f \in Fingerprint,
             NEW r \in 0 .. MaxRevision, NEW s \in Submission, NEW a \in Answer,
             AppendNew(c, q, f, r, s, a)
      PROVE  StoredIssued' /\ issued \subseteq issued'
  <2> DEFINE t == NewTurn(c, q, f, r, s, a)
  <2>1. /\ turns' = [turns EXCEPT ![c] = @ \cup {t}]
        /\ issued' = issued \cup {ReceiptOf(c, t)}
    BY <1>4 DEF AppendNew
  <2> HIDE DEF t
  <2>2. QED
    BY <2>1 DEF StoredIssued, TypeOK
<1>5. ASSUME NEW c \in Conversation, NEW r \in 0 .. MaxRevision, NEW p \in 0 .. MaxRevision,
             NEW scope \in {"selected", "following"}, DeleteTurns(c, r, p, scope)
      PROVE  issued' = issued /\ \A d \in Conversation : turns'[d] \subseteq turns[d]
  BY <1>5 DEF DeleteTurns, TypeOK
<1>6. ASSUME NEW c \in Conversation, NEW r \in 0 .. MaxRevision, NEW accept \in BOOLEAN,
             NEW t \in turns[c], NEW i \in t.pending, Confirm(c, r, t, i, accept)
      PROVE  StoredIssued' /\ issued \subseteq issued'
  <2> DEFINE v == Resolved(t, i, accept)
  <2>1. turns' = [turns EXCEPT ![c] = (@ \ {t}) \cup {v}] /\ issued' = issued
    BY <1>6 DEF Confirm, observed
  <2>2. ReceiptOf(c, v) = ReceiptOf(c, t)
    BY ResolvedFields DEF ReceiptOf, TypeOK
  <2> HIDE DEF v
  <2>3. QED
    BY <2>1, <2>2 DEF StoredIssued, TypeOK
<1>7. CASE UNCHANGED <<turns, issued>>
  BY <1>1, <1>7
<1>8. QED
  BY <1>1, <1>2, <1>3, <1>4, <1>5, <1>6, <1>7
     DEF Next, Retry, Commit, Forget, Control, Reply, Controls, AcknowledgeDeletion,
         AcknowledgeTurnDeletion, observed, rows, vars

LEMMA AnswersIssuedStep ==
  TypeOK /\ TaskTypeOK /\ AnswersIssued /\ [CompletionNext]_allVars => AnswersIssued'
<1> SUFFICES ASSUME TypeOK, TaskTypeOK, AnswersIssued, [CompletionNext]_allVars
             PROVE  AnswersIssued'
  OBVIOUS
<1>1. StoredIssued' /\ issued \subseteq issued'
  BY StoreStep, StoredIssuedStep DEF AnswersIssued
<1>2. CASE answers' = answers
  BY <1>1, <1>2 DEF AnswersIssued
<1>3. ASSUME NEW k \in Task, Check(k) PROVE AnswersIssued'
  <2>1. tasks[k].conversation \in Conversation
    BY <1>3, PhaseActive, ActiveFields DEF Check, InPhase
  <2>2. answers' = answers \/ \E t \in turns[tasks[k].conversation] :
          answers' \subseteq answers \cup {ReceiptOf(tasks[k].conversation, t)}
    BY <1>3 DEF Check, StoredTurns, Fail, Return
  <2>3. QED
    BY <1>1, <2>1, <2>2 DEF AnswersIssued, StoredIssued
<1>4. ASSUME NEW k \in Task, Save(k) PROVE AnswersIssued'
  <2> DEFINE task == tasks[k]
             c == task.conversation
             q == task.request
             f == task.body
             r == task.snapshot.revision
  <2>1. c \in Conversation
    BY <1>4, PhaseActive, ActiveFields DEF Save, InPhase
  <2> HIDE DEF task, c, q, f, r
  <2>2. \/ answers' = answers
        \/ \E t \in turns[c] : answers' \subseteq answers \cup {ReceiptOf(c, t)}
        \/ \E reply \in task.reply :
             /\ AppendNew(c, q, f, r, Stored(f, reply.calls), reply.answer)
             /\ answers' \subseteq answers \cup
                  {ReceiptOf(c, NewTurn(c, q, f, r, Stored(f, reply.calls), reply.answer))}
    BY <1>4 DEF Save, Fail, Return, task, c, q, f, r
  <2>3. CASE \E t \in turns[c] : answers' \subseteq answers \cup {ReceiptOf(c, t)}
    BY <1>1, <2>1, <2>3 DEF AnswersIssued, StoredIssued
  <2>4. ASSUME NEW reply \in task.reply,
               AppendNew(c, q, f, r, Stored(f, reply.calls), reply.answer),
               answers' \subseteq answers \cup
                 {ReceiptOf(c, NewTurn(c, q, f, r, Stored(f, reply.calls), reply.answer))}
        PROVE  AnswersIssued'
    BY <1>1, <2>4 DEF AppendNew, AnswersIssued
  <2>5. QED
    BY <1>2, <2>2, <2>3, <2>4
<1>5. QED
  BY <1>2, <1>3, <1>4
     DEF CompletionNext, Proceed, Begin, Prepare, Infer, Disconnect, Fail, Crash,
         Configure, Elsewhere, taskVars, allVars

\* Callers are told one answer per request, and one that is or was stored.
THEOREM AnswersCorrect == CompletionSpec => []AnswersAgree
<1>1. CompletionInit => AnswersIssued
  BY DEF CompletionInit, Init, AnswersIssued, StoredIssued
<1>2. AnswersIssued /\ ReceiptsFinal => AnswersAgree
  BY DEF AnswersIssued, ReceiptsFinal, AnswersAgree
<1>3. HistoryInv => ReceiptsFinal
  BY DEF HistoryInv
<1>4. QED
  BY <1>1, <1>2, <1>3, AnswersIssuedStep, TasksTyped, CompletionUsesStore, HistoryCorrect,
     PTL DEF CompletionSpec

\* What happens outside complete() stores no request.
LEMMA ElsewhereKeepsRequests ==
  ASSUME TypeOK, Elsewhere, NEW c \in Conversation, NEW t \in turns'[c]
  PROVE  \E before \in turns[c] : before.request = t.request
<1>1. CASE turns'[c] \subseteq turns[c]
  BY <1>1
<1>2. ASSUME NEW d \in Conversation, Create(d) \/ Delete(d)
      PROVE  turns'[c] \subseteq turns[c]
  BY <1>2 DEF Create, Delete, observed, TypeOK
<1>3. ASSUME NEW d \in Conversation, NEW r \in 0 .. MaxRevision, NEW p \in 0 .. MaxRevision,
             NEW scope \in {"selected", "following"}, DeleteTurns(d, r, p, scope)
      PROVE  turns'[c] \subseteq turns[c]
  BY <1>3 DEF DeleteTurns, TypeOK
<1>4. ASSUME NEW d \in Conversation, NEW r \in 0 .. MaxRevision, NEW accept \in BOOLEAN,
             NEW u \in turns[d], NEW i \in u.pending, Confirm(d, r, u, i, accept)
      PROVE  \E before \in turns[c] : before.request = t.request
  <2> DEFINE v == Resolved(u, i, accept)
  <2>1. turns' = [turns EXCEPT ![d] = (@ \ {u}) \cup {v}]
    BY <1>4 DEF Confirm
  <2>2. v.request = u.request
    BY ResolvedFields DEF TypeOK
  <2> HIDE DEF v
  <2>3. QED
    BY <2>1, <2>2 DEF TypeOK
<1>5. CASE turns' = turns
  BY <1>1, <1>5
<1>6. QED
  BY <1>1, <1>2, <1>3, <1>4, <1>5
     DEF Elsewhere, Forget, Control, Reply, Controls, AcknowledgeDeletion,
         AcknowledgeTurnDeletion, observed, rows

\* While the history is not permitted, nothing is stored and nothing returned.
LEMMA WithdrawnStoresNothing ==
  ASSUME TypeOK, TaskTypeOK, [CompletionNext]_allVars, "history" \notin grants
  PROVE  /\ answers' = answers
         /\ \A c \in Conversation : \A t \in turns'[c] :
              \E before \in turns[c] : before.request = t.request
<1>1. ASSUME NEW k \in Task, Check(k) PROVE UNCHANGED <<turns, answers>>
  BY <1>1 DEF Check, Return, Fail, vars, rows
<1>2. ASSUME NEW k \in Task, Save(k) PROVE UNCHANGED <<turns, answers>>
  BY <1>2 DEF Save, StillConsented, Fail, vars, rows
<1>3. CASE Elsewhere
  BY <1>3, ElsewhereKeepsRequests DEF Elsewhere, taskVars
<1>4. CASE UNCHANGED <<turns, answers>>
  BY <1>4
<1>5. ASSUME ~Elsewhere PROVE UNCHANGED <<turns, answers>>
  BY <1>1, <1>2, <1>5
     DEF CompletionNext, Proceed, Begin, Prepare, Infer, Disconnect, Fail, Crash,
         Configure, taskVars, allVars, vars, rows
<1>6. QED
  BY <1>3, <1>4, <1>5

\* Only a step under the permission to export hands a prompt to the provider.
LEMMA SentByPermission ==
  ASSUME TaskTypeOK, [CompletionNext]_allVars, "export" \notin grants, NEW k \in Task,
         InPhase(k, "preparing")
  PROVE  tasks'[k].phase # "inferring"
<1>1. CASE tasks'[k] = tasks[k]
  BY <1>1 DEF InPhase
<1>2. CASE tasks'[k] = Idle
  BY <1>2 DEF Idle
<1>3. ASSUME NEW j \in Task, Proceed(j) \/ Disconnect(j) PROVE tasks'[k] \in {tasks[k], Idle}
  <2>1. ASSUME j # k PROVE tasks'[k] = tasks[k]
    BY <1>3, <2>1 DEF Proceed, Check, Prepare, Infer, Save, Disconnect, Fail, Return,
       Become, TaskTypeOK
  <2>2. ASSUME j = k PROVE tasks'[k] = Idle
    BY <1>3, <2>2 DEF Proceed, Check, Prepare, Infer, Save, Disconnect, Fail, Become,
       TaskTypeOK, InPhase
  <2>3. QED
    BY <2>1, <2>2
<1>4. ASSUME NEW j \in Task, NEW c \in Conversation, NEW q \in Request, NEW f \in Fingerprint,
             Begin(j, c, q, f)
      PROVE  tasks'[k] = tasks[k]
  BY <1>4 DEF Begin, Become, InPhase, TaskTypeOK
<1>5. QED
  BY <1>1, <1>2, <1>3, <1>4
     DEF CompletionNext, Crash, Configure, Elsewhere, taskVars, allVars

\* Whatever the permissions, and whenever they change: a reply that was asked for
\* under a consent withdrawn since is neither stored nor told, and no prompt is sent
\* once sending is no longer permitted.
THEOREM ConsentIsAskedAgain == CompletionSpec => ConsentGoverns
<1>1. TypeOK /\ TaskTypeOK /\ [CompletionNext]_allVars =>
        [/\ "history" \notin grants =>
              /\ answers' = answers
              /\ \A c \in Conversation : \A t \in turns'[c] :
                   \E before \in turns[c] : before.request = t.request
         /\ "export" \notin grants =>
              \A k \in Task : InPhase(k, "preparing") => tasks'[k].phase # "inferring"]_allVars
  BY WithdrawnStoresNothing, SentByPermission
<1>2. QED
  BY <1>1, TasksTyped, PTL DEF CompletionSpec, ConsentGoverns
-----------------------------------------------------------------------------
(***************************************************************************)
(* Tool sequences.                                                         *)
(***************************************************************************)
Distinct(S) == \A t, u \in S : t.revision = u.revision => t = u

LEMMA NamesAre ==
  ASSUME NEW S
  PROVE  /\ \A t \in S : \A i \in DOMAIN t.messages : <<t.revision, i>> \in Names(S)
         /\ \A p \in Names(S) : \E t \in S : \E i \in DOMAIN t.messages : p = <<t.revision, i>>
<1>1. ASSUME NEW t \in S, NEW i \in DOMAIN t.messages PROVE <<t.revision, i>> \in Names(S)
  BY DEF Names
<1>2. ASSUME NEW p \in Names(S)
      PROVE  \E t \in S : \E i \in DOMAIN t.messages : p = <<t.revision, i>>
  BY DEF Names
<1>3. QED
  BY <1>1, <1>2

LEMMA AtTurn ==
  ASSUME NEW S, Distinct(S), NEW t \in S, NEW i
  PROVE  At(S, <<t.revision, i>>) = t.messages[i]
<1>1. (CHOOSE u \in S : u.revision = t.revision) = t
  BY DEF Distinct
<1>2. QED
  BY <1>1 DEF At

\* A part of a valid sequence that parts no call from its results is valid.
LEMMA ToolsOfPart ==
  ASSUME NEW S, NEW P, Names(P) \subseteq Names(S),
         \A p \in Names(P) : At(P, p) = At(S, p),
         \A p \in CallPlaces(S), q \in ResultPlaces(S) :
           At(S, p).ids \cap At(S, q).ids # {} => (p \in Names(P) <=> q \in Names(P)),
         ToolSequence(S)
  PROVE  ToolSequence(P)
<1>1. /\ CallPlaces(P) = CallPlaces(S) \cap Names(P)
      /\ ResultPlaces(P) = ResultPlaces(S) \cap Names(P)
  BY DEF CallPlaces, ResultPlaces
<1>2. ASSUME NEW p, NEW q \in Names(P), NEW k, Answers(S, p, q, k) PROVE Answers(P, p, q, k)
  BY <1>1, <1>2 DEF Answers
<1>3. \A p, q \in CallPlaces(P) : p # q => At(P, p).ids \cap At(P, q).ids = {}
  BY <1>1 DEF ToolSequence
<1>4. ASSUME NEW q \in ResultPlaces(P), NEW k \in At(P, q).ids
      PROVE  /\ \E p \in CallPlaces(P) : k \in At(P, p).ids /\ Answers(P, p, q, k)
             /\ \A x \in ResultPlaces(P) : k \in At(P, x).ids => x = q
  <2>1. q \in ResultPlaces(S) /\ q \in Names(P) /\ k \in At(S, q).ids
    BY <1>1
  <2>2. PICK p \in CallPlaces(S) : k \in At(S, p).ids /\ Answers(S, p, q, k)
    BY <2>1 DEF ToolSequence
  <2>3. p \in Names(P)
    BY <2>1, <2>2
  <2>4. p \in CallPlaces(P) /\ k \in At(P, p).ids /\ Answers(P, p, q, k)
    BY <1>1, <1>2, <2>1, <2>2, <2>3
  <2>5. \A x \in ResultPlaces(P) : k \in At(P, x).ids => x = q
    BY <1>1, <2>1 DEF ToolSequence
  <2>6. QED
    BY <2>4, <2>5
<1>5. ASSUME NEW p \in CallPlaces(P), NEW x \in Names(P) \ ResultPlaces(P), Before(p, x),
             NEW k \in At(P, p).ids
      PROVE  \E q \in ResultPlaces(P) : Answers(P, p, q, k)
  <2>1. /\ p \in CallPlaces(S) /\ p \in Names(P) /\ k \in At(S, p).ids
        /\ x \in Names(S) \ ResultPlaces(S)
    BY <1>1
  <2>2. PICK q \in ResultPlaces(S) : Answers(S, p, q, k)
    BY <1>5, <2>1 DEF ToolSequence
  <2>3. q \in Names(P)
    BY <2>1, <2>2 DEF Answers
  <2>4. QED
    BY <1>1, <1>2, <2>2, <2>3
<1>6. QED
  BY <1>3, <1>4, <1>5 DEF ToolSequence

\* A valid sequence without open calls stays valid when a reply with new calls
\* follows it.
LEMMA ToolsExtended ==
  ASSUME NEW S, NEW T, NEW z, Names(T) = Names(S) \cup {z},
         \A p \in Names(S) : At(T, p) = At(S, p) /\ Before(p, z) /\ ~Before(z, p),
         ~Before(z, z),
         At(T, z).role = "assistant",
         \A p \in CallPlaces(S) :
           At(S, p).ids \cap At(T, z).ids = {} /\ At(S, p).ids \subseteq Tool,
         ValidTools(S)
  PROVE  ToolSequence(T)
<1>1. /\ CallPlaces(T) = CallPlaces(S) \cup {z}
      /\ ResultPlaces(T) = ResultPlaces(S)
      /\ ToolSequence(S)
      /\ CallPlaces(S) \subseteq Names(S) /\ ResultPlaces(S) \subseteq Names(S)
  BY DEF CallPlaces, ResultPlaces, ValidTools
<1>2. ASSUME NEW p \in Names(S), NEW q \in Names(S), NEW k, Answers(S, p, q, k)
      PROVE  Answers(T, p, q, k)
  BY <1>1, <1>2 DEF Answers
<1>3. ASSUME NEW p \in CallPlaces(T), NEW q \in CallPlaces(T), p # q
      PROVE  At(T, p).ids \cap At(T, q).ids = {}
  <2>1. CASE p \in CallPlaces(S) /\ q \in CallPlaces(S)
    BY <1>1, <1>3, <2>1 DEF ToolSequence
  <2>2. CASE p = z
    BY <1>1, <1>3, <2>2
  <2>3. CASE q = z
    BY <1>1, <1>3, <2>3
  <2>4. QED
    BY <1>1, <2>1, <2>2, <2>3
<1>4. ASSUME NEW q \in ResultPlaces(T), NEW k \in At(T, q).ids
      PROVE  /\ \E p \in CallPlaces(T) : k \in At(T, p).ids /\ Answers(T, p, q, k)
             /\ \A x \in ResultPlaces(T) : k \in At(T, x).ids => x = q
  <2>1. q \in ResultPlaces(S) /\ k \in At(S, q).ids
    BY <1>1
  <2>2. PICK p \in CallPlaces(S) : k \in At(S, p).ids /\ Answers(S, p, q, k)
    BY <1>1, <2>1 DEF ToolSequence
  <2>3. p \in CallPlaces(T) /\ k \in At(T, p).ids /\ Answers(T, p, q, k)
    BY <1>1, <1>2, <2>1, <2>2
  <2>4. \A x \in ResultPlaces(T) : k \in At(T, x).ids => x = q
    BY <1>1, <2>1 DEF ToolSequence
  <2>5. QED
    BY <2>3, <2>4
<1>5. ASSUME NEW p \in CallPlaces(T), NEW x \in Names(T) \ ResultPlaces(T), Before(p, x),
             NEW k \in At(T, p).ids
      PROVE  \E q \in ResultPlaces(T) : Answers(T, p, q, k)
  <2>1. p \in CallPlaces(S) /\ k \in At(S, p).ids /\ k \in Tool
    BY <1>1, <1>5
  <2>2. k \notin Unanswered(S)
    BY DEF ValidTools
  <2>3. PICK q \in ResultPlaces(S) : Answers(S, p, q, k)
    BY <2>1, <2>2 DEF Unanswered
  <2>4. QED
    BY <1>1, <1>2, <2>1, <2>3
<1>6. QED
  BY <1>3, <1>4, <1>5 DEF ToolSequence

\* What a deletion leaves parts no call from its results.
LEMMA ToolsAfterForget ==
  ASSUME NEW S, Distinct(S), ToolSequence(S), NEW gone, Whole(Connections(S), gone),
         NEW P, P = {t \in S : t.revision \notin gone}
  PROVE  ToolSequence(P)
<1>1. P \subseteq S /\ Distinct(P)
  BY DEF Distinct
<1>2. ASSUME NEW p \in Names(P) PROVE p \in Names(S)
  <2>1a. PICK t \in P : \E i \in DOMAIN t.messages : p = <<t.revision, i>>
    BY NamesAre
  <2>1. PICK i \in DOMAIN t.messages : p = <<t.revision, i>>
    BY <2>1a
  <2>2. QED
    BY <1>1, <2>1, NamesAre
<1>3. ASSUME NEW p \in Names(P) PROVE At(P, p) = At(S, p)
  <2>1a. PICK t \in P : \E i \in DOMAIN t.messages : p = <<t.revision, i>>
    BY NamesAre
  <2>1. PICK i \in DOMAIN t.messages : p = <<t.revision, i>>
    BY <2>1a
  <2>2. QED
    BY <1>1, <2>1, AtTurn
<1>4. ASSUME NEW p \in CallPlaces(S), NEW q \in ResultPlaces(S), NEW k,
             k \in At(S, p).ids, k \in At(S, q).ids
      PROVE  p \in Names(P) <=> q \in Names(P)
  <2>1a. PICK t \in S : \E i \in DOMAIN t.messages : p = <<t.revision, i>>
    BY NamesAre DEF CallPlaces
  <2>1. PICK i \in DOMAIN t.messages : p = <<t.revision, i>>
    BY <2>1a
  <2>2a. PICK u \in S : \E j \in DOMAIN u.messages : q = <<u.revision, j>>
    BY NamesAre DEF ResultPlaces
  <2>2. PICK j \in DOMAIN u.messages : q = <<u.revision, j>>
    BY <2>2a
  <2>3. /\ t.messages[i].role = "assistant" /\ k \in t.messages[i].ids
        /\ u.messages[j].role = "tool" /\ k \in u.messages[j].ids
    BY <1>4, <2>1, <2>2, AtTurn DEF CallPlaces, ResultPlaces
  <2> DEFINE g == CallTurns(S, k) \cup ResultTurns(S, k)
  <2>4. t.revision \in CallTurns(S, k) /\ u.revision \in ResultTurns(S, k)
    BY <2>3 DEF CallTurns, ResultTurns
  <2>5. k \in IdsOf(S)
    <3>1. k \in UNION {t.messages[x].ids : x \in DOMAIN t.messages}
      BY <2>3
    <3>2. QED
      BY <3>1 DEF IdsOf
  <2>6. g \in Connections(S)
    BY <2>4, <2>5 DEF Connections
  <2>7. t.revision \in gone <=> u.revision \in gone
    <3>1. t.revision \in g /\ u.revision \in g
      BY <2>4
    <3> HIDE DEF g
    <3>2. QED
      BY <2>6, <3>1 DEF Whole
  <2>8. p \in Names(P) <=> t.revision \notin gone
    BY <2>1, NamesAre
  <2>9. q \in Names(P) <=> u.revision \notin gone
    BY <2>2, NamesAre
  <2>10. QED
    BY <2>7, <2>8, <2>9
<1>5. QED
  BY <1>2, <1>3, <1>4, ToolsOfPart

\* A reply appended to the messages that were checked with it leaves a history
\* with the tool calls in order.
LEMMA ToolsAfterReply ==
  ASSUME NEW R, NEW r \in Nat, NEW m \in Seq(Message), NEW a \in Message,
         a.role = "assistant",
         Distinct(R),
         \A t \in R : t.revision \in 0 .. r /\ t.messages \in Seq(Message),
         NEW new, new.revision = r + 1, new.messages = Append(m, a),
         NEW S, S = R \cup {[revision |-> r + 1, messages |-> m]},
         ValidTools(S),
         \A p \in CallPlaces(S) : At(S, p).ids \cap a.ids = {}
  PROVE  ToolSequence(R \cup {new})
<1> DEFINE T == R \cup {new}
           input == [revision |-> r + 1, messages |-> m]
           z == <<r + 1, Len(m) + 1>>
<1>1. Distinct(S) /\ Distinct(T)
  <2>1. \A t \in R : t.revision # r + 1
    OBVIOUS
  <2>2. QED
    BY <2>1 DEF Distinct
<1>2. /\ DOMAIN m = 1 .. Len(m) /\ Len(m) \in Nat
      /\ DOMAIN new.messages = 1 .. (Len(m) + 1)
      /\ \A i \in 1 .. Len(m) : new.messages[i] = m[i]
      /\ new.messages[Len(m) + 1] = a
  OBVIOUS
<1>3. z \in Names(T) /\ At(T, z) = a
  <2>1. new \in T /\ Len(m) + 1 \in DOMAIN new.messages
    BY <1>2
  <2>2. <<new.revision, Len(m) + 1>> \in Names(T)
    BY <2>1, NamesAre
  <2>3. At(T, <<new.revision, Len(m) + 1>>) = a
    BY <1>1, <1>2, <2>1, AtTurn
  <2>4. QED
    BY <2>2, <2>3
<1>4. ASSUME NEW p \in Names(S)
      PROVE  /\ p \in Names(T) /\ At(T, p) = At(S, p) /\ Before(p, z) /\ ~Before(z, p)
             /\ At(S, p) \in Message
  <2>1a. PICK t \in S : \E i \in DOMAIN t.messages : p = <<t.revision, i>>
    BY NamesAre
  <2>1. PICK i \in DOMAIN t.messages : p = <<t.revision, i>>
    BY <2>1a
  <2>2. At(S, p) = t.messages[i]
    BY <1>1, <2>1, AtTurn
  <2>3. CASE t \in R
    <3>1. p \in Names(T) /\ At(T, p) = t.messages[i]
      BY <1>1, <2>1, <2>3, NamesAre, AtTurn
    <3>2. t.revision \in 0 .. r /\ t.messages[i] \in Message
      BY <2>1, <2>3
    <3>3. Before(p, z) /\ ~Before(z, p)
      BY <2>1, <3>2 DEF Before
    <3>4. QED
      BY <2>2, <3>1, <3>2, <3>3
  <2>4. CASE t = input
    <3>1. /\ i \in 1 .. Len(m) /\ t.messages[i] = m[i] /\ t.revision = r + 1
          /\ m[i] \in Message
      BY <1>2, <2>1, <2>4
    <3>2. <<new.revision, i>> \in Names(T) /\ At(T, <<new.revision, i>>) = m[i]
      <4>1. new \in T /\ i \in DOMAIN new.messages
        BY <1>2, <3>1
      <4>2. <<new.revision, i>> \in Names(T)
        BY <4>1, NamesAre
      <4>3. At(T, <<new.revision, i>>) = new.messages[i]
        BY <1>1, <4>1, AtTurn
      <4>4. QED
        BY <1>2, <3>1, <4>2, <4>3
    <3>3. p \in Names(T) /\ At(T, p) = m[i]
      BY <2>1, <3>1, <3>2
    <3>4. Before(p, z) /\ ~Before(z, p)
      BY <1>2, <2>1, <3>1 DEF Before
    <3>5. QED
      BY <2>2, <3>1, <3>3, <3>4
  <2>5. QED
    BY <2>1, <2>3, <2>4
<1>5. ASSUME NEW p \in Names(T) PROVE p \in Names(S) \cup {z}
  <2>1a. PICK t \in T : \E i \in DOMAIN t.messages : p = <<t.revision, i>>
    BY NamesAre
  <2>1. PICK i \in DOMAIN t.messages : p = <<t.revision, i>>
    BY <2>1a
  <2>2. CASE t \in R
    BY <2>1, <2>2, NamesAre
  <2>3. CASE t = new
    <3>1. p = <<r + 1, i>> /\ (i \in 1 .. Len(m) \/ i = Len(m) + 1)
      <4>1. p = <<r + 1, i>> /\ i \in 1 .. (Len(m) + 1)
        BY <1>2, <2>1, <2>3
      <4>2. i \in 1 .. Len(m) \/ i = Len(m) + 1
        BY <1>2, <4>1
      <4>3. QED
        BY <4>1, <4>2
    <3>2. CASE i = Len(m) + 1
      BY <3>1, <3>2
    <3>3. CASE i \in 1 .. Len(m)
      <4>1. input \in S /\ i \in DOMAIN input.messages /\ input.revision = r + 1
        BY <1>2, <3>3
      <4>2. <<input.revision, i>> \in Names(S)
        BY <4>1, NamesAre
      <4>3. QED
        BY <3>1, <4>1, <4>2
    <3>4. QED
      BY <3>1, <3>2, <3>3
  <2>4. QED
    BY <2>1, <2>2, <2>3
<1>6. Names(T) = Names(S) \cup {z}
  BY <1>3, <1>4, <1>5
<1>7. ~Before(z, z)
  BY <1>2 DEF Before
<1>8. \A p \in CallPlaces(S) :
        At(S, p).ids \cap At(T, z).ids = {} /\ At(S, p).ids \subseteq Tool
  BY <1>3, <1>4 DEF CallPlaces, Message
<1> HIDE DEF T, z, input
<1>9. ToolSequence(T)
  BY <1>3, <1>4, <1>6, <1>7, <1>8, ToolsExtended
<1>10. QED
  BY <1>9 DEF T

\* What a task found valid stays so: the prompt it checked, and the reply to it.
Checked(task) ==
  /\ task.phase \in {"preparing", "inferring", "resting"} =>
       ValidTools(Supplied(task.snapshot, task.body))
  /\ \A reply \in task.reply : FreshCalls(task.snapshot, task.body, reply.calls)

TasksChecked == \A k \in Task : tasks[k] # Idle => Checked(tasks[k])

LEMMA CheckedStep ==
  ASSUME TaskTypeOK, TasksChecked, [CompletionNext]_allVars
  PROVE  TasksChecked'
<1>1. ASSUME NEW k \in Task, NEW state, Become(k, state), state = Idle \/ Checked(state)
      PROVE  TasksChecked'
  BY <1>1 DEF Become, TasksChecked, TaskTypeOK
<1>2. ASSUME NEW k \in Task, Fail(k) PROVE TasksChecked'
  BY <1>1, <1>2 DEF Fail
<1>3. ASSUME NEW k \in Task, NEW receipt, Return(k, receipt) PROVE TasksChecked'
  BY <1>1, <1>3 DEF Return
<1>4. ASSUME NEW k \in Task, NEW c \in Conversation, NEW q \in Request, NEW f \in Fingerprint,
             Begin(k, c, q, f)
      PROVE  TasksChecked'
  <2> DEFINE state ==
        [phase |-> "checking", conversation |-> c, request |-> q, body |-> f,
         snapshot |-> [revision |-> revision[c], private |-> privateMode[c],
                       turns |-> turns[c]],
         known |-> Settled(c, q) \/ \E t \in turns[c] : t.request = q,
         reply |-> {}]
  <2>1. Become(k, state)
    BY <1>4 DEF Begin
  <2>2. state.phase = "checking" /\ state.reply = {}
    OBVIOUS
  <2> HIDE DEF state
  <2>3. QED
    BY <1>1, <2>1, <2>2 DEF Checked
<1>5. ASSUME NEW k \in Task, Check(k) PROVE TasksChecked'
  <2>1. tasks[k] # Idle /\ tasks[k] \in ActiveTask
    BY <1>5, PhaseActive, ActiveFields DEF Check, InPhase
  <2>2. CASE /\ ValidTools(Supplied(tasks[k].snapshot, tasks[k].body))
             /\ Become(k, [tasks[k] EXCEPT !.phase = "preparing"])
    <3> DEFINE state == [tasks[k] EXCEPT !.phase = "preparing"]
    <3>1. state.snapshot = tasks[k].snapshot /\ state.body = tasks[k].body
          /\ state.reply = tasks[k].reply
      BY <2>1 DEF ActiveTask
    <3>2. Become(k, state)
      BY <2>2
    <3> HIDE DEF state
    <3>3. Checked(state)
      BY <2>1, <2>2, <3>1 DEF Checked, TasksChecked
    <3>4. QED
      BY <1>1, <3>2, <3>3
  <2>3. QED
    BY <1>2, <1>3, <1>5, <2>2 DEF Check
<1>6. ASSUME NEW k \in Task, Prepare(k) PROVE TasksChecked'
  <2>1. tasks[k] # Idle /\ tasks[k] \in ActiveTask
    BY <1>6, PhaseActive, ActiveFields DEF Prepare, InPhase
  <2>2. CASE Become(k, [tasks[k] EXCEPT !.phase = "inferring"])
    <3> DEFINE state == [tasks[k] EXCEPT !.phase = "inferring"]
    <3>1. state.snapshot = tasks[k].snapshot /\ state.body = tasks[k].body
          /\ state.reply = tasks[k].reply
      BY <2>1 DEF ActiveTask
    <3>2. Become(k, state)
      BY <2>2
    <3> HIDE DEF state
    <3>3. Checked(state)
      BY <1>6, <2>1, <3>1 DEF Checked, TasksChecked, Prepare, InPhase
    <3>4. QED
      BY <1>1, <3>2, <3>3
  <2>3. QED
    BY <1>2, <1>6, <2>2 DEF Prepare
<1>7. ASSUME NEW k \in Task, Infer(k) PROVE TasksChecked'
  <2>1. tasks[k] # Idle /\ tasks[k] \in ActiveTask
    BY <1>7, PhaseActive, ActiveFields DEF Infer, InPhase
  <2>2. ASSUME NEW a \in Answer, NEW calls \in SUBSET Tool,
               FreshCalls(tasks[k].snapshot, tasks[k].body, calls),
               Become(k, [tasks[k] EXCEPT !.phase = "resting",
                                          !.reply = {[answer |-> a, calls |-> calls]}])
        PROVE  TasksChecked'
    <3> DEFINE state == [tasks[k] EXCEPT !.phase = "resting",
                                         !.reply = {[answer |-> a, calls |-> calls]}]
    <3>1. state.snapshot = tasks[k].snapshot /\ state.body = tasks[k].body
          /\ \A reply \in state.reply : reply.calls = calls
      BY <2>1 DEF ActiveTask
    <3>2. Become(k, state)
      BY <2>2
    <3> HIDE DEF state
    <3>3. Checked(state)
      BY <1>7, <2>1, <2>2, <3>1 DEF Checked, TasksChecked, Infer, InPhase
    <3>4. QED
      BY <1>1, <3>2, <3>3
  <2>3. QED
    BY <1>2, <1>7, <2>2 DEF Infer
<1>8. ASSUME NEW k \in Task, Save(k) PROVE TasksChecked'
  BY <1>2, <1>3, <1>8 DEF Save
<1>9. ASSUME NEW k \in Task, Disconnect(k) PROVE TasksChecked'
  BY <1>2, <1>9 DEF Disconnect
<1>10. CASE Crash
  BY <1>10 DEF Crash, TasksChecked
<1>11. CASE UNCHANGED tasks
  BY <1>11 DEF TasksChecked
<1>12. QED
  BY <1>4, <1>5, <1>6, <1>7, <1>8, <1>9, <1>10, <1>11
     DEF CompletionNext, Proceed, Configure, Elsewhere, taskVars, allVars

LEMMA ToolsOfNone == ToolSequence({})
<1>1. Names({}) = {}
  BY DEF Names
<1>2. QED
  BY <1>1 DEF ToolSequence, CallPlaces, ResultPlaces

\* Answering a confirmation touches no message.
LEMMA ToolsAfterConfirm ==
  ASSUME NEW S, Distinct(S), NEW t \in S, NEW u,
         u.revision = t.revision, u.messages = t.messages, ToolSequence(S)
  PROVE  ToolSequence((S \ {t}) \cup {u})
<1> DEFINE P == (S \ {t}) \cup {u}
<1>1. Distinct(P)
  BY DEF Distinct
<1>2. ASSUME NEW p \in Names(P) PROVE p \in Names(S) /\ At(P, p) = At(S, p)
  <2>1a. PICK x \in P : \E i \in DOMAIN x.messages : p = <<x.revision, i>>
    BY NamesAre
  <2>1. PICK i \in DOMAIN x.messages : p = <<x.revision, i>>
    BY <2>1a
  <2>2. PICK y \in S : y.revision = x.revision /\ y.messages = x.messages
    OBVIOUS
  <2>3. p \in Names(S) /\ At(S, p) = y.messages[i]
    BY <2>1, <2>2, NamesAre, AtTurn
  <2>4. At(P, p) = x.messages[i]
    BY <1>1, <2>1, AtTurn
  <2>5. QED
    BY <2>2, <2>3, <2>4
<1>3. ASSUME NEW p \in Names(S) PROVE p \in Names(P)
  <2>1a. PICK y \in S : \E i \in DOMAIN y.messages : p = <<y.revision, i>>
    BY NamesAre
  <2>1. PICK i \in DOMAIN y.messages : p = <<y.revision, i>>
    BY <2>1a
  <2>2. PICK x \in P : y.revision = x.revision /\ y.messages = x.messages
    OBVIOUS
  <2>3. QED
    BY <2>1, <2>2, NamesAre
<1> HIDE DEF P
<1>4. ToolSequence(P)
  BY <1>2, <1>3, ToolsOfPart DEF CallPlaces, ResultPlaces
<1>5. QED
  BY <1>4 DEF P

LEMMA TurnsDistinct ==
  ASSUME HistoryInv, NEW c \in Conversation
  PROVE  Distinct(turns[c])
BY DEF HistoryInv, TurnIdentity, Ever, Distinct

\* A reply is stored only after the history it was checked against.
LEMMA SaveKeepsTools ==
  ASSUME HistoryInv, TaskTypeOK, TasksRead, TasksChecked, HistoryStaysValid,
         NEW k \in Task, Save(k)
  PROVE  HistoryStaysValid'
<1> DEFINE task == tasks[k]
           c == task.conversation
           q == task.request
           f == task.body
           r == task.snapshot.revision
<1>1. task # Idle /\ task.phase = "resting"
  BY PhaseActive DEF Save, InPhase
<1>2. /\ c \in Conversation /\ q \in Request /\ f \in Fingerprint /\ r \in Nat
      /\ task.reply \subseteq [answer : Answer, calls : SUBSET Tool]
  BY <1>1, ActiveFields
<1>3. TypeOK
  BY DEF HistoryInv
<1>4. /\ ValidTools(Supplied(task.snapshot, f))
      /\ \A reply \in task.reply : FreshCalls(task.snapshot, f, reply.calls)
  BY <1>1 DEF TasksChecked, Checked
<1>5. Live(c) /\ r = revision[c] => task.snapshot.turns = turns[c]
  BY <1>1 DEF TasksRead, Reads
<1>6. \/ UNCHANGED rows
      \/ \E reply \in task.reply :
           AppendNew(c, q, f, r, Stored(f, reply.calls), reply.answer)
  BY DEF Save, AppendRetry, vars
<1> HIDE DEF task, c, q, f, r
<1>7. CASE UNCHANGED rows
  BY <1>7 DEF rows, HistoryStaysValid, Live
<1>8. ASSUME NEW reply \in task.reply,
             AppendNew(c, q, f, r, Stored(f, reply.calls), reply.answer)
      PROVE  HistoryStaysValid'
  <2> DEFINE R == turns[c]
             a == [role |-> "assistant", ids |-> reply.calls]
             new == NewTurn(c, q, f, r, Stored(f, reply.calls), reply.answer)
             S == R \cup {[revision |-> r + 1, messages |-> f.incoming]}
  <2>1. /\ Live(c) /\ r = revision[c] /\ status' = status
        /\ turns' = [turns EXCEPT ![c] = @ \cup {new}]
    BY <1>8 DEF AppendNew, AdvanceRevision
  <2>2. new.revision = r + 1 /\ new.messages = Append(f.incoming, a)
    BY DEF NewTurn, Stored
  <2>3. S = Supplied(task.snapshot, f)
    BY <1>5, <2>1 DEF Supplied, r
  <2>4. f.incoming \in Seq(Message)
    BY <1>2, BodyAssumption
  <2>5. a \in Message /\ a.role = "assistant" /\ a.ids = reply.calls
    BY <1>2 DEF Message
  <2>6. \A t \in R : t.revision \in 0 .. r /\ t.messages \in Seq(Message)
    <3>1. \A t \in R : t.revision \in Nat /\ t.messages \in Seq(Message)
      BY <1>2, <1>3 DEF TypeOK, Turn
    <3>2. \A t \in R : t.revision <= r
      BY <1>2, <2>1 DEF HistoryInv, Counted, Ever
    <3>3. QED
      BY <1>2, <3>1, <3>2
  <2>7. Distinct(R)
    BY <1>2, TurnsDistinct
  <2>8. ValidTools(S) /\ \A p \in CallPlaces(S) : At(S, p).ids \cap a.ids = {}
    BY <1>4, <2>3, <2>5 DEF FreshCalls
  <2> HIDE DEF R, a, new, S
  <2>9. ToolSequence(R \cup {new})
    BY <1>2, <2>2, <2>4, <2>5, <2>6, <2>7, <2>8, ToolsAfterReply DEF S
  <2>10. QED
    BY <1>2, <1>3, <2>1, <2>9 DEF HistoryStaysValid, Live, TypeOK, R
<1>9. QED
  BY <1>6, <1>7, <1>8

\* What other clients of the store do leaves the tool calls in order.
LEMMA ElsewhereKeepsTools ==
  ASSUME HistoryInv, HistoryStaysValid, Elsewhere
  PROVE  HistoryStaysValid'
<1>1. TypeOK
  BY DEF HistoryInv
<1>2. ASSUME NEW c \in Conversation, Create(c) PROVE HistoryStaysValid'
  <2>1. turns'[c] = {}
    BY <1>2 DEF Create, HistoryInv, RowsOfLive, Live
  <2>2. \A d \in Conversation : d # c => status'[d] = status[d] /\ turns'[d] = turns[d]
    BY <1>1, <1>2 DEF Create, TypeOK
  <2>3. QED
    BY <2>1, <2>2, ToolsOfNone DEF HistoryStaysValid, Live
<1>3. ASSUME NEW c \in Conversation, Delete(c) PROVE HistoryStaysValid'
  <2>1. status'[c] = "deleted"
    BY <1>1, <1>3 DEF Delete, TypeOK
  <2>2. \A d \in Conversation : d # c => status'[d] = status[d] /\ turns'[d] = turns[d]
    BY <1>1, <1>3 DEF Delete, TypeOK
  <2>3. QED
    BY <2>1, <2>2 DEF HistoryStaysValid, Live
<1>4. ASSUME NEW c \in Conversation, NEW r \in 0 .. MaxRevision, NEW p \in 0 .. MaxRevision,
             NEW scope \in {"selected", "following"}, DeleteTurns(c, r, p, scope)
      PROVE  HistoryStaysValid'
  <2> DEFINE gone == Selection(turns[c], p, scope)
             kept == {t \in turns[c] : t.revision \notin gone}
  <2>1. Whole(Connections(turns[c]), gone)
    BY SelectionIsWhole
  <2>2. Live(c) /\ status' = status
        /\ turns' = [turns EXCEPT ![c] = @ \ {t \in turns[c] : t.revision \in gone}]
    BY <1>4 DEF DeleteTurns, AdvanceRevision
  <2> HIDE DEF gone
  <2>3. turns'[c] = kept /\ \A d \in Conversation : d # c => turns'[d] = turns[d]
    BY <1>1, <2>2 DEF TypeOK
  <2>4. ToolSequence(kept)
    <3>1. Distinct(turns[c]) /\ ToolSequence(turns[c])
      BY <2>2, TurnsDistinct DEF HistoryStaysValid
    <3>2. QED
      BY <2>1, <3>1, ToolsAfterForget
  <2>5. QED
    BY <2>2, <2>3, <2>4 DEF HistoryStaysValid, Live
<1>5. ASSUME NEW c \in Conversation, NEW r \in 0 .. MaxRevision, NEW accept \in BOOLEAN,
             NEW t \in turns[c], NEW i \in t.pending, Confirm(c, r, t, i, accept)
      PROVE  HistoryStaysValid'
  <2> DEFINE u == Resolved(t, i, accept)
  <2>1. Live(c) /\ status' = status /\ turns' = [turns EXCEPT ![c] = (@ \ {t}) \cup {u}]
    BY <1>5 DEF Confirm, AdvanceRevision
  <2>2. u.revision = t.revision /\ u.messages = t.messages
    BY <1>1, ResolvedFields DEF TypeOK
  <2> HIDE DEF u
  <2>3. Distinct(turns[c]) /\ ToolSequence(turns[c])
    BY <2>1, TurnsDistinct DEF HistoryStaysValid
  <2>4. ToolSequence((turns[c] \ {t}) \cup {u})
    BY <2>2, <2>3, ToolsAfterConfirm
  <2>5. QED
    BY <1>1, <2>1, <2>4 DEF HistoryStaysValid, Live, TypeOK
<1>6. CASE UNCHANGED <<status, turns>>
  BY <1>6 DEF HistoryStaysValid, Live
<1>7. QED
  BY <1>2, <1>3, <1>4, <1>5, <1>6
     DEF Elsewhere, Forget, Control, Controls, Reply, AcknowledgeDeletion,
         AcknowledgeTurnDeletion, rows

\* However requests, deletions, confirmations and crashes interleave, and however
\* many turns there are, the stored tool calls stay in an order a provider accepts.
THEOREM HistoryAccepted == CompletionSpec => []HistoryStaysValid
<1>1. CompletionInit => TasksChecked /\ HistoryStaysValid
  BY DEF CompletionInit, Init, TasksChecked, HistoryStaysValid, Live
<1>2. /\ HistoryInv /\ TaskTypeOK /\ TasksRead /\ TasksChecked /\ HistoryStaysValid
      /\ [CompletionNext]_allVars
      => TasksChecked' /\ HistoryStaysValid'
  <2> SUFFICES ASSUME HistoryInv, TaskTypeOK, TasksRead, TasksChecked, HistoryStaysValid,
                      [CompletionNext]_allVars
               PROVE  TasksChecked' /\ HistoryStaysValid'
    OBVIOUS
  <2>1. TasksChecked'
    BY CheckedStep
  <2>2. ASSUME NEW k \in Task, Save(k) PROVE HistoryStaysValid'
    BY <2>2, SaveKeepsTools
  <2>3. CASE Elsewhere
    BY <2>1, <2>3, ElsewhereKeepsTools
  <2>4. CASE UNCHANGED vars
    BY <2>1, <2>4 DEF HistoryStaysValid, Live, vars, rows
  <2>5. QED
    BY <2>1, <2>2, <2>3, <2>4
       DEF CompletionNext, Proceed, Begin, Check, Prepare, Infer, Disconnect, Crash,
           Configure, allVars
<1>3. HistoryInv => TypeOK
  BY DEF HistoryInv
<1>4. QED
  BY <1>1, <1>2, <1>3, TasksTyped, TasksReadTruly, CompletionUsesStore, HistoryCorrect,
     PTL DEF CompletionSpec

-----------------------------------------------------------------------------
(***************************************************************************)
(* The operations on records are steps of the store or leave it alone.     *)
(***************************************************************************)
LEMMA RecordsStepOfStore == [RecordsNext]_memoryVars => [Next]_vars
<1> SUFFICES ASSUME [RecordsNext]_memoryVars PROVE [Next]_vars
  OBVIOUS
<1>1. ASSUME NEW c \in Conversation, DeleteAll(c) PROVE Next
  BY <1>1 DEF DeleteAll, Next
<1>2. ASSUME NEW c \in Conversation, NEW r \in 0 .. MaxRevision, NEW p \in 0 .. MaxRevision,
             NEW scope \in {"selected", "following"}, ForgetTurns(c, r, p, scope)
      PROVE  Next
  BY <1>2 DEF ForgetTurns, Forget, Next
<1>3. ASSUME NEW c \in Conversation, NEW r \in 0 .. MaxRevision, NEW p \in BOOLEAN,
             NEW a \in BOOLEAN, ControlsAll(c, r, p, a)
      PROVE  Next
  BY <1>3 DEF ControlsAll, Control, Next
<1>4. ASSUME NEW c \in Conversation, NEW r \in 0 .. MaxRevision, NEW accept \in BOOLEAN,
             NEW t \in turns[c], NEW i \in t.pending, ConfirmAll(c, r, t, i, accept)
      PROVE  Next
  BY <1>4 DEF ConfirmAll, Reply, Next
<1>5. ASSUME Quiet PROVE Next
  BY <1>5 DEF Quiet, Next
<1>6. ASSUME Register PROVE UNCHANGED vars
  BY <1>6 DEF Register, RegisterNew
<1>7. QED
  BY <1>1, <1>2, <1>3, <1>4, <1>5, <1>6 DEF RecordsNext, memoryVars

\* The records do nothing to the history that it would not do without them
\* (postgres_record_revocation.py runs in the transactions of postgres_history.py).
THEOREM RecordsUseStore == RecordsSpec => Spec
BY RecordsStepOfStore, PTL DEF RecordsSpec, RecordsInit, Spec

LEMMA RecordsOnHistory == RecordsSpec => []HistoryInv
BY RecordsUseStore, HistoryCorrect, PTL

-----------------------------------------------------------------------------
(***************************************************************************)
(* Shapes.                                                                 *)
(***************************************************************************)
\* What the constructors of memory_records.py guarantee of a record.
LEMMA RecordShape ==
  ASSUME NEW b \in Batch, NEW r \in b
  PROVE  /\ r \in Record
         /\ \A e \in r.ends :
              r.kind = "episode_fact_link" /\ e.kind \in {"episode", "fact"}
         /\ \A v \in r.evidence : r.kind = "semantic" /\ v.episode.kind = "episode"
         /\ r.kind = "episode_fact_link" => Quotes(r) = {}
BY BatchAssumption

LEMMA RowShape ==
  ASSUME RowsFromBatches, NEW x \in records
  PROVE  /\ x.record \in Record
         /\ \A e \in x.record.ends :
              x.record.kind = "episode_fact_link" /\ e.kind \in {"episode", "fact"}
         /\ \A v \in x.record.evidence :
              x.record.kind = "semantic" /\ v.episode.kind = "episode"
         /\ x.record.kind = "episode_fact_link" => Quotes(x.record) = {}
BY RecordShape DEF RowsFromBatches

LEMMA RefFields ==
  ASSUME NEW r, NEW ref, RefOf(r) = ref
  PROVE  r.kind = ref.kind /\ r.id = ref.id /\ r.version = ref.version
BY DEF RefOf

LEMMA RefType == ASSUME NEW r \in Record PROVE RefOf(r) \in Ref
BY DEF RefOf, Record, Ref

LEMMA QuotesType == ASSUME NEW r \in Record PROVE Quotes(r) \subseteq Citation
BY DEF Quotes, Record

LEMMA ActiveRow ==
  ASSUME NEW ref \in ActiveRefs
  PROVE  \E x \in records : x.active /\ RefOf(x.record) = ref
BY DEF ActiveRefs, ActiveRows

-----------------------------------------------------------------------------
(***************************************************************************)
(* Revocation.                                                             *)
(***************************************************************************)
LEMMA Reached ==
  ASSUME NEW c, NEW R, NEW x \in records
  PROVE  x \in Affected(c, R) <=>
           \/ x.record.kind = "episode" /\ x.record.id \in Citing("episode", c, R)
           \/ x.record.kind = "fact" /\ x.record.id \in Citing("fact", c, R)
           \/ /\ x.record.kind = "semantic"
              /\ \/ x.record.id \in Citing("semantic", c, R)
                 \/ Rests(x.record, Citing("episode", c, R))
           \/ /\ x.record.kind = "episode_fact_link"
              /\ Touches(x.record, Citing("episode", c, R), Citing("fact", c, R))
BY DEF Affected

LEMMA CitingRow ==
  ASSUME NEW c, NEW R, NEW x \in records, NEW q \in Quotes(x.record),
         q.conversation = c, q.revision \in R
  PROVE  x.record.id \in Citing(x.record.kind, c, R)
BY DEF Citing

\* What a revocation spares quotes nothing that is revoked, and the rows it rests
\* on are spared too.
LEMMA Spared ==
  ASSUME RowsFromBatches, NEW c, NEW R, NEW x \in records, x \notin Affected(c, R)
  PROVE  /\ \A q \in Quotes(x.record) : ~(q.conversation = c /\ q.revision \in R)
         /\ \A v \in x.record.evidence : \A y \in records :
              RefOf(y.record) = v.episode => y \notin Affected(c, R)
         /\ \A e \in x.record.ends : \A y \in records :
              RefOf(y.record) = e => y \notin Affected(c, R)
<1>1. ASSUME NEW q \in Quotes(x.record), q.conversation = c, q.revision \in R PROVE FALSE
  <2>1. x.record.id \in Citing(x.record.kind, c, R)
    BY <1>1, CitingRow
  <2>2. x.record.kind \in {"episode", "fact", "semantic"}
    BY <1>1, RowShape DEF Record, Kind
  <2>3. QED
    BY <2>1, <2>2, Reached
<1>2. ASSUME NEW v \in x.record.evidence, NEW y \in records,
             RefOf(y.record) = v.episode, y \in Affected(c, R)
      PROVE  FALSE
  <2>1. x.record.kind = "semantic" /\ y.record.kind = "episode" /\ y.record.id = v.episode.id
    BY <1>2, RowShape, RefFields
  <2>2. y.record.id \in Citing("episode", c, R)
    BY <1>2, <2>1, Reached
  <2>3. Rests(x.record, Citing("episode", c, R))
    BY <2>1, <2>2 DEF Rests
  <2>4. QED
    BY <2>1, <2>3, Reached
<1>3. ASSUME NEW e \in x.record.ends, NEW y \in records,
             RefOf(y.record) = e, y \in Affected(c, R)
      PROVE  FALSE
  <2>1. /\ x.record.kind = "episode_fact_link"
        /\ y.record.kind = e.kind /\ y.record.id = e.id
        /\ e.kind \in {"episode", "fact"}
    BY <1>3, RowShape, RefFields
  <2>2. y.record.id \in Citing(e.kind, c, R)
    BY <1>3, <2>1, Reached
  <2>3. Touches(x.record, Citing("episode", c, R), Citing("fact", c, R))
    BY <2>1, <2>2 DEF Touches
  <2>4. QED
    BY <2>1, <2>3, Reached
<1>4. QED
  BY <1>1, <1>2, <1>3

\* The rows after a revocation: the same ones, those it reached suspended.
LEMMA RowsAfter ==
  ASSUME NEW c, NEW R, RevokeRecords(c, R)
  PROVE  /\ ActiveRows' = ActiveRows \ Affected(c, R)
         /\ \A x \in records' :
              \/ x \in records /\ x \notin Affected(c, R)
              \/ \E y \in Affected(c, R) : x = [record |-> y.record, active |-> FALSE]
         /\ records \ Affected(c, R) \subseteq records'
         /\ \A y \in Affected(c, R) : y \in records
                                        /\ [record |-> y.record, active |-> FALSE] \in records'
<1> DEFINE A == Affected(c, R)
<1>1. records' = (records \ A) \cup {[record |-> x.record, active |-> FALSE] : x \in A}
  BY DEF RevokeRecords
<1>2. A \subseteq records
  BY DEF Affected
<1> HIDE DEF A
<1>3. ActiveRows' = ActiveRows \ A
  BY <1>1, <1>2 DEF ActiveRows
<1>4. QED
  BY <1>1, <1>2, <1>3 DEF A

LEMMA RefsAfter ==
  ASSUME NEW c, NEW R, RevokeRecords(c, R), NEW x \in ActiveRows, x \notin Affected(c, R)
  PROVE  RefOf(x.record) \in ActiveRefs'
<1>1. x \in ActiveRows'
  BY RowsAfter
<1>2. QED
  BY <1>1 DEF ActiveRefs

LEMMA RevokeTypes ==
  ASSUME RecordsTypeOK, NEW c, NEW R, RevokeRecords(c, R), memoryEvents' \subseteq MemoryEvent,
         memoryEvents \subseteq memoryEvents'
  PROVE  RecordsTypeOK'
<1>1. ASSUME NEW x \in records' PROVE x \in Row
  <2>1. CASE x \in records
    BY <2>1 DEF RecordsTypeOK
  <2>2. ASSUME NEW y \in Affected(c, R), x = [record |-> y.record, active |-> FALSE]
        PROVE  x \in Row
    BY <2>2, RowsAfter DEF RecordsTypeOK, Row
  <2>3. QED
    BY <2>1, <2>2, RowsAfter
<1>2. heads' \subseteq FactHead
  BY DEF RevokeRecords, RecordsTypeOK, FactHead
<1>3. registrations' \subseteq Registration
  <2>1. ASSUME NEW g \in registrations, NEW refs PROVE Forgotten(g, refs) \in Registration
    BY DEF Forgotten, Registration, RecordsTypeOK
  <2>2. QED
    BY <2>1 DEF RevokeRecords
<1>4. eventRecords' \subseteq [event : MemoryEvent, ref : Ref]
  <2>1. \A x \in Affected(c, R) : RefOf(x.record) \in Ref
    BY RefType DEF Affected, RecordsTypeOK, Row
  <2>2. Listed(Affected(c, R)) \subseteq Ref
    BY <2>1 DEF Listed
  <2>3. QED
    BY <2>2 DEF RevokeRecords, RecordsTypeOK
<1>5. QED
  BY <1>1, <1>2, <1>3, <1>4 DEF RecordsTypeOK

LEMMA RevokeUnique ==
  ASSUME RowsFromBatches, HeadsUnique, RowsUnique, NEW c, NEW R, RevokeRecords(c, R)
  PROVE  RowsFromBatches' /\ HeadsUnique' /\ RowsUnique'
<1>1. RowsFromBatches'
  BY RowsAfter DEF RowsFromBatches
<1>2. HeadsUnique'
  <2> DEFINE facts == Citing("fact", c, R)
             after(h) == IF h.id \in facts THEN [h EXCEPT !.active = FALSE] ELSE h
  <2>1. heads' = {after(h) : h \in heads}
    BY DEF RevokeRecords
  <2>2. \A h \in heads : after(h).id = h.id
    OBVIOUS
  <2> HIDE DEF after
  <2>3. QED
    BY <2>1, <2>2 DEF HeadsUnique
<1>3. RowsUnique'
  <2> SUFFICES ASSUME NEW x \in records', NEW y \in records',
                      x.record.kind = y.record.kind, x.record.id = y.record.id,
                      x.record.kind = "fact" => x.record.version = y.record.version
               PROVE  x = y
    BY DEF RowsUnique
  <2>1. PICK v \in records : /\ v.record = x.record
                             /\ v \notin Affected(c, R) => x = v
                             /\ v \in Affected(c, R) => x = [record |-> v.record, active |-> FALSE]
    BY RowsAfter
  <2>2. PICK w \in records : /\ w.record = y.record
                             /\ w \notin Affected(c, R) => y = w
                             /\ w \in Affected(c, R) => y = [record |-> w.record, active |-> FALSE]
    BY RowsAfter
  <2>3. v = w
    BY <2>1, <2>2 DEF RowsUnique
  <2>4. QED
    BY <2>1, <2>2, <2>3
<1>4. QED
  BY <1>1, <1>2, <1>3

\* All versions of a fact, and its head, are suspended together.
LEMMA RevokeVersions ==
  ASSUME RecordsTypeOK, VersionsAgree, NEW c, NEW R, RevokeRecords(c, R)
  PROVE  VersionsAgree'
<1> DEFINE facts == Citing("fact", c, R)
<1> SUFFICES ASSUME NEW x \in records', x.record.kind = "fact"
             PROVE  \E h \in heads' :
                      /\ h.id = x.record.id
                      /\ x.active = h.active
                      /\ x.record.version <= h.version
                      /\ \E y \in records' : RefOf(y.record) =
                           [kind |-> "fact", id |-> h.id, version |-> h.version]
  BY DEF VersionsAgree
<1>1. PICK v \in records : /\ v.record = x.record
                           /\ v \notin Affected(c, R) => x = v
                           /\ v \in Affected(c, R) => x.active = FALSE
  BY RowsAfter
<1>2. PICK h \in heads :
        /\ h.id = x.record.id
        /\ v.active = h.active
        /\ x.record.version <= h.version
        /\ \E y \in records : RefOf(y.record) =
             [kind |-> "fact", id |-> h.id, version |-> h.version]
  BY <1>1 DEF VersionsAgree
<1>3. \E y \in records' : RefOf(y.record) = [kind |-> "fact", id |-> h.id, version |-> h.version]
  BY <1>2, RowsAfter
<1>4. v \in Affected(c, R) <=> h.id \in facts
  BY <1>1, <1>2, Reached
<1>5. PICK k \in heads' : k = IF h.id \in facts THEN [h EXCEPT !.active = FALSE] ELSE h
  BY DEF RevokeRecords
<1>6. k.id = h.id /\ k.version = h.version
  BY <1>5
<1>7. x.active = k.active
  <2>1. CASE h.id \in facts
    BY <1>1, <1>4, <1>5, <2>1 DEF RecordsTypeOK, FactHead
  <2>2. CASE h.id \notin facts
    BY <1>1, <1>2, <1>4, <1>5, <2>2
  <2>3. QED
    BY <2>1, <2>2
<1>8. QED
  BY <1>2, <1>3, <1>6, <1>7

LEMMA RevokeGrounded ==
  ASSUME RowsFromBatches, ActiveIsGrounded, NEW c, NEW R, RevokeRecords(c, R),
         \A q \in Citation : Valid(q) /\ ~(q.conversation = c /\ q.revision \in R) => Valid(q)'
  PROVE  ActiveIsGrounded'
<1> SUFFICES ASSUME NEW x \in ActiveRows'
             PROVE  /\ \A q \in Quotes(x.record) : Valid(q)'
                    /\ \A v \in x.record.evidence : v.episode \in ActiveRefs'
                    /\ x.record.ends \subseteq ActiveRefs'
  BY DEF ActiveIsGrounded
<1>1. x \in ActiveRows /\ x \in records /\ x \notin Affected(c, R)
  BY RowsAfter DEF ActiveRows
<1>2. ASSUME NEW q \in Quotes(x.record) PROVE Valid(q)'
  <2>1. q \in Citation
    BY <1>1, RowShape, QuotesType
  <2>2. Valid(q) /\ ~(q.conversation = c /\ q.revision \in R)
    BY <1>1, Spared DEF ActiveIsGrounded
  <2>3. QED
    BY <2>1, <2>2
<1>3. ASSUME NEW v \in x.record.evidence PROVE v.episode \in ActiveRefs'
  <2>1. PICK y \in records : y.active /\ RefOf(y.record) = v.episode
    BY <1>1, ActiveRow DEF ActiveIsGrounded
  <2>2. y \notin Affected(c, R)
    BY <1>1, <2>1, Spared
  <2>3. QED
    BY <2>1, <2>2, RefsAfter DEF ActiveRows
<1>4. ASSUME NEW e \in x.record.ends PROVE e \in ActiveRefs'
  <2>1. PICK y \in records : y.active /\ RefOf(y.record) = e
    BY <1>1, ActiveRow DEF ActiveIsGrounded
  <2>2. y \notin Affected(c, R)
    BY <1>1, <2>1, Spared
  <2>3. QED
    BY <2>1, <2>2, RefsAfter DEF ActiveRows
<1>5. QED
  BY <1>2, <1>3, <1>4

\* A batch has the identity it had as long as its evidence names the same rows.
LEMMA IdentitySame ==
  ASSUME NEW b, \A v \in Evidence(b) : Named(b, v)' = Named(b, v)
  PROVE  /\ \A f : Identity(b, f)' = Identity(b, f)
         /\ Witnessed(b) => Witnessed(b)'
<1>1. AllQuotes(b)' = AllQuotes(b)
  BY DEF AllQuotes, Evidence
<1>2. ASSUME NEW f PROVE Identity(b, f)' = Identity(b, f)
  BY <1>1 DEF Identity
<1>3. Witnessed(b) => Witnessed(b)'
  BY DEF Witnessed, Evidence
<1>4. QED
  BY <1>2, <1>3

LEMMA NamedSame ==
  ASSUME NEW b, NEW v,
         \A y : y \in ActiveRows /\ RefOf(y.record) = v.episode
                  <=> y \in ActiveRows' /\ RefOf(y.record) = v.episode
  PROVE  Named(b, v)' = Named(b, v)
<1>1. {y \in ActiveRows : RefOf(y.record) = v.episode}
        = {y \in ActiveRows' : RefOf(y.record) = v.episode}
  OBVIOUS
<1>2. QED
  BY <1>1 DEF Named

LEMMA RevokeBatches ==
  ASSUME RowsFromBatches, BatchesWhole, RecordsTypeOK, NEW c, NEW R, RevokeRecords(c, R)
  PROVE  BatchesWhole'
<1> DEFINE A == Affected(c, R)
<1> SUFFICES ASSUME NEW g \in registrations', NEW b \in g.digest
             PROVE  /\ b \in Batch
                    /\ g.digest = {b}
                    /\ g.results = {RefOf(r) : r \in b}
                    /\ g.identity = Identity(b, g.identity.formation)'
                    /\ \A r \in b : [record |-> r, active |-> TRUE] \in records'
                    /\ \A r, s \in b : r.kind = s.kind /\ r.id = s.id => r = s
                    /\ Witnessed(b)'
  BY DEF BatchesWhole
<1>1. g \in registrations /\ g.results \cap Listed(A) = {}
  <2>1. PICK h \in registrations : g = Forgotten(h, Listed(A))
    BY DEF RevokeRecords
  <2>2. CASE h.results \cap Listed(A) # {}
    BY <2>1, <2>2 DEF Forgotten, RecordsTypeOK, Registration
  <2>3. QED
    BY <2>1, <2>2 DEF Forgotten
<1>2. /\ b \in Batch
      /\ g.digest = {b}
      /\ g.results = {RefOf(r) : r \in b}
      /\ g.identity = Identity(b, g.identity.formation)
      /\ \A r \in b : [record |-> r, active |-> TRUE] \in records
      /\ \A r, s \in b : r.kind = s.kind /\ r.id = s.id => r = s
      /\ Witnessed(b)
  BY <1>1 DEF BatchesWhole
<1>3. ASSUME NEW r \in b PROVE [record |-> r, active |-> TRUE] \in records \ A
  <2> DEFINE x == [record |-> r, active |-> TRUE]
  <2>1. ASSUME x \in A PROVE FALSE
    <3>1. RefOf(x.record) \in Listed(A)
      BY <2>1 DEF Listed
    <3>2. RefOf(r) \in g.results
      BY <1>2
    <3>3. QED
      BY <1>1, <3>1, <3>2
  <2>2. QED
    BY <1>2, <2>1
<1>4. ASSUME NEW v \in Evidence(b) PROVE Named(b, v)' = Named(b, v)
  <2>1. PICK r \in b : v \in r.evidence
    BY DEF Evidence
  <2> DEFINE x == [record |-> r, active |-> TRUE]
  <2>2. x \in records /\ x \notin A /\ v \in x.record.evidence
    BY <1>3, <2>1
  <2>3. \A y \in records : RefOf(y.record) = v.episode => y \notin A
    BY <2>2, Spared
  <2>4. ActiveRows' = ActiveRows \ A
    BY RowsAfter
  <2>5. ActiveRows \subseteq records
    BY DEF ActiveRows
  <2> HIDE DEF A
  <2>6. QED
    BY <2>3, <2>4, <2>5, NamedSame
<1>5. \A r \in b : [record |-> r, active |-> TRUE] \in records'
  BY <1>3, RowsAfter
<1>6. QED
  BY <1>2, <1>4, <1>5, IdentitySame

LEMMA RevokeListed ==
  ASSUME SuspensionsListed, NEW c, NEW R, RevokeRecords(c, R),
         NEW e \in memoryEvents', e \notin memoryEvents, memoryEvents \subseteq memoryEvents'
  PROVE  SuspensionsListed'
<1> SUFFICES ASSUME NEW x \in records', x \notin ActiveRows'
             PROVE  \E n \in eventRecords' : n.event \in memoryEvents' /\ n.ref = RefOf(x.record)
  BY DEF SuspensionsListed
<1>1. CASE x \in records /\ x \notin Affected(c, R)
  <2>1. x \notin ActiveRows
    BY <1>1, RowsAfter
  <2>2. PICK n \in eventRecords : n.event \in memoryEvents /\ n.ref = RefOf(x.record)
    BY <1>1, <2>1 DEF SuspensionsListed
  <2>3. QED
    BY <2>2 DEF RevokeRecords
<1>2. ASSUME NEW y \in Affected(c, R), x = [record |-> y.record, active |-> FALSE]
      PROVE  \E n \in eventRecords' : n.event \in memoryEvents' /\ n.ref = RefOf(x.record)
  <2> DEFINE n == [event |-> e, ref |-> RefOf(y.record)]
  <2>1. RefOf(y.record) \in Listed(Affected(c, R))
    BY DEF Listed
  <2>2. n \in eventRecords'
    BY <2>1 DEF RevokeRecords
  <2>3. n.event = e /\ n.ref = RefOf(x.record)
    BY <1>2
  <2>4. QED
    BY <2>2, <2>3
<1>3. QED
  BY <1>1, <1>2, RowsAfter

-----------------------------------------------------------------------------
(***************************************************************************)
(* Registration.                                                           *)
(***************************************************************************)
Fact(b) == {r \in b : r.kind = "fact"}

LEMMA RegisterRows ==
  ASSUME NEW b \in Batch, NEW f \in Formation, RegisterNew(b, f)
  PROVE  /\ records' = records \cup {[record |-> r, active |-> TRUE] : r \in b}
         /\ ActiveRows' = ActiveRows \cup {[record |-> r, active |-> TRUE] : r \in b}
         /\ ActiveRefs' = ActiveRefs \cup {RefOf(r) : r \in b}
         /\ \A q : Valid(q)' <=> Valid(q)
<1>1. records' = records \cup {[record |-> r, active |-> TRUE] : r \in b}
  BY DEF RegisterNew
<1>2. ActiveRows' = ActiveRows \cup {[record |-> r, active |-> TRUE] : r \in b}
  BY <1>1 DEF ActiveRows
<1>3. ActiveRefs' = ActiveRefs \cup {RefOf(r) : r \in b}
  <2>1. ActiveRefs' = {RefOf(x.record) : x \in ActiveRows'}
    BY DEF ActiveRefs
  <2>2. \A x \in {[record |-> r, active |-> TRUE] : r \in b} : \E r \in b : RefOf(x.record) = RefOf(r)
    OBVIOUS
  <2>3. \A r \in b : [record |-> r, active |-> TRUE].record = r
    OBVIOUS
  <2>4. \A r \in b : \E x \in ActiveRows' : RefOf(x.record) = RefOf(r)
    BY <1>2, <2>3
  <2>5. QED
    BY <1>2, <2>1, <2>2, <2>4 DEF ActiveRefs
<1>4. ASSUME NEW q PROVE Valid(q)' <=> Valid(q)
  BY DEF RegisterNew, Valid, Open, Blocked, vars, rows
<1>5. QED
  BY <1>1, <1>2, <1>3, <1>4

\* A record of a batch has no row yet: a fact has only older versions.
LEMMA RegisterApart ==
  ASSUME RecordsTypeOK, HeadsUnique, VersionsAgree,
         NEW b \in Batch, NEW f \in Formation, RegisterNew(b, f),
         NEW r \in b, NEW x \in records, x.record.kind = r.kind, x.record.id = r.id
  PROVE  /\ r.kind = "fact"
         /\ \E h \in heads : h.id = r.id /\ h.active = TRUE
         /\ x.record.version < r.version
         /\ x.active = TRUE
<1>1. r.kind = "fact" /\ NextVersion(r)
  BY DEF RegisterNew, Fresh
<1>2. PICK h \in heads : /\ h.id = r.id
                         /\ x.active = h.active
                         /\ x.record.version <= h.version
  BY <1>1 DEF VersionsAgree
<1>3. h.active = TRUE /\ r.version = h.version + 1
  BY <1>1, <1>2 DEF NextVersion, HeadsUnique, RecordsTypeOK, FactHead
<1>4. x.record.version \in Nat /\ h.version \in Nat
  BY DEF RecordsTypeOK, Row, Record, FactHead
<1>5. QED
  BY <1>1, <1>2, <1>3, <1>4

LEMMA QuoteOrigin ==
  ASSUME NEW b, NEW q \in AllQuotes(b)
  PROVE  \/ \E r \in b : q \in Quotes(r)
         \/ \E v \in Evidence(b) : \E r \in Named(b, v) : q \in Quotes(r)
<1> SUFFICES ASSUME ~\E r \in b : q \in Quotes(r)
             PROVE  \E v \in Evidence(b) : \E r \in Named(b, v) : q \in Quotes(r)
  OBVIOUS
<1>1. PICK S \in {UNION {Quotes(r) : r \in Named(b, v)} : v \in Evidence(b)} : q \in S
  BY DEF AllQuotes
<1>2. PICK v \in Evidence(b) : S = UNION {Quotes(r) : r \in Named(b, v)}
  BY <1>1
<1>3. \E r \in Named(b, v) : q \in Quotes(r)
  BY <1>1, <1>2
<1>4. QED
  BY <1>3

LEMMA RegisterTypes ==
  ASSUME RecordsTypeOK, NEW b \in Batch, NEW f \in Formation, RegisterNew(b, f)
  PROVE  RecordsTypeOK'
<1>1. \A r \in b : r \in Record
  BY RecordShape
<1>2. records' \subseteq Row
  <2>1. \A r \in b : [record |-> r, active |-> TRUE] \in Row
    BY <1>1 DEF Row
  <2>2. QED
    BY <2>1, RegisterRows DEF RecordsTypeOK
<1>3. heads' \subseteq FactHead
  <2>1. \A r \in b : [id |-> r.id, version |-> r.version, active |-> TRUE] \in FactHead
    BY <1>1 DEF FactHead, Record
  <2>2. QED
    BY <2>1 DEF RegisterNew, RecordsTypeOK
<1>4. registrations' \subseteq Registration
  <2>1. \A v \in Evidence(b) : \A r \in Named(b, v) : r \in Record
    <3>1. \A x \in records : x.record \in Record
      BY DEF RecordsTypeOK, Row
    <3>2. QED
      BY <1>1, <3>1 DEF Named, ActiveRows
  <2>2. AllQuotes(b) \subseteq Citation
    <3>1. ASSUME NEW q \in AllQuotes(b) PROVE \E r \in Record : q \in Quotes(r)
      BY <1>1, <2>1, QuoteOrigin
    <3>2. QED
      BY <3>1, QuotesType
  <2>3. {r.ends : r \in {s \in b : s.kind = "episode_fact_link"}} \subseteq SUBSET Ref
    BY <1>1 DEF Record
  <2>4. {RefOf(r) : r \in b} \subseteq Ref
    BY <1>1, RefType
  <2>5. [identity |-> Identity(b, f), digest |-> {b}, results |-> {RefOf(r) : r \in b}]
          \in Registration
    BY <2>2, <2>3, <2>4 DEF Identity, Registration
  <2>6. QED
    BY <2>5 DEF RegisterNew, RecordsTypeOK
<1>5. eventRecords' \subseteq [event : MemoryEvent, ref : Ref] 
  BY DEF RegisterNew, RecordsTypeOK
<1>6. QED
  BY <1>2, <1>3, <1>4, <1>5 DEF RecordsTypeOK

LEMMA RegisterUnique ==
  ASSUME RecordsTypeOK, RowsFromBatches, HeadsUnique, RowsUnique, VersionsAgree,
         NEW b \in Batch, NEW f \in Formation, RegisterNew(b, f)
  PROVE  RowsFromBatches' /\ HeadsUnique' /\ RowsUnique'
<1>1. \A r, s \in b : r.kind = s.kind /\ r.id = s.id => r = s
  BY DEF RegisterNew, Admissible
<1>2. RowsFromBatches'
  BY RegisterRows DEF RowsFromBatches
<1>3. HeadsUnique'
  <2>1. heads' = {h \in heads : \A r \in Fact(b) : r.id # h.id} \cup
          {[id |-> r.id, version |-> r.version, active |-> TRUE] : r \in Fact(b)}
    BY DEF RegisterNew, Fact
  <2>2. \A r, s \in Fact(b) : r.id = s.id => r = s
    BY <1>1 DEF Fact
  <2>3. ASSUME NEW h \in heads', NEW k \in heads', h.id = k.id PROVE h = k
    <3>1. CASE h \in heads /\ k \in heads
      BY <2>3, <3>1 DEF HeadsUnique
    <3>2. ASSUME NEW r \in Fact(b), h = [id |-> r.id, version |-> r.version, active |-> TRUE]
          PROVE  h = k
      BY <2>1, <2>2, <2>3, <3>2
    <3>3. ASSUME NEW r \in Fact(b), k = [id |-> r.id, version |-> r.version, active |-> TRUE]
          PROVE  h = k
      BY <2>1, <2>2, <2>3, <3>3
    <3>4. QED
      BY <2>1, <3>1, <3>2, <3>3
  <2>4. QED
    BY <2>3 DEF HeadsUnique
<1>4. RowsUnique'
  <2> SUFFICES ASSUME NEW x \in records', NEW y \in records',
                      x.record.kind = y.record.kind, x.record.id = y.record.id,
                      x.record.kind = "fact" => x.record.version = y.record.version
               PROVE  x = y
    BY DEF RowsUnique
  <2>1. CASE x \in records /\ y \in records
    BY <2>1 DEF RowsUnique
  <2>2. ASSUME NEW v \in records, NEW r \in b,
               v.record.kind = r.kind, v.record.id = r.id,
               r.kind = "fact" => v.record.version = r.version
        PROVE  FALSE
    <3>1. r.kind = "fact" /\ v.record.version < r.version
      BY <2>2, RegisterApart
    <3>2. v.record.version \in Nat
      BY DEF RecordsTypeOK, Row, Record
    <3>3. QED
      BY <2>2, <3>1, <3>2
  <2>3. ASSUME NEW r \in b, x = [record |-> r, active |-> TRUE] PROVE x = y
    <3>1. y \notin records
      BY <2>2, <2>3
    <3>2. QED
      BY <1>1, <2>3, <3>1, RegisterRows
  <2>4. ASSUME NEW r \in b, y = [record |-> r, active |-> TRUE] PROVE x = y
    <3>1. x \notin records
      BY <2>2, <2>4
    <3>2. QED
      BY <1>1, <2>4, <3>1, RegisterRows
  <2>5. QED
    BY <2>1, <2>3, <2>4, RegisterRows
<1>5. QED
  BY <1>2, <1>3, <1>4

LEMMA RegisterVersions ==
  ASSUME RecordsTypeOK, HeadsUnique, VersionsAgree,
         NEW b \in Batch, NEW f \in Formation, RegisterNew(b, f)
  PROVE  VersionsAgree'
<1> SUFFICES ASSUME NEW x \in records', x.record.kind = "fact"
             PROVE  \E h \in heads' :
                      /\ h.id = x.record.id
                      /\ x.active = h.active
                      /\ x.record.version <= h.version
                      /\ \E y \in records' : RefOf(y.record) =
                           [kind |-> "fact", id |-> h.id, version |-> h.version]
  BY DEF VersionsAgree
<1> DEFINE Agrees ==
             \E h \in heads' :
               /\ h.id = x.record.id
               /\ x.active = h.active
               /\ x.record.version <= h.version
               /\ \E y \in records' : RefOf(y.record) =
                    [kind |-> "fact", id |-> h.id, version |-> h.version]
<1>1. heads' = {h \in heads : \A r \in Fact(b) : r.id # h.id} \cup
        {[id |-> r.id, version |-> r.version, active |-> TRUE] : r \in Fact(b)}
  BY DEF RegisterNew, Fact
<1>2. ASSUME NEW r \in Fact(b), r.id = x.record.id, x.active = TRUE,
             x.record.version <= r.version
      PROVE  Agrees
  <2> DEFINE h == [id |-> r.id, version |-> r.version, active |-> TRUE]
             y == [record |-> r, active |-> TRUE]
  <2>1. h \in heads'
    BY <1>1
  <2>2. y \in records' /\ RefOf(y.record) = [kind |-> "fact", id |-> h.id, version |-> h.version]
    BY RegisterRows DEF Fact, RefOf
  <2>3. QED
    BY <1>2, <2>1, <2>2
<1>3. ASSUME NEW r \in b, x = [record |-> r, active |-> TRUE]
      PROVE  Agrees
  <2>1. r.version \in Nat
    BY RecordShape DEF Record
  <2>2. r \in Fact(b) /\ r.id = x.record.id /\ x.active = TRUE /\ x.record.version <= r.version
    BY <1>3, <2>1 DEF Fact
  <2>3. QED
    BY <1>2, <2>2
<1>4. ASSUME x \in records PROVE Agrees
  <2>1. ASSUME NEW r \in Fact(b), r.id = x.record.id
        PROVE  x.active = TRUE /\ x.record.version <= r.version
    <3>1. r \in b /\ x.record.kind = r.kind /\ x.record.id = r.id
      BY <2>1 DEF Fact
    <3>2. x.active = TRUE /\ x.record.version < r.version
      BY <1>4, <3>1, RegisterApart
    <3>3. x.record.version \in Nat /\ r.version \in Nat
      BY <1>4, <3>1, RecordShape DEF Record, RecordsTypeOK, Row
    <3>4. QED
      BY <3>2, <3>3
  <2>2. CASE \A r \in Fact(b) : r.id # x.record.id
    <3>1. PICK h \in heads :
                      /\ h.id = x.record.id
                      /\ x.active = h.active
                      /\ x.record.version <= h.version
                      /\ \E y \in records : RefOf(y.record) =
                           [kind |-> "fact", id |-> h.id, version |-> h.version]
      BY <1>4 DEF VersionsAgree
    <3>2. h \in heads'
      BY <1>1, <2>2, <3>1
    <3>3. QED
      BY <3>1, <3>2, RegisterRows
  <2>3. QED
    BY <1>2, <2>1, <2>2
<1>5. Agrees
  <2> HIDE DEF Agrees
  <2>1. QED
    BY <1>3, <1>4, RegisterRows
<1>6. QED
  BY <1>5

\* The episode a piece of evidence names is in the batch or an active row.
LEMMA EvidenceNamed ==
  ASSUME NEW b \in Batch, Witnessed(b), NEW r \in b, NEW v \in r.evidence
  PROVE  \/ \E s \in b : RefOf(s) = v.episode
         \/ v.episode \in ActiveRefs
<1>1. v \in Evidence(b)
  BY DEF Evidence
<1>2. PICK s \in Named(b, v) : TRUE
  BY <1>1 DEF Witnessed
<1>3. CASE {q \in b : q.kind = "episode" /\ q.id = v.episode.id} # {}
  BY <1>2, <1>3 DEF Named
<1>4. CASE {q \in b : q.kind = "episode" /\ q.id = v.episode.id} = {}
  <2>1. \E x \in ActiveRows : RefOf(x.record) = v.episode
    BY <1>2, <1>4 DEF Named
  <2>2. QED
    BY <2>1 DEF ActiveRefs
<1>5. QED
  BY <1>3, <1>4

LEMMA RegisterGrounded ==
  ASSUME RowsFromBatches, ActiveIsGrounded,
         NEW b \in Batch, NEW f \in Formation, RegisterNew(b, f)
  PROVE  ActiveIsGrounded'
<1> SUFFICES ASSUME NEW x \in ActiveRows'
             PROVE  /\ \A q \in Quotes(x.record) : Valid(q)'
                    /\ \A v \in x.record.evidence : v.episode \in ActiveRefs'
                    /\ x.record.ends \subseteq ActiveRefs'
  BY DEF ActiveIsGrounded
<1>1. CASE x \in ActiveRows
  BY <1>1, RegisterRows DEF ActiveIsGrounded
<1>2. ASSUME NEW r \in b, x = [record |-> r, active |-> TRUE]
      PROVE  /\ \A q \in Quotes(x.record) : Valid(q)'
             /\ \A v \in x.record.evidence : v.episode \in ActiveRefs'
             /\ x.record.ends \subseteq ActiveRefs'
  <2>1. Admissible(b) /\ r.ends \subseteq ActiveRefs \cup {RefOf(s) : s \in b}
    BY DEF RegisterNew
  <2>2. \A q \in Quotes(r) : Valid(q)
    BY <2>1 DEF Admissible, AllQuotes
  <2>3. \A v \in r.evidence : v.episode \in ActiveRefs \cup {RefOf(s) : s \in b}
    BY <2>1, EvidenceNamed DEF Admissible
  <2>4. QED
    BY <1>2, <2>1, <2>2, <2>3, RegisterRows
<1>3. QED
  BY <1>1, <1>2, RegisterRows

\* What is registered now changes no evidence of an earlier registration.
LEMMA EarlierEvidenceSame ==
  ASSUME RecordsTypeOK, RowsFromBatches, HeadsUnique, VersionsAgree, ActiveIsGrounded,
         NEW b \in Batch, NEW f \in Formation, RegisterNew(b, f),
         NEW x \in records, x.active, NEW v \in x.record.evidence, NEW s
  PROVE  Named(s, v)' = Named(s, v)
<1>1. PICK z \in records : z.active /\ RefOf(z.record) = v.episode
  BY ActiveRow DEF ActiveIsGrounded, ActiveRows
<1>2. z.record.kind = "episode" /\ z.record.id = v.episode.id
  BY <1>1, RowShape, RefFields
<1>3. ASSUME NEW r \in b, RefOf(r) = v.episode PROVE FALSE
  <2>1. r.kind = "episode" /\ r.id = v.episode.id
    BY <1>1, <1>2, <1>3, RefFields
  <2>2. z.record.kind = r.kind /\ z.record.id = r.id
    BY <1>2, <2>1
  <2>3. r.kind = "fact"
    BY <2>2, RegisterApart
  <2>4. QED
    BY <2>1, <2>3
<1>4. ActiveRows' = ActiveRows \cup {[record |-> r, active |-> TRUE] : r \in b}
  BY RegisterRows
<1>5. QED
  BY <1>3, <1>4, NamedSame

LEMMA RegisterBatches ==
  ASSUME RecordsInv, NEW b \in Batch, NEW f \in Formation, RegisterNew(b, f)
  PROVE  BatchesWhole'
<1> USE DEF RecordsInv
<1> SUFFICES ASSUME NEW g \in registrations', NEW s \in g.digest
             PROVE  /\ s \in Batch
                    /\ g.digest = {s}
                    /\ g.results = {RefOf(r) : r \in s}
                    /\ g.identity = Identity(s, g.identity.formation)'
                    /\ \A r \in s : [record |-> r, active |-> TRUE] \in records'
                    /\ \A r, q \in s : r.kind = q.kind /\ r.id = q.id => r = q
                    /\ Witnessed(s)'
  BY DEF BatchesWhole
<1>1. CASE g \in registrations
  <2>1. /\ s \in Batch
        /\ g.digest = {s}
        /\ g.results = {RefOf(r) : r \in s}
        /\ g.identity = Identity(s, g.identity.formation)
        /\ \A r \in s : [record |-> r, active |-> TRUE] \in records
        /\ \A r, q \in s : r.kind = q.kind /\ r.id = q.id => r = q
        /\ Witnessed(s)
    BY <1>1 DEF BatchesWhole
  <2>2. ASSUME NEW v \in Evidence(s) PROVE Named(s, v)' = Named(s, v)
    <3>1. PICK r \in s : v \in r.evidence
      BY DEF Evidence
    <3> DEFINE x == [record |-> r, active |-> TRUE]
    <3>2. x \in records /\ x.active /\ v \in x.record.evidence
      BY <2>1, <3>1
    <3>3. QED
      BY <3>2, EarlierEvidenceSame
  <2>3. QED
    BY <2>1, <2>2, RegisterRows, IdentitySame
<1>2. CASE g = [identity |-> Identity(b, f), digest |-> {b}, results |-> {RefOf(r) : r \in b}]
  <2>1. s = b /\ g.identity.formation = f /\ g.identity = Identity(b, f)
    BY <1>2 DEF Identity
  <2>2. Admissible(b)
    BY DEF RegisterNew
  <2>3. ASSUME NEW v \in Evidence(b) PROVE Named(b, v)' = Named(b, v)
    <3>1. CASE {r \in b : r.kind = "episode" /\ r.id = v.episode.id} # {}
      BY <3>1 DEF Named
    <3>2. CASE {r \in b : r.kind = "episode" /\ r.id = v.episode.id} = {}
      <4>1. v.episode.kind = "episode"
        BY RecordShape DEF Evidence
      <4>2. \A r \in b : RefOf(r) # v.episode
        BY <3>2, <4>1 DEF RefOf
      <4>3. ActiveRows' = ActiveRows \cup {[record |-> r, active |-> TRUE] : r \in b}
        BY RegisterRows
      <4>4. QED
        BY <4>2, <4>3, NamedSame
    <3>3. QED
      BY <3>1, <3>2
  <2>4. Identity(b, f)' = Identity(b, f) /\ Witnessed(b)'
    BY <2>2, <2>3, IdentitySame DEF Admissible
  <2>5. QED
    BY <1>2, <2>1, <2>2, <2>4, RegisterRows DEF Admissible
<1>3. QED
  BY <1>1, <1>2 DEF RegisterNew

LEMMA RegisterKeeps ==
  ASSUME RecordsInv, NEW b \in Batch, NEW f \in Formation, RegisterNew(b, f)
  PROVE  RecordsInv'
<1>1. RecordsTypeOK'
  BY RegisterTypes DEF RecordsInv
<1>2. RowsFromBatches' /\ HeadsUnique' /\ RowsUnique'
  BY RegisterUnique DEF RecordsInv
<1>3. VersionsAgree'
  BY RegisterVersions DEF RecordsInv
<1>4. ActiveIsGrounded'
  BY RegisterGrounded DEF RecordsInv
<1>5. BatchesWhole'
  BY RegisterBatches
<1>6. SuspensionsListed'
  <2>1. records' \ ActiveRows' \subseteq records \ ActiveRows
    BY RegisterRows
  <2>2. eventRecords' = eventRecords /\ memoryEvents' = memoryEvents
    BY DEF RegisterNew, vars, outboxes
  <2>3. QED
    BY <2>1, <2>2 DEF RecordsInv, SuspensionsListed
<1>7. QED
  BY <1>1, <1>2, <1>3, <1>4, <1>5, <1>6 DEF RecordsInv

LEMMA RevokeKeeps ==
  ASSUME RecordsInv, NEW c, NEW R, RevokeRecords(c, R),
         memoryEvents \subseteq memoryEvents', memoryEvents' \subseteq MemoryEvent,
         NEW e \in memoryEvents', e \notin memoryEvents,
         \A q \in Citation : Valid(q) /\ ~(q.conversation = c /\ q.revision \in R) => Valid(q)'
  PROVE  RecordsInv'
<1>1. RecordsTypeOK'
  BY RevokeTypes DEF RecordsInv
<1>2. RowsFromBatches' /\ HeadsUnique' /\ RowsUnique'
  BY RevokeUnique DEF RecordsInv
<1>3. VersionsAgree'
  BY RevokeVersions DEF RecordsInv
<1>4. ActiveIsGrounded'
  BY RevokeGrounded DEF RecordsInv
<1>5. BatchesWhole'
  BY RevokeBatches DEF RecordsInv
<1>6. SuspensionsListed'
  BY RevokeListed DEF RecordsInv
<1>7. QED
  BY <1>1, <1>2, <1>3, <1>4, <1>5, <1>6 DEF RecordsInv

-----------------------------------------------------------------------------
(***************************************************************************)
(* Steps that leave the records alone.                                     *)
(***************************************************************************)
LEMMA QuietKeeps ==
  ASSUME RecordsInv, UNCHANGED recordVars,
         memoryEvents \subseteq memoryEvents', memoryEvents' \subseteq MemoryEvent,
         \A q \in Citation : Valid(q) => Valid(q)'
  PROVE  RecordsInv'
<1> USE DEF RecordsInv
<1>1. UNCHANGED <<records, heads, registrations, eventRecords>>
  BY DEF recordVars
<1>2. ActiveRows' = ActiveRows /\ ActiveRefs' = ActiveRefs
  BY <1>1 DEF ActiveRows, ActiveRefs
<1>3. RecordsTypeOK'
  BY <1>1 DEF RecordsTypeOK
<1>4. RowsFromBatches' /\ HeadsUnique' /\ RowsUnique' /\ VersionsAgree'
  BY <1>1 DEF RowsFromBatches, HeadsUnique, RowsUnique, VersionsAgree
<1>5. ActiveIsGrounded'
  <2>1. \A x \in ActiveRows : Quotes(x.record) \subseteq Citation
    BY RowShape, QuotesType DEF ActiveRows
  <2>2. QED
    BY <1>2, <2>1 DEF ActiveIsGrounded
<1>6. BatchesWhole'
  <2>1. \A b, v : Named(b, v)' = Named(b, v)
    BY <1>2 DEF Named
  <2>2. ASSUME NEW b
        PROVE  /\ \A f : Identity(b, f)' = Identity(b, f)
               /\ Witnessed(b) => Witnessed(b)'
    BY <2>1, IdentitySame
  <2>3. QED
    BY <1>1, <2>2 DEF BatchesWhole
<1>7. SuspensionsListed'
  BY <1>1, <1>2 DEF SuspensionsListed
<1>8. QED
  BY <1>3, <1>4, <1>5, <1>6, <1>7

-----------------------------------------------------------------------------
(***************************************************************************)
(* The actions.                                                            *)
(***************************************************************************)
\* A source stays valid while its conversation is as it was and its turn is at least
\* as open.
LEMMA ValidKept ==
  ASSUME NEW q \in Citation, Valid(q),
         epoch'[q.conversation] = epoch[q.conversation],
         ~privateMode'[q.conversation],
         \A t \in turns[q.conversation] : t.revision = q.revision =>
           \E u \in turns'[q.conversation] :
             /\ u.revision = t.revision
             /\ u.messages = t.messages
             /\ \A i : Open(t, i) => Open(u, i)
  PROVE  Valid(q)'
<1>1. PICK t \in turns[q.conversation] :
        /\ t.revision = q.revision
        /\ Open(t, q.position)
        /\ t.messages[q.position].role = q.speaker
  BY DEF Valid
<1>2. PICK u \in turns'[q.conversation] :
        /\ u.revision = t.revision
        /\ u.messages = t.messages
        /\ \A i : Open(t, i) => Open(u, i)
  BY <1>1
<1>3. epoch'[q.conversation] = q.epoch
  BY DEF Valid
<1>4. Open(u, q.position) /\ u.messages[q.position].role = q.speaker /\ u.revision = q.revision
  BY <1>1, <1>2
<1>5. QED
  BY <1>3, <1>4 DEF Valid, Open, Blocked

LEMMA RevocationKeeps ==
  ASSUME HistoryInv, TypeOK', RecordsInv, NEW c \in Conversation, Live(c),
         NEW e, NEW reason, Revoke(c, e, reason), NEW R, RevokeRecords(c, R),
         \A q \in Citation : Valid(q) /\ ~(q.conversation = c /\ q.revision \in R) => Valid(q)'
  PROVE  RecordsInv'
<1>1. PICK x \in memoryEvents' : x \notin memoryEvents
  BY RevocationIsNew
<1>2. memoryEvents \subseteq memoryEvents' /\ memoryEvents' \subseteq MemoryEvent
  BY DEF Revoke, TypeOK
<1>3. QED
  BY <1>1, <1>2, RevokeKeeps

LEMMA DeleteKeeps ==
  ASSUME HistoryInv, TypeOK', RecordsInv, NEW c \in Conversation, DeleteAll(c)
  PROVE  RecordsInv'
<1>1. Live(c) /\ Revoke(c, epoch[c] + 1, "delete") /\ RevokeRecords(c, Nat)
  BY DEF DeleteAll, Delete
<1>2. ASSUME NEW q \in Citation, Valid(q), ~(q.conversation = c /\ q.revision \in Nat)
      PROVE  Valid(q)'
  <2>1. q.conversation \in Conversation /\ q.conversation # c
    BY <1>2 DEF Citation
  <2> DEFINE d == q.conversation
  <2>2. /\ epoch'[d] = epoch[d] /\ privateMode'[d] = privateMode[d]
        /\ turns'[d] = turns[d]
    BY <2>1 DEF DeleteAll, Delete, HistoryInv, TypeOK
  <2>3. ~privateMode'[d]
    BY <1>2, <2>2 DEF Valid
  <2>4. QED
    BY <1>2, <2>2, <2>3, ValidKept
<1>3. QED
  BY <1>1, <1>2, RevocationKeeps

LEMMA ForgetKeeps ==
  ASSUME HistoryInv, TypeOK', RecordsInv, NEW c \in Conversation, NEW r, NEW p, NEW scope,
         ForgetTurns(c, r, p, scope)
  PROVE  RecordsInv'
<1>1. PICK R : R = Selection(turns[c], p, scope)
  OBVIOUS
<1>2. /\ Live(c) /\ Revoke(c, epoch[c], "turn_delete") /\ RevokeRecords(c, R)
      /\ turns' = [turns EXCEPT ![c] = @ \ {t \in turns[c] : t.revision \in R}]
      /\ epoch' = epoch /\ privateMode' = privateMode
  BY <1>1 DEF ForgetTurns, DeleteTurns, AdvanceRevision
<1>3. ASSUME NEW q \in Citation, Valid(q), ~(q.conversation = c /\ q.revision \in R)
      PROVE  Valid(q)'
  <2> DEFINE d == q.conversation
  <2>1. d \in Conversation
    BY DEF Citation
  <2>2. \A t \in turns[d] : t.revision = q.revision => t \in turns'[d]
    BY <1>2, <1>3, <2>1 DEF HistoryInv, TypeOK
  <2>3. ~privateMode'[d] /\ epoch'[d] = epoch[d]
    BY <1>2, <1>3 DEF Valid
  <2>4. QED
    BY <1>3, <2>2, <2>3, ValidKept
<1>4. QED
  BY <1>2, <1>3, RevocationKeeps

\* Private mode: either it was on, and nothing of the conversation was valid, or all
\* of it is revoked.
LEMMA WithdrawKeeps ==
  ASSUME HistoryInv, TypeOK', RecordsInv, NEW c \in Conversation, Live(c), NEW p \in BOOLEAN,
         Withdraw(c, p),
         p => ActivatePrivate(c),
         ~p => epoch' = epoch /\ memoryEvents' = memoryEvents,
         \A q \in Citation : /\ Valid(q)
                             /\ p => q.conversation # c
                             => Valid(q)'
  PROVE  RecordsInv'
<1>1. CASE p /\ ~privateMode[c]
  <2>1. RevokeRecords(c, Nat)
    BY <1>1 DEF Withdraw
  <2>2. Revoke(c, epoch[c] + 1, "private")
    BY <1>1 DEF ActivatePrivate
  <2>3. \A q \in Citation : q.revision \in Nat
    BY DEF Citation
  <2>4. QED
    BY <2>1, <2>2, <2>3, RevocationKeeps
<1>2. CASE p /\ privateMode[c]
  <2>1. UNCHANGED recordVars /\ memoryEvents' = memoryEvents
    BY <1>2 DEF Withdraw, ActivatePrivate
  <2>2. \A q \in Citation : Valid(q) => q.conversation # c
    BY <1>2 DEF Valid
  <2>3. QED
    BY <2>1, <2>2, QuietKeeps DEF TypeOK
<1>3. CASE ~p
  <2>1. UNCHANGED recordVars /\ memoryEvents' = memoryEvents
    BY <1>3 DEF Withdraw
  <2>2. QED
    BY <1>3, <2>1, QuietKeeps DEF TypeOK
<1>4. QED
  BY <1>1, <1>2, <1>3

LEMMA ControlsKeeps ==
  ASSUME HistoryInv, TypeOK', RecordsInv, NEW c \in Conversation, NEW r, NEW p \in BOOLEAN,
         NEW a \in BOOLEAN, ControlsAll(c, r, p, a)
  PROVE  RecordsInv'
<1>1. /\ Live(c) /\ Withdraw(c, p)
      /\ privateMode' = [privateMode EXCEPT ![c] = p]
      /\ turns' = turns
      /\ p => ActivatePrivate(c)
      /\ ~p => epoch' = epoch /\ memoryEvents' = memoryEvents
  BY DEF ControlsAll, Controls, AdvanceRevision
<1>2. ASSUME NEW q \in Citation, Valid(q), p => q.conversation # c PROVE Valid(q)'
  <2> DEFINE d == q.conversation
  <2>1. d \in Conversation /\ ~privateMode[d]
    BY <1>2 DEF Citation, Valid
  <2>2. ~privateMode'[d]
    BY <1>1, <1>2, <2>1 DEF HistoryInv, TypeOK
  <2>3. epoch'[d] = epoch[d]
    BY <1>1, <1>2, <2>1 DEF HistoryInv, TypeOK, ActivatePrivate
  <2>4. \A t \in turns[d] : t \in turns'[d]
    BY <1>1
  <2>5. QED
    BY <1>2, <2>2, <2>3, <2>4, ValidKept
<1>3. QED
  BY <1>1, <1>2, WithdrawKeeps

LEMMA ConfirmKeeps ==
  ASSUME HistoryInv, TypeOK', RecordsInv, NEW c \in Conversation, NEW r,
         NEW accept \in BOOLEAN, NEW t \in turns[c], NEW i \in t.pending,
         ConfirmAll(c, r, t, i, accept)
  PROVE  RecordsInv'
<1> DEFINE v == Resolved(t, i, accept)
<1>1. /\ Live(c) /\ Withdraw(c, accept)
      /\ turns' = [turns EXCEPT ![c] = (@ \ {t}) \cup {v}]
      /\ accept => ActivatePrivate(c)
      /\ ~accept => /\ epoch' = epoch /\ memoryEvents' = memoryEvents
                    /\ privateMode' = privateMode
      /\ accept => privateMode' = [privateMode EXCEPT ![c] = TRUE]
  BY DEF ConfirmAll, Confirm, AdvanceRevision
<1>2. t \in Turn
  BY DEF HistoryInv, TypeOK
<1>3. /\ v.revision = t.revision /\ v.messages = t.messages /\ v.private = t.private
      /\ v.excluded = t.excluded /\ v.pending \subseteq t.pending
      /\ ~accept => v.accepted = t.accepted
  BY <1>2, ResolvedFields DEF Resolved, Turn
<1> HIDE DEF v
<1>4. ASSUME NEW q \in Citation, Valid(q), accept => q.conversation # c PROVE Valid(q)'
  <2> DEFINE d == q.conversation
  <2>1. d \in Conversation /\ ~privateMode[d]
    BY <1>4 DEF Citation, Valid
  <2>2. ~privateMode'[d] /\ epoch'[d] = epoch[d]
    BY <1>1, <1>4, <2>1 DEF HistoryInv, TypeOK, ActivatePrivate
  <2>3. ASSUME NEW u \in turns[d], u.revision = q.revision
        PROVE  \E w \in turns'[d] :
                 /\ w.revision = u.revision
                 /\ w.messages = u.messages
                 /\ \A k : Open(u, k) => Open(w, k)
    <3>1. CASE d # c \/ u # t
      <4>1. u \in turns'[d]
        BY <1>1, <2>1, <3>1 DEF HistoryInv, TypeOK
      <4>2. QED
        BY <4>1
    <3>2. CASE d = c /\ u = t
      <4>1. ~accept /\ v \in turns'[d]
        BY <1>1, <1>4, <2>1, <3>2 DEF HistoryInv, TypeOK
      <4>2. \A k : Open(t, k) => Open(v, k)
        BY <1>3, <4>1 DEF Open, Blocked
      <4>3. QED
        BY <1>3, <3>2, <4>1, <4>2
    <3>3. QED
      BY <3>1, <3>2
  <2>4. QED
    BY <1>4, <2>2, <2>3, ValidKept
<1>5. QED
  BY <1>1, <1>4, WithdrawKeeps

LEMMA QuietStepKeeps ==
  ASSUME HistoryInv, TypeOK', RecordsInv, Quiet \/ UNCHANGED memoryVars
  PROVE  RecordsInv'
<1>1. /\ UNCHANGED recordVars
      /\ epoch' = epoch /\ privateMode' = privateMode /\ memoryEvents' = memoryEvents
      /\ \A d \in Conversation : turns[d] \subseteq turns'[d]
  <2>1. ASSUME NEW c \in Conversation, NEW q \in Request, NEW f \in Fingerprint,
               NEW r \in 0 .. MaxRevision, NEW s \in Submission, NEW a \in Answer,
               AppendNew(c, q, f, r, s, a)
        PROVE  /\ epoch' = epoch /\ privateMode' = privateMode /\ memoryEvents' = memoryEvents
               /\ \A d \in Conversation : turns[d] \subseteq turns'[d]
    BY <2>1 DEF AppendNew, HistoryInv, TypeOK, outboxes
  <2>2. ASSUME NEW c \in Conversation, Create(c)
        PROVE  /\ epoch' = epoch /\ privateMode' = privateMode /\ memoryEvents' = memoryEvents
               /\ \A d \in Conversation : turns[d] \subseteq turns'[d]
    BY <2>2 DEF Create, outboxes
  <2>3. ASSUME NEW c \in Conversation, NEW q \in Request, NEW f \in Fingerprint,
               AppendRetry(c, q, f)
        PROVE  /\ epoch' = epoch /\ privateMode' = privateMode /\ memoryEvents' = memoryEvents
               /\ \A d \in Conversation : turns[d] \subseteq turns'[d]
    BY <2>3 DEF AppendRetry, rows, outboxes
  <2>4. ASSUME NEW n, AcknowledgeDeletion(n) \/ AcknowledgeTurnDeletion(n)
        PROVE  /\ epoch' = epoch /\ privateMode' = privateMode /\ memoryEvents' = memoryEvents
               /\ \A d \in Conversation : turns[d] \subseteq turns'[d]
    BY <2>4 DEF AcknowledgeDeletion, AcknowledgeTurnDeletion, rows
  <2>5. ASSUME UNCHANGED memoryVars
        PROVE  /\ UNCHANGED recordVars
               /\ epoch' = epoch /\ privateMode' = privateMode /\ memoryEvents' = memoryEvents
               /\ \A d \in Conversation : turns[d] \subseteq turns'[d]
    BY <2>5 DEF memoryVars, vars, rows, outboxes
  <2>6. QED
    BY <2>1, <2>2, <2>3, <2>4, <2>5 DEF Quiet, Retry, Commit
<1>2. ASSUME NEW q \in Citation, Valid(q) PROVE Valid(q)'
  <2>1. q.conversation \in Conversation /\ ~privateMode'[q.conversation]
    BY <1>1, <1>2 DEF Citation, Valid
  <2>2. QED
    BY <1>1, <1>2, <2>1, ValidKept
<1>3. QED
  BY <1>1, <1>2, QuietKeeps DEF TypeOK

-----------------------------------------------------------------------------
(***************************************************************************)
(* The theorems.                                                           *)
(***************************************************************************)
LEMMA RecordsInvInit == RecordsInit => RecordsInv
BY DEF RecordsInit, RecordsInv, RecordsTypeOK, RowsFromBatches, HeadsUnique, RowsUnique,
       VersionsAgree, ActiveIsGrounded, ActiveRows, BatchesWhole, SuspensionsListed

LEMMA RecordsInvStep == HistoryInv /\ TypeOK' /\ RecordsInv /\ [RecordsNext]_memoryVars => RecordsInv'
<1> SUFFICES ASSUME HistoryInv, TypeOK', RecordsInv, [RecordsNext]_memoryVars PROVE RecordsInv'
  OBVIOUS
<1>1. CASE Register
  BY <1>1, RegisterKeeps DEF Register
<1>2. CASE Quiet \/ UNCHANGED memoryVars
  BY <1>2, QuietStepKeeps
<1>3. ASSUME NEW c \in Conversation, DeleteAll(c) PROVE RecordsInv'
  BY <1>3, DeleteKeeps
<1>4. ASSUME NEW c \in Conversation, NEW r \in 0 .. MaxRevision, NEW p \in 0 .. MaxRevision,
             NEW scope \in {"selected", "following"}, ForgetTurns(c, r, p, scope)
      PROVE  RecordsInv'
  BY <1>4, ForgetKeeps
<1>5. ASSUME NEW c \in Conversation, NEW r \in 0 .. MaxRevision, NEW p \in BOOLEAN,
             NEW a \in BOOLEAN, ControlsAll(c, r, p, a)
      PROVE  RecordsInv'
  BY <1>5, ControlsKeeps
<1>6. ASSUME NEW c \in Conversation, NEW r \in 0 .. MaxRevision, NEW accept \in BOOLEAN,
             NEW t \in turns[c], NEW i \in t.pending, ConfirmAll(c, r, t, i, accept)
      PROVE  RecordsInv'
  BY <1>6, ConfirmKeeps
<1>7. QED
  BY <1>1, <1>2, <1>3, <1>4, <1>5, <1>6 DEF RecordsNext

\* The invariant of the records, among all operations of the history.
THEOREM RecordsCorrect == RecordsSpec => []RecordsInv
<1>1. RecordsSpec => []TypeOK
  BY RecordsOnHistory, PTL DEF HistoryInv
<1>2. QED
  BY <1>1, RecordsOnHistory, RecordsInvInit, RecordsInvStep, PTL DEF RecordsSpec

\* Every active memory rests on messages that may be remembered at this moment,
\* directly and through what it is built on.
THEOREM MemoriesGrounded == RecordsSpec => []ActiveIsGrounded
<1>1. RecordsInv => ActiveIsGrounded
  BY DEF RecordsInv
<1>2. QED
  BY <1>1, RecordsCorrect, PTL

\* The versions of a fact stand or fall together.
THEOREM VersionsTogether == RecordsSpec => []VersionsAgree
<1>1. RecordsInv => VersionsAgree
  BY DEF RecordsInv
<1>2. QED
  BY <1>1, RecordsCorrect, PTL

\* Each suspended record is listed under a revocation event.
THEOREM RevocationsListed == RecordsSpec => []SuspensionsListed
<1>1. RecordsInv => SuspensionsListed
  BY DEF RecordsInv
<1>2. QED
  BY <1>1, RecordsCorrect, PTL

LEMMA BatchActive ==
  ASSUME BatchesWhole, NEW g \in registrations, NEW b \in g.digest
  PROVE  g.results \subseteq ActiveRefs
<1>1. ASSUME NEW r \in b PROVE RefOf(r) \in ActiveRefs
  <2> DEFINE x == [record |-> r, active |-> TRUE]
  <2>1. x \in ActiveRows /\ x.record = r
    BY DEF BatchesWhole, ActiveRows
  <2>2. QED
    BY <2>1 DEF ActiveRefs
<1>2. QED
  BY <1>1 DEF BatchesWhole

\* Where the digest of a registration is kept, all it registered is still active.
THEOREM NothingOutlived == RecordsSpec => []DigestsForgotten
<1>1. RecordsInv => DigestsForgotten
  BY BatchActive DEF RecordsInv, DigestsForgotten
<1>2. QED
  BY <1>1, RecordsCorrect, PTL

\* A registration that has lost nothing can be repeated and is answered alike.
THEOREM RetriesAnsweredAlike == RecordsSpec => []RetriesAnswered
<1>1. ASSUME RecordsInv, NEW g \in registrations, NEW b \in g.digest
      PROVE  Retried(b, g.identity.formation, g)
  <2>1. /\ b \in Batch
        /\ g.digest = {b}
        /\ g.identity = Identity(b, g.identity.formation)
        /\ \A r \in b : [record |-> r, active |-> TRUE] \in records
        /\ \A r, s \in b : r.kind = s.kind /\ r.id = s.id => r = s
        /\ Witnessed(b)
    BY <1>1 DEF RecordsInv, BatchesWhole
  <2>2. ASSUME NEW q \in AllQuotes(b) PROVE Valid(q)
    <3>1. ASSUME NEW x \in ActiveRows, q \in Quotes(x.record) PROVE Valid(q)
      BY <1>1, <3>1 DEF RecordsInv, ActiveIsGrounded
    <3>2. ASSUME NEW r \in b, q \in Quotes(r) PROVE Valid(q)
      <4> DEFINE x == [record |-> r, active |-> TRUE]
      <4>1. x \in ActiveRows /\ x.record = r
        BY <2>1 DEF ActiveRows
      <4>2. QED
        BY <3>1, <3>2, <4>1
    <3>3. ASSUME NEW v \in Evidence(b), NEW r \in Named(b, v), q \in Quotes(r) PROVE Valid(q)
      BY <3>1, <3>2, <3>3 DEF Named
    <3>4. QED
      BY <3>2, <3>3, QuoteOrigin
  <2>3. QED
    BY <1>1, <2>1, <2>2, BatchActive DEF RecordsInv, Retried, Admissible
<1>2. RecordsInv => RetriesAnswered
  BY <1>1 DEF RetriesAnswered
<1>3. QED
  BY <1>2, RecordsCorrect, PTL

\* Retrieval hides no episode and no semantic that is active.
THEOREM ActiveRetrieved == RecordsSpec => []ActiveIsRetrieved
<1>1. ASSUME RecordsInv, NEW x \in ActiveRows, x.record.kind \in {"episode", "semantic"}
      PROVE  \E m \in Retrievable : m.record = x.record
  <2>1. ASSUME NEW y \in ActiveRows, y.record.kind # "fact" PROVE y.record \in Usable
    BY <1>1, <2>1 DEF RecordsInv, ActiveIsGrounded, Usable, Current
  <2>2. CASE x.record.kind = "episode"
    <3>1. EpisodeCandidate(x.record) \in Retrievable
      BY <2>1, <2>2 DEF Retrievable
    <3>2. QED
      BY <3>1 DEF EpisodeCandidate
  <2>3. CASE x.record.kind = "semantic"
    <3>1. ASSUME NEW v \in x.record.evidence PROVE v.episode \in UsableRefs
      <4>1. PICK y \in records : y.active /\ RefOf(y.record) = v.episode
        BY <1>1, ActiveRow DEF RecordsInv, ActiveIsGrounded
      <4>2. y \in ActiveRows /\ y.record.kind = "episode"
        BY <1>1, <4>1, RowShape, RefFields DEF RecordsInv, ActiveRows
      <4>3. QED
        BY <2>1, <4>1, <4>2 DEF UsableRefs
    <3>2. Supported(x.record)
      BY <3>1 DEF Supported
    <3>3. SemanticCandidate(x.record) \in Retrievable
      BY <2>1, <2>3, <3>2 DEF Retrievable
    <3>4. QED
      BY <3>3 DEF SemanticCandidate
  <2>4. QED
    BY <1>1, <2>2, <2>3
<1>2. RecordsInv => ActiveIsRetrieved
  BY <1>1 DEF ActiveIsRetrieved
<1>3. QED
  BY <1>2, RecordsCorrect, PTL

LEMMA SuspendedTogether ==
  ASSUME RecordsInv, NEW x \in records, ~x.active, NEW y \in records,
         y.record.kind = x.record.kind, y.record.id = x.record.id
  PROVE  ~y.active
<1>1. CASE x.record.kind # "fact"
  <2>1. x = y
    BY <1>1 DEF RecordsInv, RowsUnique
  <2>2. QED
    BY <2>1
<1>2. CASE x.record.kind = "fact"
  <2>1. PICK h \in heads : h.id = x.record.id /\ x.active = h.active
    BY <1>2 DEF RecordsInv, VersionsAgree
  <2>2. PICK k \in heads : k.id = y.record.id /\ y.active = k.active
    BY <1>2 DEF RecordsInv, VersionsAgree
  <2>3. h = k
    BY <2>1, <2>2 DEF RecordsInv, HeadsUnique
  <2>4. QED
    BY <2>1, <2>2, <2>3
<1>3. QED
  BY <1>1, <1>2

\* A suspended record is never active again, whatever is registered under its name.
THEOREM RevokedForGood == RecordsSpec => NeverRevived
<1>1. ASSUME RecordsInv, [RecordsNext]_memoryVars, NEW x \in records, ~x.active,
             NEW y \in records', y.record.kind = x.record.kind, y.record.id = x.record.id
      PROVE  ~y.active
  <2>1. CASE y \in records
    BY <1>1, <2>1, SuspendedTogether
  <2>2. ASSUME NEW b \in Batch, NEW f \in Formation, RegisterNew(b, f) PROVE ~y.active
    <3>1. ASSUME NEW r \in b, y = [record |-> r, active |-> TRUE] PROVE FALSE
      <4>1. x.active = TRUE
        BY <1>1, <2>2, <3>1, RegisterApart DEF RecordsInv
      <4>2. QED
        BY <1>1, <4>1
    <3>2. QED
      BY <2>1, <2>2, <3>1, RegisterRows
  <2>3. ASSUME NEW c, NEW R, RevokeRecords(c, R) PROVE ~y.active
    BY <2>1, <2>3, RowsAfter
  <2>4. ASSUME UNCHANGED recordVars PROVE ~y.active
    BY <2>1, <2>4 DEF recordVars
  <2>5. ASSUME NEW c, NEW p, Withdraw(c, p) PROVE ~y.active
    BY <2>3, <2>4, <2>5 DEF Withdraw
  <2>6. ASSUME NEW c, NEW r, NEW p, NEW scope, ForgetTurns(c, r, p, scope) PROVE ~y.active
    <3>1. PICK R : R = Selection(turns[c], p, scope)
      OBVIOUS
    <3>2. RevokeRecords(c, R)
      BY <2>6, <3>1 DEF ForgetTurns
    <3>3. QED
      BY <2>3, <3>2
  <2>7. QED
    BY <1>1, <2>2, <2>3, <2>4, <2>5, <2>6
       DEF RecordsNext, Register, Quiet, DeleteAll, ControlsAll, ConfirmAll, memoryVars
<1>2. RecordsInv /\ [RecordsNext]_memoryVars =>
        [\A x \in records : ~x.active =>
           \A y \in records' :
             y.record.kind = x.record.kind /\ y.record.id = x.record.id => ~y.active]_memoryVars
  BY <1>1
<1>3. QED
  BY <1>2, RecordsCorrect, PTL DEF RecordsSpec, NeverRevived
=============================================================================
