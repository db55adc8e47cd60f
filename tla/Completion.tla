----------------------------- MODULE Completion -----------------------------
(***************************************************************************)
(* Requests for a reply (conversations.py, complete) running over one      *)
(* history store, next to every other operation on the same store.         *)
(*                                                                         *)
(* A task is one call of complete().  It reads a snapshot, looks for a     *)
(* receipt, prepares the prompt, waits for the provider, rests once so     *)
(* that a queued disconnect can cancel it, and saves.  Each store call is  *)
(* a transaction of its own; anything may happen between two of them and   *)
(* at every await.  A task that ends, with or without an answer, leaves    *)
(* its slot idle, and the client may send the same request again.          *)
(*                                                                         *)
(* A fingerprint is the body it is the hash of: what the caller sends,     *)
(* which includes the revision it expects and determines what scan()       *)
(* flags.  Two different bodies have different fingerprints.               *)
(***************************************************************************)
EXTENDS HistoryStore

CONSTANTS
  Task,    \* slots for concurrent requests
  Grants   \* the sets of permissions the operator may configure

Permission == {"history", "export"}

ASSUME BodyAssumption ==
  \A f \in Fingerprint :
    /\ f \in [incoming : Seq(Message), marked : SUBSET Nat, flagged : SUBSET Nat,
              expected : Nat]
    /\ f.expected < MaxRevision
    /\ \A i \in DOMAIN f.incoming : f.incoming[i].role \in {"user", "tool"}

\* What complete() hands to append: the incoming messages and the reply.
Stored(f, calls) ==
  [messages |-> Append(f.incoming, [role |-> "assistant", ids |-> calls]),
   marked |-> f.marked, flagged |-> f.flagged]

ASSUME StoredAssumption ==
  \A f \in Fingerprint, calls \in SUBSET Tool : Stored(f, calls) \in Submission

ASSUME GrantsAssumption == Grants \subseteq SUBSET Permission

VARIABLES
  tasks,    \* the local state of every task
  grants,   \* the permissions of the PrivacyPolicy for the Binding
  (*------------------------ observability variables ----------------------*)
  answers   \* receipts that complete() has returned

taskVars == <<tasks, grants, answers>>
allVars == <<vars, taskVars>>

Idle == [phase |-> "idle"]

(***************************************************************************)
(* An active task: snapshot is what read() returned, reply holds what the  *)
(* provider produced.  known is observability: the request already had a   *)
(* stored turn or a tombstone when the task read the conversation.         *)
(***************************************************************************)
ActiveTask ==
  [phase : {"checking", "preparing", "inferring", "resting"},
   conversation : Conversation, request : Request, body : Fingerprint,
   snapshot : [revision : Nat, private : BOOLEAN, turns : SUBSET Turn],
   known : BOOLEAN,
   reply : SUBSET [answer : Answer, calls : SUBSET Tool]]

InPhase(k, phase) == tasks[k].phase = phase

\* Mutant: the fields of the last request stay.
BecomePhase(k, state) == tasks' = [tasks EXCEPT ![k].phase = state.phase]

Become(k, state) == tasks' = [tasks EXCEPT ![k] = state]

\* The task ends with an error, or without telling anybody anything.
Fail(k) ==
  /\ Become(k, Idle)
  /\ UNCHANGED answers

\* The task ends by returning a receipt, if the policy still lets it be read.
Return(k, receipt) ==
  /\ Become(k, Idle)
  /\ answers' = answers \cup (IF "history" \in grants THEN {receipt} ELSE {})

-----------------------------------------------------------------------------
(***************************************************************************)
(* Tool sequences (contracts.py, validate_tools), over a set of turns.  A  *)
(* place is a revision and a position, ordered as the messages are.        *)
(***************************************************************************)
Before(p, q) == p[1] < q[1] \/ (p[1] = q[1] /\ p[2] < q[2])

At(S, p) == (CHOOSE t \in S : t.revision = p[1]).messages[p[2]]

CallPlaces(S) == {p \in Names(S) : At(S, p).role = "assistant"}
ResultPlaces(S) == {p \in Names(S) : At(S, p).role = "tool"}

\* The result at q answers the call k made at p, with nothing but results between.
Answers(S, p, q, k) ==
  /\ q \in ResultPlaces(S)
  /\ Before(p, q)
  /\ k \in At(S, q).ids
  /\ \A x \in Names(S) : Before(p, x) /\ Before(x, q) => x \in ResultPlaces(S)

\* No id is used twice, every result answers one open call, and no other message
\* comes before all calls are answered.
ToolSequence(S) ==
  /\ \A p, q \in CallPlaces(S) : p # q => At(S, p).ids \cap At(S, q).ids = {}
  /\ \A q \in ResultPlaces(S) : \A k \in At(S, q).ids :
       /\ \E p \in CallPlaces(S) : k \in At(S, p).ids /\ Answers(S, p, q, k)
       /\ \A x \in ResultPlaces(S) : k \in At(S, x).ids => x = q
  /\ \A p \in CallPlaces(S), x \in Names(S) \ ResultPlaces(S) : Before(p, x) =>
       \A k \in At(S, p).ids : \E q \in ResultPlaces(S) : Answers(S, p, q, k)

\* Ids that were called and have no result.
Unanswered(S) ==
  {k \in Tool : \E p \in CallPlaces(S) :
     k \in At(S, p).ids /\ ~\E q \in ResultPlaces(S) : Answers(S, p, q, k)}

ValidTools(S) == ToolSequence(S) /\ Unanswered(S) = {}

\* The messages of the request to the provider: the snapshot and the new input.
Supplied(snapshot, f) ==
  snapshot.turns \cup
    {[revision |-> snapshot.revision + 1, messages |-> f.incoming]}

\* Mutant: only the ids of the new input are looked at.
FreshCallsInInput(snapshot, f, calls) ==
  \A i \in DOMAIN f.incoming :
    f.incoming[i].role = "assistant" => f.incoming[i].ids \cap calls = {}

\* _validate_result: a reply may not reuse a call id.
FreshCalls(snapshot, f, calls) ==
  \A p \in CallPlaces(Supplied(snapshot, f)) :
    At(Supplied(snapshot, f), p).ids \cap calls = {}

-----------------------------------------------------------------------------
\* complete, from the call to the snapshot: read() is one transaction.
Begin(k, c, q, f) ==
  /\ InPhase(k, "idle")
  /\ "history" \in grants
  /\ Live(c)
  /\ Become(k,
       [phase |-> "checking", conversation |-> c, request |-> q, body |-> f,
        snapshot |-> [revision |-> revision[c], private |-> privateMode[c],
                      turns |-> turns[c]],
        known |-> Settled(c, q) \/ \E t \in turns[c] : t.request = q,
        reply |-> {}])
  /\ UNCHANGED <<vars, grants, answers>>

\* Mutant: only the latest turn is looked at.
StoredLast(c, q) == {t \in turns[c] : t.request = q /\ t.revision = revision[c]}

\* The stored turn of a request, if there is one.
StoredTurns(c, q) == {t \in turns[c] : t.request = q}

\* The receipt transaction and what follows it up to the first await.
Check(k) ==
  LET task == tasks[k]
      c == task.conversation
      stored == StoredTurns(c, task.request)
  IN
  /\ InPhase(k, "checking")
  /\ \/ /\ Settled(c, task.request)
        /\ Fail(k)
     \/ /\ ~Settled(c, task.request)
        /\ \E t \in stored :
             IF t.fingerprint = task.body
             THEN Return(k, ReceiptOf(c, t))
             ELSE Fail(k)
     \/ /\ ~Settled(c, task.request)
        /\ stored = {}
        /\ IF /\ task.snapshot.revision = task.body.expected
              /\ ValidTools(Supplied(task.snapshot, task.body))
              /\ "export" \in grants
           THEN Become(k, [task EXCEPT !.phase = "preparing"]) /\ UNCHANGED answers
           ELSE Fail(k)
  /\ UNCHANGED <<vars, grants>>

\* The await of prepare() returns and the guards after it are passed, or not:
\* whatever prepare() itself may refuse is left open.
Prepare(k) ==
  /\ InPhase(k, "preparing")
  /\ \/ /\ "export" \in grants
        /\ Become(k, [tasks[k] EXCEPT !.phase = "inferring"])
        /\ UNCHANGED answers
     \/ Fail(k)
  /\ UNCHANGED <<vars, grants>>

\* The provider replies within its timeout, or the call fails.
Infer(k) ==
  /\ InPhase(k, "inferring")
  /\ \/ \E a \in Answer, calls \in SUBSET Tool :
          /\ FreshCalls(tasks[k].snapshot, tasks[k].body, calls)
          /\ Become(k, [tasks[k] EXCEPT !.phase = "resting",
                                        !.reply = {[answer |-> a, calls |-> calls]}])
          /\ UNCHANGED answers
     \/ Fail(k)
  /\ UNCHANGED <<vars, grants>>

\* Mutant: the consent the request began with is taken to last.
ConsentedOnce(k) == tasks[k] # Idle

\* authorize("store") and authorize("read") after the last await.
StillConsented(k) == "history" \in grants

\* What makes append raise.
Refused(c, q, f, r) ==
  \/ Settled(c, q)
  \/ \E t \in turns[c] : t.request = q /\ t.fingerprint # f
  \/ /\ ~\E t \in turns[c] : t.request = q
     /\ ~(Live(c) /\ revision[c] = r /\ Acceptable(Stored(f, {})))

\* The section from the rest to the end: no await, one transaction.  When the
\* connection is lost as it commits, the task fails although the turn is stored.
Save(k) ==
  LET task == tasks[k]
      c == task.conversation
      q == task.request
      f == task.body
      r == task.snapshot.revision
  IN
  /\ InPhase(k, "resting")
  /\ \/ /\ ~StillConsented(k) \/ Refused(c, q, f, r)
        /\ Fail(k)
        /\ UNCHANGED vars
     \/ /\ StillConsented(k)
        /\ AppendRetry(c, q, f)
        /\ \/ \E t \in turns[c] : t.request = q /\ Return(k, ReceiptOf(c, t))
           \/ Fail(k)
     \/ /\ StillConsented(k)
        /\ \E reply \in task.reply :
             LET s == Stored(f, reply.calls) IN
             /\ AppendNew(c, q, f, r, s, reply.answer)
             /\ \/ Return(k, ReceiptOf(c, NewTurn(c, q, f, r, s, reply.answer)))
                \/ Fail(k)
  /\ UNCHANGED grants

\* The client disconnects while the task is suspended at an await.
Disconnect(k) ==
  /\ tasks[k].phase \in {"preparing", "inferring", "resting"}
  /\ Fail(k)
  /\ UNCHANGED <<vars, grants>>

\* The process dies and is started again; only the database survives.
Crash ==
  /\ tasks' = [k \in Task |-> Idle]
  /\ grants' \in Grants
  /\ UNCHANGED <<vars, answers>>

\* PrivacyPolicy.configure
Configure(g) ==
  /\ g # grants
  /\ grants' = g
  /\ UNCHANGED <<vars, tasks, answers>>

\* Every operation of the store that is not part of complete().
Elsewhere ==
  /\ \/ \E c \in Conversation : Create(c) \/ Delete(c)
     \/ Forget
     \/ Control
     \/ Reply
     \/ \E n \in sourceDeletions : AcknowledgeDeletion(n)
     \/ \E n \in turnDeletions : AcknowledgeTurnDeletion(n)
  /\ UNCHANGED taskVars

CompletionInit ==
  /\ Init
  /\ tasks = [k \in Task |-> Idle]
  /\ grants \in Grants
  /\ answers = {}

Proceed(k) == Check(k) \/ Prepare(k) \/ Infer(k) \/ Save(k)

CompletionNext ==
  \/ \E k \in Task :
       \/ \E c \in Conversation, q \in Request, f \in Fingerprint : Begin(k, c, q, f)
       \/ Proceed(k)
       \/ Disconnect(k)
  \/ Crash
  \/ \E g \in Grants : Configure(g)
  \/ Elsewhere

CompletionSpec == CompletionInit /\ [][CompletionNext]_allVars

-----------------------------------------------------------------------------
TaskTypeOK ==
  /\ tasks \in [Task -> {Idle} \cup ActiveTask]
  /\ grants \in Grants
  /\ answers \subseteq Receipt

\* A revision names one state of the history: whoever still holds the current
\* revision holds the current turns and mode.  The reply was generated from the
\* snapshot, but append decides from the tables what the reply may have echoed.
SnapshotNamesHistory ==
  \A k \in Task : tasks[k] # Idle =>
    LET c == tasks[k].conversation
        s == tasks[k].snapshot
    IN  Live(c) /\ s.revision = revision[c] =>
          s.turns = turns[c] /\ s.private = privateMode[c]

\* A request that was answered, or deleted, before the task began is not sent to
\* the provider a second time.
NoSecondInference ==
  \A k \in Task : tasks[k] # Idle =>
    (tasks[k].phase # "checking" /\ Live(tasks[k].conversation) => ~tasks[k].known)

\* All callers who are answered about one request are told the same, and they are
\* told nothing that was not stored.
AnswersAgree ==
  /\ \A x, y \in answers :
       x.conversation = y.conversation /\ x.request = y.request => x = y
  /\ \A x \in answers : \E t \in Ever(x.conversation) :
       x = ReceiptOf(x.conversation, t)

\* Whatever was deleted in between, the history remains one that a provider
\* accepts: every tool result follows its call, and every call has its result or
\* is the last thing said.
HistoryStaysValid ==
  \A c \in Conversation : Live(c) => ToolSequence(turns[c])

\* Consent holds for what is done now, not for what was begun under it.  After it is
\* withdrawn no request under way may put a turn into the history, tell its caller
\* an answer, or hand what it has read to the provider, however far it had come and
\* whoever else saved the same request; given back, it holds again
\* (conversations.py, the second and third authorize of complete).
ConsentGoverns ==
  [][/\ "history" \notin grants =>
          /\ answers' = answers
          /\ \A c \in Conversation : \A t \in turns'[c] :
               \E before \in turns[c] : before.request = t.request
     /\ "export" \notin grants =>
          \A k \in Task : InPhase(k, "preparing") => tasks'[k].phase # "inferring"]_allVars
=============================================================================
