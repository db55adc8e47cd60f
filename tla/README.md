# Verification of the conversation core

TLA+ models, TLC runs and TLAPS proofs for `core/src/digital_souls_core`: the
Python service that keeps conversations with characters, asks a language model
for replies and lets a memory component derive memories from what was said.

Paths below are relative to `core/src/digital_souls_core`.

## 1. The system

| Component | State it keeps | Operations | Talks to |
|---|---|---|---|
| History store (`postgres_history.py`, `postgres_schema.py`, `memory_confirmation.py`) | rows of `conversations`, `turns`, `turn_tombstones`; outboxes `source_deletions`, `turn_deletions`; `memory_events` | create, list, read, receipt, append, delete, delete_turns, controls, confirm, source_eligible, deletions, turn_deletions and their acknowledgements | called by the conversations; calls turn selection and record revocation in its transactions |
| Turn selection (`turn_deletion.py`) | none | `select_turns` | called by delete_turns |
| Stateful completion (`conversations.py`, routes in `conversation_api.py`, input rules in `contracts.py`) | none of its own: one task per request | create, list, read, delete, delete_turns, controls, confirm, complete | store, inference, policy |
| HTTP boundary (`api.py`) | a work task and a watcher task per request | `until_disconnect`, `finish_owned`, `ManagedStream` | cancels a running completion |
| Inference (`application.py`) | characters, privacy policy, memory source | prepare, check | policy, memory retrieval, prompt builder, provider |
| Privacy policy (`privacy.py`) | grants, classifier, two generations | configure, permits, allows, authorize, stamp | scan, classifier |
| Memory records (`postgres_memory_records.py`, `postgres_record_*.py`, `memory_records.py`) | episodes, facts and versions, semantics, links, citations, registrations, event records | register, get, list, head, affected, retrievable, current; `revoke_records` | reads the history, is revoked by it |
| Memory retrieval (`memory_retrieval.py`, `memory.py`, `memory_ranking.py`) | configuration and its generations | search, context | records, policy, embedding |
| Prompt assembly (`prompt_builder.py`, `character_book.py`, `token_count.py`) | none | `build`, `select_lore` | token counter |
| Schema migration (`postgres_db.py`) | `schema_version` | initialize, transaction | PostgreSQL |
| Provider (`provider.py`, `local_sdk.py`) | the stream and the client it has open | complete, stream | external SDK |
| Local embedding (`local_embedding.py`) | none | embed | called by retrieval; external server |
| Privacy scan and classifier (`privacy_scan.py`, `privacy_classifier.py`) | none | scan, assess, safe | called by the policy and the history |
| Evaluation harnesses (`*_evaluation*.py`, `*_runtime.py`) | none but files | evaluate: run cases, judge the answers | the same entries as a client, or single components |
| Characters and profiles, local HTTP checks | static | | |

### What is hard

* **Interleaving.** Conversation routes are `async def` with synchronous
  database calls, so a section without `await` is atomic in one process.
  `complete` has awaits (prepare, provider, one `sleep(0)`), and each store call
  is a transaction of its own. Between any two of them another request, or
  another process on the same database, may change or delete the conversation.
* **Retries.** A request id may come again at any time: while the first call
  runs, after it was stored, after its turn or its conversation was deleted.
* **Failure.** A client disconnects, the provider fails, the process dies, the
  connection is lost while a transaction commits (the caller sees 503, the turn
  is stored).
* **What may be remembered.** Whether a stored message may serve as a memory
  source depends on private mode, on exclusions, on pending and answered
  confirmations, and on the whole chain of turns an answer was generated from,
  deleted ones included.
* **Starting.** Several stores may be constructed at once on one database, of any
  earlier schema version, and any statement of a migration may fail.
* **Cancellation.** A disconnect cancels a task at its next await; server, watcher
  and parent may all cancel the same task, and a prefetched provider stream must
  be closed exactly when nobody will consume it.
* **What must be forgotten.** A withdrawn source revokes every memory that rests on
  it, through citations, versions, links and derived memories, in the same
  transaction.

### What makes each part correct

| Part | Correct when |
|---|---|
| History store | a request id names one turn for ever; a deleted one stays refused; every erased turn is announced; no restricted text becomes a source; every withdrawal of a source is announced in its transaction |
| Turn selection | it ends, returns the least set, and never parts a call from its result |
| Completion | nothing is saved over a changed history; what was answered is not inferred again; all answers to one request agree; what was begun under a consent withdrawn since is neither stored, nor told, nor sent |
| HTTP boundary | nothing is saved for a client known to have left; every stream has exactly one owner; cleanup is never cut short; the request ends |
| Memory records | an active memory rests on usable sources only; what is revoked is forgotten, listed and never revived; retries are answered alike |
| Guards around inference | what is sent was permitted when it was sent, and rests on memories that are still there; nothing is refused without a cause |
| Prompt | what is required stays, the rest goes in the order of priority and only as far as needed |
| Ranking and embedding | what is returned is what the model's own vectors rank first, whatever the order of the server's rows |
| Lore | what is shown fits its budget, and what was dropped had to be |
| Scan | putting a value inside a list, an object or a JSON text does not hide it |
| Provider | the byte budget of a stream is that of the exact check; whatever is cancelled, what was opened is closed |
| Migration | a known schema becomes exactly the current one or stays as it was; an unknown one is never changed; every store comes up |
| Evaluations | no lost, failed or repeated measurement is made good by the others |

## 2. Modules

| Module | Models | Extends |
|---|---|---|
| `TurnSelection` | `select_turns` as a pure function: the least set of turns that contains the chosen ones and cuts no call from its result | |
| `TurnSelectionLoop` | its `while` loop, one pass per step | `TurnSelection` |
| `SourceLedger` | the abstract promise of the history to consumers of sources | |
| `HistoryStore` | every method of `PostgresHistory` | `TurnSelection` |
| `Completion` | `Conversations.complete` as tasks next to all other operations | `HistoryStore` |
| `MemoryRecords` | `PostgresMemoryRecords`, the revocation cascade, retrieval | `HistoryStore` |
| `Disconnect` | `until_disconnect`: tasks, cancellations and the queue of the event loop | |
| `Guards` | `Inference.prepare` and its `check`, `PrivacyPolicy.authorize`, `MemoryContext.context`, `MemoryRetrieval.search`, the token counter: what is looked at before and after every await | |
| `PromptBudget` | `PromptBuilder.build`: the stages in which a prompt is made to fit its budgets | |
| `Migration` | `PostgresDatabase.initialize`, statement by statement, for several stores at once | |
| `Streaming` | the task of one answer: `_stream` and its byte budget, `stream` and `complete` of the provider, the local client | |
| `Ordering` | `sorted`, by the number of elements that come before | |
| `LocalEmbedding`, `MemoryRanking` | `embed`; `rank_records` and the end of `search` | each the one before |
| `LoreSelection` | `select_lore` | |
| `PrivacyScan`, `PrivacyEvaluation` | `scan`, `assess`; the evaluation of the classifier | each the one before |
| `PersonaEvaluation`, `InjectionEvaluation` | the two evaluations, from an entry's answer to the verdict | |
| `SemanticEvaluation` | the evaluations of retrieval and of answers while sources are revoked, from what a case observes to the verdict | |
| `Calculations` | asks each of these algorithms its questions | INSTANCEs them |
| `MC...` | small instances for TLC | the module named |
| `HistoryStoreProofs` | theorems about the selection and its loop, about the store, and that it implements the ledger | |
| `StoreUsersProofs` | theorems about the requests and about the memory records | |
| `DisconnectProofs` | theorems about the tasks of a request and the stream they own | |
| `StreamingProofs` | theorems about the byte budget and the cleanup of an answer | |
| `MigrationProofs` | theorems about what is committed to the schema, and that no script is rejected | |
| `GuardsProofs` | theorems about what a request sends | |
| `CalculationsProofs` | theorems about ranking, lore, the scan and the verdicts of the evaluations | |
| `PromptBudgetProofs` | theorems about what is dropped and what is refused | |

### How the models correspond to the code

**HistoryStore.** One variable per column or table: `status`, `revision`, `epoch`,
`privateMode`, `archived` are columns of `conversations`; `turns[c]` and
`tombstones[c]` are the rows of the other two tables; `sourceDeletions`,
`turnDeletions` and `memoryEvents` are the outboxes. One action per method that
writes. `PostgresDatabase.transaction` takes an advisory lock on the Binding before
anything else and commits when its context ends, so a method is one step; a method
that raises rolls back and is no step. The variables called *observability* in
the module (`erased`, `issued`, `acked...`, the fields `marked` and `heard` of a
turn) record what the tables forget; no action reads them. Hashes are taken to be
injective: a fingerprint is compared, never computed. The code rereads the snapshot it
returns from `controls` and `confirm` in a second transaction; that answer is not
modelled, since no stored state depends on it.

**Completion.** A task is one call of `complete`. Its phases are the places where
something else may happen: after the read transaction, after the receipt
transaction, at `prepare`, at the provider, at `sleep(0)`. The section from there to
the end has no await and one transaction. Between two transactions the model lets
everything happen, which the process itself does not between two calls without an
await, but another process on the same database may. A commit whose connection is
lost is `Save` with `Fail`: the turn is stored and the caller gets an error. A
retried call of `append` is `AppendRetry`. `StillConsented` is the repeated `authorize`,
asked of the permissions as they are then. `Crash` empties all tasks and
keeps the tables.

**MemoryRecords.** Records, fact heads, registrations, their events and the digests
that bar re-registration, next to all actions of `HistoryStore`; the actions of
the store that withdraw a source are extended with the cascade (`DeleteAll`,
`ForgetTurns`, `ControlsAll`, `ConfirmAll`), because `revoke_records` runs in the
same transaction. `Affected` is a set defined by its closure where the code runs a
sequence of `UPDATE` statements. A batch stands for its digest; what a record cites,
how it was formed and what it links stand for its identity hash. Two parts of one
message can be quoted (`Part`), where the code has offsets. Texts are not modelled:
that a record is suspended and that its text is NULL are one `UPDATE`. The
sources listed with the evidence of a semantic are compared at registration and not
stored.

**Disconnect.** The event loop is the sequence `ready` of handles, run first in
first out; an action is one handle up to its next await. `Task.cancel` sets `must`
and wakes the task. `finish_owned` is `Joins` (on `gather`) and `Closes` (on
`aclose`). `complete` and `run` are reduced to what matters here: where they may be
suspended, what they have opened, what they save. An await that is over at once
does not suspend; a library may swallow a cancellation; a task that is cancelled
while cleaning up leaves its finalizers half done. The callbacks between the end of
the last child and the end of `gather` are merged.

**Guards.** One request. An action runs from one await to the next, or ends in a
phase of `Running`, from which the request goes on before anything else happens.
`task` holds the local variables and closures of `prepare`, `context` and `search`:
the stamp, the memory context, what the lookup saw and what it quotes. Where the
code takes a closure (`guard`), `guarded` says which one. Verdicts, ranking and the
assembly of the prompt are choices, an answer that never comes included.
`Disturb` is everything that may happen at an await: `configure`, the setters of
`PrivacyPolicy.classifier` and `MemoryRetrieval.embedding`, assignments to the
other attributes, and revocations. A revocation that another process commits
while the request runs counts as coming right after. Not modelled: an inference
without a policy, other context sources than `MemoryContext`, changes of its scope.
The export authorization that `Conversations` adds is in `Completion`.

**PromptBudget.** Units, not texts: how many memories, which turns, which lore
entries by their removal keys, whether the instructions after the history remain. One
action is one pass of the `while` loop or the end of a stage. After every drop the
counter may return anything, since a chat template may charge more for a shorter
prompt; what a region costs depends on that region only (`_region_input`), and
equal messages cost the same, because `build` caches its counts. `character` and
`current_input` are never dropped and stand as one region, `fixed`. `forced` and `rose` are
observability: which regions a unit was dropped from while over their own budget,
and whether the whole has ever cost more after a drop.

**Migration.** A step is one SQL statement, or the reads between two statements: under
the advisory lock nobody else changes the catalog. A schema is its set of tables, the
columns that were added to `turns` in their order, whether `memory_events` has the key
that event records refer to, the rows of `schema_version`, and what is foreign to the
program. `Accepted` says when PostgreSQL takes a statement (existence, references,
defaults), so that the order of the statements matters. A transaction keeps its changes
in `view` and makes them everybody's in `Commit`; `Rollback` leaves the schema alone.
`CommitUnanswered` is a commit whose answer is lost, `Fault` everything else that ends a
connection or the process. `Use` lets a store that is up write turns while others start.

**Streaming.** An action is what the task does from one await to the next; `Cancel` sets
a flag that is raised at the await where the task is. A fragment is its code points and
its bytes as JSON, so that the budget, which looks at both, is computed with the
numbers of the code (`EmptyCall`, `Entry`). The closing of the local client is a task of
its own behind `asyncio.shield`; it is not cancelled. The refusal of a configuration
before the client is opened is not modelled.

**Calculations.** One action per algorithm. `question` is its input, chosen at the start from
the instance's set of questions; `answer` is what it returns. A text is the class of what is
found in it, a unit vector a point on a line (distances keep their order, which is all
the ranking uses), a key or an expression a member of a set. A scan is asked about a value and
about six things that hold it. Its loop decodes a string that is JSON as `json.loads` does there:
the keys are strings and a float keeps all its digits, so what is decoded carries a flag
(`read`), and a large float or a key that is no string, refused as it is (`Native`), is
looked at once it was decoded. `NothingHidden` therefore allows one difference only: a JSON text
may be read where its value is refused, if the value has such a number or key (`Rewritten`).
`test_numeric_privacy.py` asserts both outcomes for one number. An evaluation is asked with
what every cell usually answers and with at most two cells that answer something else:
its action chooses the outcomes and applies the verdict. In the semantic evaluations the
scores are those the evaluation computes for itself from the vectors of a call, a returned
memory has the places of its text among them, and what `PreparedCase.mutate`
revokes between search, dispatch and answer shows in what the checks of the request
answer there; `Guards` and `MemoryRecords` model why they do. Regular expressions, the
normalization of texts and floating point are left out.

## 3. Runs

| Run | Instance and bounds | Shows |
|---|---|---|
| `turn_selection` | every placement of two calls and two results in three turns, every chain over four | the loop ends with exactly the least whole selection |
| `history_memory` | 1 conversation, 3 requests, 2 bodies, 5 revisions; plain, excluded and held messages | no restricted text becomes a source; revisions and requests name one turn, receipts are final; deletions and withdrawals are announced; the store implements the ledger |
| `completion_tools` | 1 task, 3 requests, 2 call ids, 4 revisions | the stored history stays one that a provider accepts, whatever is deleted in between |
| `completion_races` | 2 tasks, 2 requests, 2 answers, 3 revisions, a permission granted or not | no stale save, no second inference, no two answers to one request; consent governs what is stored, told and sent |
| `memory_records` | 3 requests, 4 revisions, 2 record ids, ten batches | active memories are grounded; revoked ones are forgotten, listed, never revived |
| `disconnect` | every order of the handles, 3 cancellations by the server | nothing is saved for a client known to have left; streams are owned; the request ends |
| `guards` | 2 policies, 2 retrieval policies, 2 memories, any grants, 2 changes, 2 counts | what is sent is permitted, current and undisturbed; nothing is refused without a cause |
| `prompt_budget` | 3 memories, 3 turns, 2 lore entries, both floors 2, every cost 0 or 1 against a budget of 0 | the protected turn stays; priority is kept; a refusal is necessary or the counter's doing |
| `migration` | 2 stores, 2 faults; every released schema, none, and 230 schemas that differ from one | a known schema becomes the current one or stays; an unknown one is never changed; every store comes up |
| `calculations` | 3 memories, books of 3 entries, values nested up to the limits (4 levels, 6 values instead of 12 and 8,192), evaluations with one or two unusual cells | ranking and lore agree with their definitions; nothing is hidden by nesting or decoding; no verdict is unearned |
| `streaming` | 3 chunks against a limit of 887 bytes, 3 cancellations, streamed or not, local or not | the budget is exact; the task ends with everything released and no cancellation lost |

`MaxRevision` is the only bound on the store (`MaxCancels` on the boundary); it
stands in the guard of `AdvanceRevision`. Five revisions are enough for the
longest scenario the memory properties distinguish: a source, an answer that heard it,
an answer that heard that, the deletion of the middle, and a confirmation. Three
are enough for a race: what both requests read, what the winner saves, and one
change in between. Two cancellations of a request reach every branch of
`finish_owned` (one during `gather`, one during `aclose`); the bound is three. Two changes are the
least that withdraw consent and give it again; two counts, the least at which
something is counted before and after a change.
`build` only asks whether a cost is over its budget, and whether the whole has
grown: two costs distinguish both. Floors of two with three units make each of
the seven stages stop at its own floor. Two stores are enough for one to wait for the
lock of another, two faults for a commit whose answer is lost and another one during the
retry. 887 bytes are eleven empty calls: the eleventh has the first
index of two digits; three chunks reach the limit by text, by arguments, by new
calls and by mixtures. Three cancellations reach every finalizer of the task in a row.
An evaluation's thresholds are nine in ten, and ten or eleven cases of a kind make one wrong cell
pass and two fail. `SentSafely` joins three parts stated apart in `Guards`,
`SavedKnowingly` two of `Disconnect`. Type invariants are proved, not run, where there is a
proof.

Deadlock is not checked: a history of which every revision is used up, and a request
that is over, really stop.

### Fairness

That `complete` ends is not stated: it has no loop and waits on nobody but the provider,
the token counter and the database, which have timeouts. What can keep a request from
ending is the joining of its children at the HTTP boundary.

`RequestEnds` assumes that the event loop runs its handles (`WF` on `Loop`), that what
the children await ends (`Ready`, by those timeouts) and that `aclose` of a stream
ends (`Closed`). The client need never leave and the server need never cancel.

`EveryStoreComesUp` assumes that an initialization goes on and is granted the lock when it
is free (`WF` on `Step` of each store); faults are bounded, and nothing is assumed of them.

`EndsReleased` assumes that the loop runs what is ready (`WF` on `Step`) and that closing a
socket ends (`ClientCloses`). `MaxChunks` also stands for an assumption: that an answer
has an end. The code bounds the bytes of an answer and the time between two chunks, but
a provider that keeps sending chunks of usage only would be read for ever.

## 4. Proofs

All theorems hold for every value of the constants, under the named assumptions of
the modules: what may be appended ends with an assistant message, and `complete`
appends what it was sent followed by the reply.

* **Turn selection.** `LoopCorrect`: the loop returns the least whole set. The
  invariant `LoopInv` says that what is selected so far lies between the seed and
  the least whole set; `LeastWholeIsWhole` and `LeastWholeIsLeast` are the two
  halves of the fixpoint argument.
* **History store.** `HistoryInv` is the inductive invariant. The invariants of the
  runs are not inductive as they stand: `TurnIdentity` needs that revisions are
  at most the counter and that tombstones and erased turns name each other;
  `NoEchoedSource` needs that `heard` is closed, that a turn which heard restricted text
  is excluded, and that deleted turns leave the taint behind; `NoticesCoverErased`
  needs that notices and acknowledgements together cover what was erased. The proof has one
  lemma per action; `InvByConversation` splits the invariant into what concerns one
  conversation, so that an action only has to show it for the one it touches.
* **Action properties.** `WithdrawalsRevoke` and `PairsStayWhole` follow
  from the invariant, one step of `Next` at a time.
* **Refinement.** `StoreKeepsLedger`: the store implements `SourceLedger`, under the
  mapping at the end of `HistoryStore`. Every action maps to an action of the ledger
  or to a stutter; deletions use that the names of what remains and of what is erased
  are disjoint.
* **Requests.** `CompletionUsesStore`: a behaviour of the requests is one of the
  store, so everything above holds among them. `RevisionNamesHistory` rests on
  `TasksRead`: what a task has read is what the conversation was at that
  revision, and every later step of the store is a successor of it.
  `AnswersCorrect` rests on `RequestsIdempotent` and on the answers being receipts
  that were issued. `HistoryAccepted` (the stored tool calls stay in order) rests on
  `TasksChecked`: what a task found valid is valid as long as the revision is the
  one it read, and then so is the history with the reply appended (`ToolsAfterReply`). A
  deletion leaves a part that separates no call from its result (`ToolsAfterForget`, from
  `SelectionIsWhole`), and a confirmation changes no message. `ConsentIsAskedAgain`
  (`ConsentGoverns`) looks at each step of a task on its own (`WithdrawnStoresNothing`,
  `SentByPermission`): the permissions are asked again after every await, before the stored
  answer of an identical request is told as well as before a new one is stored.

* **Memory records.** Every step does one of three things to the records: it registers a
  batch, revokes what cites given turns, or leaves them alone while no source becomes
  invalid. `RegisterKeeps`, `RevokeKeeps` and `QuietKeeps` show `RecordsInv` for each, and
  each action is one of the three. Of `RecordsInv`, `HeadsUnique` and `RowsUnique` are needed to
  say which row a reference names, `RowsFromBatches` to know a row's shape,
  `BatchesWhole` that a kept digest stands for a batch that is still there as it was.
  `RecordsUseStore` lets the proof use everything proved about the store, and needs
  of it that revisions and revocation events are never reused. From `RecordsInv` follow
  `MemoriesGrounded`, `VersionsTogether`, `RevocationsListed`, `NothingOutlived`,
  `RetriesAnsweredAlike` and `ActiveRetrieved`; `RevokedForGood` looks at the steps once more.

* **Migration.** `UpIsCurrent` and `MigratesWhole` rest on `MigrationInv`: whoever is in a
  transaction holds the lock (`Holds`), every script still to be executed ends with the
  validation of the current version (`Bound`), and begins with that of the version found, before
  which nothing is changed (`Founded`). What is committed is therefore known without
  following the statements between. `SupportedNeverRefused` does follow them: `Leads(a, p, b)` says
  that the script `p` is accepted statement by statement, with and without rows in `turns`,
  and makes the schema `a` the schema `b`. Each migration leads from what one release left to
  what the next one leaves (`UpgradeLeads`; the order of the record tables is
  `RecordOrder`), `create` leads from nothing to the current schema (`CreateLeads`), and
  `SmoothInv` keeps for every running store that what is left of its script still leads there.

* **Guards.** `SendsSafely` (`SentSafely`) and `RefusalsCaused` rest on `GuardsInv`. The guards
  compare generations, and what a request sends must be permitted by the grants; so
  the invariant says what a generation that is still the same tells about the
  grants (`Asking`), the consent (`Consented`) and the embedding (`Looking`). An external
  request asks the classifier about its prompt without another look at the
  memories: `Known` says why that is right, namely that it has not awaited
  anything since the lookup. `Calm` says that every guard holds while nothing is changed.

* **Prompt.** `ProtectedKept`, `RefusalsNeeded` and `DropsOrdered` rest on `PromptInv`,
  for every budget and every counter. `Settled` is its heart: when the last stage of a
  region is over, the region fits or nothing of it is left to drop, and as long as
  shorter prompts cost no more, the same is true of the whole and everything that goes
  before. `Kept` says where the protected turn is, `Counted` that costs are those of
  what remains, `Refused` that a refusal follows from one of the two.

* **Boundary.** `TurnsSavedKnowingly` (`SavedKnowingly`), `StreamsAreOwned` and
  `ChildrenDoFinish` rest on `RequestInv`, for any number of cancellations by the server.
  `WellQueued` ties the queue of handles to the tasks: nobody is in it twice, whoever is
  in it can run, and whoever waits for somebody that has ended has been woken. `Asked` says what
  each flag of a cancellation still entails, `Joined` what the parent may know while it waits
  and when it is over, `Stored` and `Opened` what a task at each await has saved and has
  open. None of the three properties is inductive without them: that no child outlives the
  answer, for instance, needs that the end of the last child is what puts the parent back
  into the queue.

* **Answer.** `BudgetIsExact` holds for every limit and any number of chunks and of calls.
  `StreamAssumption` asks for no more than the types of the chunks and a limit that holds the
  empty message (8 bytes); `Digits` stops counting at six digits, since the 1 MiB of the code
  do not hold a million calls. `Exactly` is its invariant: the budget's three sums are those of the
  message assembled so far, so that adding the next fragment exceeds the limit exactly if
  the finished message would. `CleanupSafe` is the safety half of `EndsReleased`: `Cleanup` says for
  every await of the task what is open and who will close it, and that a cancellation is
  either pending, being raised or already passed on.

* **Computations.** The loops of ranking, lore and scan are recursive functions. The definition of
  such a function says nothing before it is known to have a value, so each proof counts the
  turns of its loop (`Iterates`, `Advances`), shows what holds after every turn, and only then says
  what comes out. A sorted sequence is the line in which an order puts a finite set
  (`Orders`, `Line`, `RanksSort`).
  - `RankingIsSound`: `OwnVectors` says that every text gets the vector numbered with it, whatever the
    order of the rows; `Bands` is the invariant of the loop that cuts the ranking into bands, `Settled`
    what is known of the bands already closed, `Chosen` what of it the memories returned keep.
  - `LoreIsSound`: `Gone` says that after each turn the first entries in the order of removal are
    gone and that the budget was exceeded without them, `RemainingSound` that the loop ends with no more
    dropped than must be, for a counter that may answer anything.
  - `NothingIsHidden`: a scan is compared turn by turn with the scan of what holds the value.
    `Follows` says that the outer one is a turn behind, its stack ending in that of the inner one a level
    deeper and perhaps decoded, and has found as much or has failed, or that the inner one has failed and
    may; `ScanFollows` that this is still so at the end. Decoding can only make a difference where
    the loop meets a value that JSON does not keep; `NativeInside` says that the value asked about has
    one then, because everything on the stack that was not decoded lies in a layer of it
    (`Layered`, `Layers`).
  - `VerdictsAreEarned`: one lemma for each evaluation says what a passing report has looked at. An
    evaluation counts rows, kept results or cases; the property speaks of the cells that were run.
    `SameCount`, `OneRound` and `MostCells` carry the counts over, which is where a cell that is lost,
    repeated or counted for another one would show.

  `AnswersTrue` and `ReportsTrue` are the inductive invariants: what is answered is what the
  functions return. The assumptions (`KindAssumption`, `MemoryAssumption`, `LoreAssumption`,
  `TextAssumption`, `TrialAssumption`) say which inputs are questions at all, that is what the code
  has parsed, validated or fetched before it computes: memories of a search have different
  identifiers, scores are numbers and belong to the vectors of the call, the cases of the
  classifier have different names, and an evaluation runs each of its cases in each of its rounds.
  Whether the results of the classifier are kept once, twice or not at all is not assumed.

Sums over sequences are folds (`Total`, by `FoldLeft`), which have no induction rule the provers can
use: the theorems of the library are stated with an operator as a parameter. Where a fold
has to be known for every length (`TotalSums`, `TotalGrows`), the proof does without: a set of
naturals that is not empty has a least element (`LeastNatural`, from `WFMin` and
`NatLessThanWellFounded`), so a set that contains 0 and with every number the next one contains them
all (`CountUp`); that set is then the lengths for which the lemma holds.

Only model-checked: liveness (`RequestEnds`, `LoopEnds`, `EveryStoreComesUp`, and
that the task of `EndsReleased` ends), since the provers reason neither about fairness nor about
`ENABLED`. Every safety property a run checks is proved.

## 5. Not modelled

* Text: the patterns of the scan, the wording of prompts and lore, cards. What the scan finds in
  a text, which messages are flagged and what the classifier answers are inputs.
* The second transaction of `controls` and `confirm`, which reads the snapshot they return:
  no stored state depends on it, the answer may describe a later state.
* The sending of a stream after it was handed to its response.
* The routing of models and the classification of provider errors; the local HTTP
  checks and the profiles of characters, which are static.
* Byte limits of requests and of histories, times and their encoding.
* The fixtures of the evaluations, the validation of the semantic cases beyond their
  expectations, reports beyond the verdict, and the JavaScript that drives the answer
  evaluation.

## 6. Plan

What could follow: the time intervals of the record codec against a reference definition, the
validation of the semantic cases, and the safety half of the liveness properties as theorems of their own.
