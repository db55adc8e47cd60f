------------------------------ MODULE Migration ------------------------------
(***************************************************************************)
(* PostgresDatabase.initialize (postgres_db.py, postgres_schema.py,        *)
(* postgres_record_schema.py): every store that is constructed takes the   *)
(* advisory lock of the schema, inspects what it finds, and in the same    *)
(* transaction creates it or migrates it version by version, validating    *)
(* each version, or refuses it and rolls back.  Any statement may fail     *)
(* and the process may end at any point.                                   *)
(*                                                                         *)
(* One step is one SQL statement, or the reads between two of them: under  *)
(* the lock nothing else changes the catalog.  Of the columns the model    *)
(* keeps those that were added to turns, in their order.                   *)
(***************************************************************************)
EXTENDS Naturals, Sequences

CONSTANTS
  Client,     \* stores being constructed, in one process or in several
  Found,      \* the schemas a database may hold at the start
  None,       \* no client
  MaxFaults   \* bound: how often a statement or a process fails

ASSUME NoneAssumption == None \notin Client

ASSUME FaultsAssumption == MaxFaults \in Nat

VARIABLES
  schema,   \* the schema that is committed
  stored,   \* whether turns has rows
  holder,   \* the transaction that holds pg_advisory_xact_lock, or None
  pc,       \* where each client is
  view,     \* what each client's transaction reads: the commits and its own changes
  todo,     \* the statements it has still to execute
  faults    \* how many have failed

vars == <<schema, stored, holder, pc, view, todo, faults>>

SCHEMA_VERSION == 7

-----------------------------------------------------------------------------
(* Tables and what refers to what.                                         *)

BaseTables == {"conversations", "turns", "source_deletions", "memory_events"}

DeletionTables == {"turn_tombstones", "turn_deletions"}

VerbatimTables == {"memory_jobs", "memories", "memory_sources"}

\* the tables of postgres_record_schema.COLUMNS, in their order
RecordTables ==
  <<"memory_episodes", "memory_facts", "memory_fact_versions", "memory_semantics",
    "memory_episode_fact_links", "memory_semantic_episodes",
    "memory_record_citations", "memory_event_records", "memory_record_registrations">>

Table == {"schema_version"} \cup BaseTables \cup DeletionTables \cup VerbatimTables
           \cup {RecordTables[i] : i \in DOMAIN RecordTables}

Column == {"stated_at", "memory_confirmation", "card_sha256"}

Owners == {"memory_episodes", "memory_fact_versions", "memory_semantics"}

\* the tables that the foreign keys of a record table name
RecordReferences(table) ==
  CASE table = "memory_fact_versions" -> {"memory_facts"}
    [] table = "memory_episode_fact_links" -> {"memory_episodes", "memory_fact_versions"}
    [] table = "memory_semantic_episodes" -> {"memory_semantics", "memory_episodes"}
    [] table = "memory_record_citations" -> Owners
    [] table = "memory_event_records" ->
         Owners \cup {"memory_episode_fact_links", "memory_events"}
    [] OTHER -> {}

\* and those of any table
References(table) ==
  CASE table \in {"turns", "turn_tombstones"} -> {"conversations"}
    [] table = "memories" -> {"memory_jobs"}
    [] table = "memory_sources" -> {"memories"}
    [] OTHER -> RecordReferences(table)

\* PostgresDatabase._tables
Tables(version) ==
  {"schema_version"} \cup BaseTables
    \cup (IF version <= 5 THEN VerbatimTables ELSE {})
    \cup (IF version >= 4 THEN DeletionTables ELSE {})
    \cup (IF version >= 5 THEN {RecordTables[i] : i \in DOMAIN RecordTables} ELSE {})

\* the columns of turns that _validate_schema expects after finish
TurnColumns(version) ==
  (IF version = 1 THEN <<>> ELSE <<"stated_at">>)
  \o (IF version < 3 THEN <<>> ELSE <<"memory_confirmation">>)
  \o (IF version < 7 THEN <<>> ELSE <<"card_sha256">>)

\* The UNIQUE (binding, id) that event records refer to.
Keyed(version) == version >= 5

(***************************************************************************)
(* A schema: its tables, the added columns of turns, whether memory_events *)
(* is keyed by Binding, the rows of schema_version, and what is foreign to *)
(* the program: functions or types ("object"), indexes, views or sequences *)
(* ("relation"), a changed column or constraint ("shape"), triggers or     *)
(* rules ("hook").                                                         *)
(***************************************************************************)
Foreign == {"object", "relation", "shape", "hook"}

Schema ==
  [exists : BOOLEAN, tables : SUBSET Table, columns : Seq(Column),
   keyed : BOOLEAN, versions : SUBSET Nat, foreign : SUBSET Foreign]

Empty == [exists |-> TRUE, tables |-> {}, columns |-> <<>>, keyed |-> FALSE,
          versions |-> {}, foreign |-> {}]

Missing == [Empty EXCEPT !.exists = FALSE]

\* A schema as the release with that schema version leaves it.
Released(version) ==
  [exists |-> TRUE, tables |-> Tables(version), columns |-> TurnColumns(version),
   keyed |-> Keyed(version), versions |-> {version}, foreign |-> {}]

\* What PostgreSQL can hold: the parts belong to tables that are there.
Catalog ==
  {s \in Schema :
     /\ ~s.exists => s = Missing
     /\ s.tables = {} => s.columns = <<>> /\ ~s.keyed /\ s.versions = {}
                         /\ s.foreign \cap {"shape", "hook"} = {}}

ASSUME FoundAssumption == Found \subseteq Catalog

Supported == {Missing, Empty} \cup {Released(v) : v \in 1..SCHEMA_VERSION}

-----------------------------------------------------------------------------
(* Statements.                                                             *)

CreateTable(table) == [do |-> "create", what |-> table]
DropTable(table) == [do |-> "drop", what |-> table]
AddColumn(column) == [do |-> "column", what |-> column]
AddKey == [do |-> "key", what |-> "memory_events"]
Insert(version) == [do |-> "insert", what |-> version]
Update(version) == [do |-> "update", what |-> version]
Validate(version) == [do |-> "validate", what |-> version]

\* Mutant: The column has no default.
DemandingConfirmation == {"memory_confirmation"}

\* turns columns that are neither nullable nor have a default
Demanding == {}

\* PostgreSQL accepts the statement in this state of the catalog, filled if turns has rows.
Accepted(s, filled, statement) ==
  LET what == statement.what IN
  CASE statement.do = "create" ->
         /\ what \notin s.tables
         /\ References(what) \subseteq s.tables
         /\ what = "memory_event_records" => s.keyed
    [] statement.do = "drop" ->
         /\ what \in s.tables
         /\ \A other \in s.tables \ {what} : what \notin References(other)
    [] statement.do = "column" ->
         /\ "turns" \in s.tables
         /\ \A i \in DOMAIN s.columns : s.columns[i] # what
         /\ what \in Demanding => ~filled
    [] statement.do = "key" -> what \in s.tables /\ ~s.keyed
    [] OTHER -> "schema_version" \in s.tables

\* What it then holds.
Executed(s, statement) ==
  LET what == statement.what IN
  CASE statement.do = "create" -> [s EXCEPT !.tables = @ \cup {what}]
    [] statement.do = "drop" -> [s EXCEPT !.tables = @ \ {what}]
    [] statement.do = "column" -> [s EXCEPT !.columns = Append(@, what)]
    [] statement.do = "key" -> [s EXCEPT !.keyed = TRUE]
    [] statement.do = "insert" -> [s EXCEPT !.versions = @ \cup {what}]
    [] OTHER -> [s EXCEPT !.versions = {what}]

\* The key comes before the table whose reference needs it.
RecordDDL ==
  <<AddKey>> \o [i \in DOMAIN RecordTables |-> CreateTable(RecordTables[i])]

TurnDeletionDDL ==
  <<CreateTable("turn_tombstones"), CreateTable("turn_deletions")>>

\* create(): CREATE TABLE turns names all its columns.
Create ==
  <<CreateTable("schema_version"), CreateTable("conversations"), CreateTable("turns"),
    AddColumn("stated_at"), AddColumn("memory_confirmation"), AddColumn("card_sha256"),
    CreateTable("source_deletions"), CreateTable("memory_events")>>
  \o TurnDeletionDDL \o RecordDDL
  \o <<Insert(SCHEMA_VERSION), Validate(SCHEMA_VERSION)>>

\* What initialize does to go from one version to the next.
Upgrade(version) ==
  (CASE version = 1 -> <<AddColumn("stated_at")>>
     [] version = 2 -> <<AddColumn("memory_confirmation")>>
     [] version = 3 -> TurnDeletionDDL
     [] version = 4 -> RecordDDL
     [] version = 5 ->
          <<DropTable("memory_sources"), DropTable("memories"), DropTable("memory_jobs")>>
     [] OTHER -> <<AddColumn("card_sha256")>>)
  \o <<Update(version + 1), Validate(version + 1)>>

\* if version == 1, if version in (1, 2), ... : from each version to the current
Upgrades(version) ==
  LET From(v) == IF version <= v THEN Upgrade(v) ELSE <<>>
  IN  From(1) \o From(2) \o From(3) \o From(4) \o From(5) \o From(6)

-----------------------------------------------------------------------------
(* What initialize reads.                                                  *)

\* the names in pg_class
NoRelations(s) == s.tables = {} /\ "relation" \notin s.foreign

\* Mutant: Views and indexes are not looked at.
SameRelationsByTable(s, version) ==
  s.tables = Tables(version) /\ s.keyed = Keyed(version)

SameRelations(s, version) ==
  /\ s.tables = Tables(version)
  /\ s.keyed = Keyed(version)
  /\ "relation" \notin s.foreign

\* _validate_schema
Valid(s, version) ==
  /\ s.tables = Tables(version)
  /\ s.columns = TurnColumns(version)
  /\ s.keyed = Keyed(version)
  /\ s.foreign \cap {"shape", "hook"} = {}
  /\ s.versions = {version}

\* The checks before anything is changed.
Recognized(s) ==
  /\ "object" \notin s.foreign
  /\ NoRelations(s) \/ \E v \in 1..SCHEMA_VERSION :
                          s.versions = {v} /\ SameRelations(s, v)

\* The statements initialize executes on the schema it has found.
Script(s) ==
  IF NoRelations(s) THEN Create
  ELSE LET version == CHOOSE v \in s.versions : TRUE
       IN  <<Validate(version)>> \o Upgrades(version)

-----------------------------------------------------------------------------
Init ==
  /\ schema \in Found
  /\ stored \in {kept \in BOOLEAN : kept => "turns" \in schema.tables}
  /\ holder = None
  /\ pc = [c \in Client |-> "connecting"]
  /\ view = [c \in Client |-> schema]
  /\ todo = [c \in Client |-> <<>>]
  /\ faults = 0

\* pg_advisory_xact_lock
Lock(c) ==
  /\ pc[c] = "connecting"
  /\ holder = None
  /\ holder' = c
  /\ pc' = [pc EXCEPT ![c] = "inspecting"]
  /\ UNCHANGED <<schema, stored, view, todo, faults>>

\* Mutant: Every statement is committed as it is executed.
RollbackNothing(c, then) ==
  /\ schema' = view[c]
  /\ holder' = IF holder = c THEN None ELSE holder
  /\ pc' = [pc EXCEPT ![c] = then]
  /\ view' = [view EXCEPT ![c] = schema']
  /\ todo' = [todo EXCEPT ![c] = <<>>]
  /\ UNCHANGED stored

\* Mutant: A refused transaction keeps its connection, and the lock.
RollbackUnclosed(c, then) ==
  /\ pc' = [pc EXCEPT ![c] = then]
  /\ view' = [view EXCEPT ![c] = schema]
  /\ todo' = [todo EXCEPT ![c] = <<>>]
  /\ UNCHANGED <<schema, stored, holder>>

\* A transaction that ends without COMMIT leaves the schema and frees the lock.
Rollback(c, then) ==
  /\ holder' = IF holder = c THEN None ELSE holder
  /\ pc' = [pc EXCEPT ![c] = then]
  /\ view' = [view EXCEPT ![c] = schema]
  /\ todo' = [todo EXCEPT ![c] = <<>>]
  /\ UNCHANGED <<schema, stored>>

\* READ COMMITTED: what is read once the lock is held.
Seen == [schema EXCEPT !.exists = TRUE]

\* CREATE SCHEMA where there is none, and the first checks.
Inspect(c) ==
  /\ pc[c] = "inspecting"
  /\ IF Recognized(Seen)
     THEN /\ pc' = [pc EXCEPT ![c] = "executing"]
          /\ view' = [view EXCEPT ![c] = Seen]
          /\ todo' = [todo EXCEPT ![c] = Script(Seen)]
          /\ UNCHANGED <<schema, stored, holder>>
     ELSE Rollback(c, "refused")
  /\ UNCHANGED faults

Execute(c) ==
  /\ pc[c] = "executing"
  /\ todo[c] # <<>>
  /\ LET statement == Head(todo[c])
         next == /\ todo' = [todo EXCEPT ![c] = Tail(@)]
                 /\ UNCHANGED <<schema, stored, holder, pc>>
     IN  \/ /\ statement.do = "validate"
            /\ IF Valid(view[c], statement.what)
               THEN next /\ UNCHANGED view
               ELSE Rollback(c, "refused")
         \/ /\ statement.do # "validate"
            /\ IF Accepted(view[c], stored, statement)
               THEN next /\ view' = [view EXCEPT ![c] = Executed(@, statement)]
               ELSE Rollback(c, "failed")
  /\ UNCHANGED faults

\* The connection's context manager commits when initialize returns.
Commit(c) ==
  /\ pc[c] = "executing"
  /\ todo[c] = <<>>
  /\ schema' = view[c]
  /\ holder' = None
  /\ pc' = [pc EXCEPT ![c] = "up"]
  /\ UNCHANGED <<stored, view, todo, faults>>

\* The commit is done, but its answer is lost: storage_unavailable.
CommitUnanswered(c) ==
  /\ pc[c] = "executing"
  /\ todo[c] = <<>>
  /\ faults < MaxFaults
  /\ faults' = faults + 1
  /\ schema' = view[c]
  /\ holder' = None
  /\ pc' = [pc EXCEPT ![c] = "connecting"]
  /\ UNCHANGED <<stored, view, todo>>

\* No connection, a statement or lock timeout, or the end of the process;
\* the store is constructed again.
Fault(c) ==
  /\ pc[c] \in {"connecting", "inspecting", "executing", "up"}
  /\ faults < MaxFaults
  /\ faults' = faults + 1
  /\ Rollback(c, "connecting")

\* A store that is up saves turns, while others may be starting.
Use(c) ==
  /\ pc[c] = "up"
  /\ stored' = TRUE
  /\ UNCHANGED <<schema, holder, pc, view, todo, faults>>

Step(c) == Lock(c) \/ Inspect(c) \/ Execute(c) \/ Commit(c)

Next == \E c \in Client : Step(c) \/ CommitUnanswered(c) \/ Fault(c) \/ Use(c)

\* An initialization that is started goes on, and its lock is granted when free.
Fairness == \A c \in Client : WF_vars(Step(c))

Spec == Init /\ [][Next]_vars /\ Fairness

-----------------------------------------------------------------------------
(* Whoever has initialized its store works on the current schema, and on   *)
(* nothing else: the same tables, keys and columns in the same order       *)
(* whether the schema was created or came through any of the migrations    *)
(* (postgres_db.py:151-223).                                               *)
UpOnCurrent ==
  \A c \in Client : pc[c] = "up" => schema = Released(SCHEMA_VERSION)

(* "Validate each supported schema before atomic migration to the current  *)
(* version" (postgres_db.py:135): no step, whatever fails and whoever else *)
(* starts, leaves a schema between two versions behind, and a schema the   *)
(* program does not know is never changed.                                 *)
OnlyToCurrent ==
  [][schema' # schema =>
       schema \in Supported /\ schema' = Released(SCHEMA_VERSION)]_vars

(* A schema that a release of this program left is never refused and no    *)
(* statement of its migration is rejected: the order of the statements     *)
(* respects the references, with and without stored turns                  *)
(* (postgres_db.py:181-223, postgres_record_schema.py:165-248).            *)
SupportedAccepted ==
  \A c \in Client : pc[c] \in {"refused", "failed"} => schema \notin Supported

(* Starting on a supported schema, every store comes up once it is no      *)
(* longer disturbed, however many start at once and wait for the lock.     *)
EveryStoreComesUp ==
  \A c \in Client : (schema \in Supported) ~> (pc[c] = "up")

=============================================================================
