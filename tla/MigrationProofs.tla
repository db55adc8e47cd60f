--------------------------- MODULE MigrationProofs ---------------------------
(***************************************************************************)
(* A schema only ever becomes the current one, and every store that is up  *)
(* works on it: for any number of stores and failures, and whatever the    *)
(* database held.                                                          *)
(*                                                                         *)
(* Every script ends by validating the current version, so what is         *)
(* committed is known whatever the statements before it do; and it begins  *)
(* by validating the version it has found, so nothing unknown is changed.  *)
(***************************************************************************)
EXTENDS Migration, SequenceTheorems, TLAPS

Statement ==
  [do : {"create", "drop", "key"}, what : Table]
    \cup [do : {"column"}, what : Column]
    \cup [do : {"insert", "update", "validate"}, what : Nat]

Phase == {"connecting", "inspecting", "executing", "up", "refused", "failed"}

Last7(s) == Len(s) > 0 /\ s[Len(s)] = Validate(SCHEMA_VERSION)

Shape ==
  /\ schema \in Catalog
  /\ stored \in BOOLEAN
  /\ holder \in Client \cup {None}
  /\ pc \in [Client -> Phase]
  /\ view \in [Client -> Schema]
  /\ todo \in [Client -> Seq(Statement)]

Holds(c) == pc[c] \in {"inspecting", "executing"} => holder = c

\* What the script of c still has to establish, and what is known already.
Bound(c) ==
  pc[c] = "executing" =>
    /\ view[c].exists
    /\ view[c].foreign \cap {"object", "relation"} = {}
    /\ todo[c] = <<>> => view[c] = Released(SCHEMA_VERSION)
    /\ todo[c] # <<>> => Last7(todo[c])

\* Until it has validated what it found, the script changes nothing.
Founded(c) ==
  pc[c] = "executing" =>
    \/ schema \in Supported
    \/ \E v \in 1..SCHEMA_VERSION :
         /\ todo[c] # <<>>
         /\ Head(todo[c]) = Validate(v)
         /\ view[c] = Seen
         /\ SameRelations(Seen, v)

MigrationInv ==
  /\ Shape
  /\ \A c \in Client : Holds(c) /\ Bound(c) /\ Founded(c)
  /\ UpOnCurrent

-----------------------------------------------------------------------------
(* The scripts.                                                            *)

LEMMA Kinds ==
  /\ \A table \in Table :
       CreateTable(table) \in Statement /\ DropTable(table) \in Statement
  /\ \A column \in Column : AddColumn(column) \in Statement
  /\ AddKey \in Statement
  /\ \A v \in Nat : /\ Insert(v) \in Statement
                     /\ Update(v) \in Statement
                     /\ Validate(v) \in Statement
<1>1. "memory_events" \in Table
  BY DEF Table, BaseTables
<1> QED
  BY <1>1 DEF CreateTable, DropTable, AddColumn, AddKey, Insert, Update, Validate, Statement

LEMMA Names ==
  /\ BaseTables \subseteq Table /\ DeletionTables \subseteq Table
  /\ VerbatimTables \subseteq Table /\ "schema_version" \in Table
  /\ \A i \in DOMAIN RecordTables : RecordTables[i] \in Table
BY DEF Table

LEMMA LastOfConcat ==
  ASSUME NEW S, NEW s \in Seq(S), NEW t \in Seq(S), Last7(t)
  PROVE  Last7(s \o t)
<1>1. Len(s \o t) = Len(s) + Len(t)
  OBVIOUS
<1>2. Len(t) > 0 /\ Len(t) \in Nat /\ Len(s) \in Nat
  BY DEF Last7
<1>3. (s \o t)[Len(s) + Len(t)] = t[Len(t)]
  BY <1>2
<1> QED
  BY <1>1, <1>2, <1>3 DEF Last7

LEMMA RecordStatements == RecordDDL \in Seq(Statement)
<1>1. [i \in DOMAIN RecordTables |-> CreateTable(RecordTables[i])] \in Seq(Statement)
  <2>1. RecordTables \in Seq(Table)
    <3>1. RecordTables \in Seq({RecordTables[i] : i \in DOMAIN RecordTables})
      BY DEF RecordTables
    <3> QED
      BY <3>1 DEF Table
  <2>2. \A i \in DOMAIN RecordTables : CreateTable(RecordTables[i]) \in Statement
    BY <2>1, Kinds
  <2> DEFINE F == [i \in DOMAIN RecordTables |-> CreateTable(RecordTables[i])]
  <2>3. Len(RecordTables) \in Nat /\ DOMAIN RecordTables = 1..Len(RecordTables)
    BY <2>1
  <2>4. F \in [1..Len(RecordTables) -> Statement]
    BY <2>2, <2>3
  <2> QED
    BY <2>3, <2>4
<1>2. <<AddKey>> \in Seq(Statement)
  BY Kinds
<1> QED
  BY <1>1, <1>2 DEF RecordDDL

LEMMA DeletionStatements == TurnDeletionDDL \in Seq(Statement)
BY Kinds, Names DEF TurnDeletionDDL, DeletionTables

LEMMA EndStatements ==
  ASSUME NEW v \in Nat
  PROVE  /\ <<Update(v), Validate(v)>> \in Seq(Statement)
         /\ <<Insert(v), Validate(v)>> \in Seq(Statement)
         /\ <<Validate(v)>> \in Seq(Statement)
BY Kinds

LEMMA CreateScript == Create \in Seq(Statement) /\ Last7(Create)
<1> DEFINE Base == <<CreateTable("schema_version"), CreateTable("conversations"),
                     CreateTable("turns"), AddColumn("stated_at"),
                     AddColumn("memory_confirmation"), AddColumn("card_sha256"),
                     CreateTable("source_deletions"), CreateTable("memory_events")>>
           End == <<Insert(SCHEMA_VERSION), Validate(SCHEMA_VERSION)>>
<1>1. Base \in Seq(Statement)
  <2>1. <<CreateTable("schema_version"), CreateTable("conversations"),
          CreateTable("turns")>> \in Seq(Statement)
    BY Kinds, Names DEF BaseTables
  <2>2. <<AddColumn("stated_at"), AddColumn("memory_confirmation"),
          AddColumn("card_sha256")>> \in Seq(Statement)
    BY Kinds DEF Column
  <2>3. <<CreateTable("source_deletions"), CreateTable("memory_events")>> \in Seq(Statement)
    BY Kinds, Names DEF BaseTables
  <2>4. Base = <<CreateTable("schema_version"), CreateTable("conversations"),
                 CreateTable("turns")>>
                 \o <<AddColumn("stated_at"), AddColumn("memory_confirmation"),
                      AddColumn("card_sha256")>>
                 \o <<CreateTable("source_deletions"), CreateTable("memory_events")>>
    OBVIOUS
  <2> HIDE DEF Base
  <2> QED
    BY <2>1, <2>2, <2>3, <2>4
<1>2. End \in Seq(Statement) /\ Last7(End)
  <2>1. End \in Seq(Statement)
    BY EndStatements DEF SCHEMA_VERSION
  <2>2. Last7(End)
    BY DEF Last7
  <2> QED
    BY <2>1, <2>2
<1> HIDE DEF Base, End
<1>3. Base \o TurnDeletionDDL \o RecordDDL \in Seq(Statement)
  BY <1>1, RecordStatements, DeletionStatements
<1> DEFINE Front == Base \o TurnDeletionDDL \o RecordDDL
<1>4. Create = Front \o End
  BY DEF Create, Base, End
<1>5. Front \in Seq(Statement)
  BY <1>3
<1> HIDE DEF Front
<1>6. Last7(Front \o End)
  BY <1>2, <1>5, LastOfConcat
<1>7. Front \o End \in Seq(Statement)
  BY <1>2, <1>5
<1> QED
  BY <1>4, <1>6, <1>7

LEMMA UpgradeScript ==
  ASSUME NEW v \in 1..6
  PROVE  /\ Upgrade(v) \in Seq(Statement)
         /\ v = 6 => Last7(Upgrade(v))
<1> DEFINE End == <<Update(v + 1), Validate(v + 1)>>
           Body == CASE v = 1 -> <<AddColumn("stated_at")>>
                     [] v = 2 -> <<AddColumn("memory_confirmation")>>
                     [] v = 3 -> TurnDeletionDDL
                     [] v = 4 -> RecordDDL
                     [] v = 5 -> <<DropTable("memory_sources"), DropTable("memories"),
                                   DropTable("memory_jobs")>>
                     [] OTHER -> <<AddColumn("card_sha256")>>
<1>1. End \in Seq(Statement)
  BY EndStatements
<1>2. v = 6 => Last7(End)
  BY DEF Last7, SCHEMA_VERSION
<1>3. Body \in Seq(Statement)
  <2>1. <<AddColumn("stated_at")>> \in Seq(Statement)
    BY Kinds DEF Column
  <2>2. <<AddColumn("memory_confirmation")>> \in Seq(Statement)
    BY Kinds DEF Column
  <2>3. <<AddColumn("card_sha256")>> \in Seq(Statement)
    BY Kinds DEF Column
  <2>4. <<DropTable("memory_sources"), DropTable("memories"), DropTable("memory_jobs")>>
          \in Seq(Statement)
    BY Kinds, Names DEF VerbatimTables
  <2> QED
    BY <2>1, <2>2, <2>3, <2>4, RecordStatements, DeletionStatements
<1>4. Upgrade(v) = Body \o End
  BY DEF Upgrade
<1> HIDE DEF Body, End
<1> QED
  BY <1>1, <1>2, <1>3, <1>4, LastOfConcat

LEMMA UpgradesScript ==
  ASSUME NEW v \in 1..SCHEMA_VERSION
  PROVE  /\ Upgrades(v) \in Seq(Statement)
         /\ v < SCHEMA_VERSION => Last7(Upgrades(v))
         /\ v = SCHEMA_VERSION => Upgrades(v) = <<>>
<1> DEFINE From(w) == IF v <= w THEN Upgrade(w) ELSE <<>>
<1>1. \A w \in 1..6 : From(w) \in Seq(Statement)
  BY UpgradeScript
<1>2. v < SCHEMA_VERSION => Last7(From(6))
  BY UpgradeScript DEF SCHEMA_VERSION
<1>3. v = SCHEMA_VERSION => \A w \in 1..6 : From(w) = <<>>
  BY DEF SCHEMA_VERSION
<1>4. Upgrades(v) = From(1) \o From(2) \o From(3) \o From(4) \o From(5) \o From(6)
  BY DEF Upgrades
<1> HIDE DEF From
<1>5. From(1) \o From(2) \o From(3) \o From(4) \o From(5) \in Seq(Statement)
  BY <1>1
<1>6. Upgrades(v) = (From(1) \o From(2) \o From(3) \o From(4) \o From(5)) \o From(6)
  BY <1>4
<1>7. v < SCHEMA_VERSION => Last7(Upgrades(v))
  <2> SUFFICES ASSUME v < SCHEMA_VERSION PROVE Last7(Upgrades(v))
    OBVIOUS
  <2>1. From(6) \in Seq(Statement) /\ Last7(From(6))
    BY <1>1, <1>2
  <2> QED
    BY <1>5, <1>6, <2>1, LastOfConcat
<1>8. v = SCHEMA_VERSION => Upgrades(v) = <<>>
  BY <1>3, <1>4
<1>9. Upgrades(v) \in Seq(Statement)
  BY <1>1, <1>5, <1>6
<1> QED
  BY <1>7, <1>8, <1>9

-----------------------------------------------------------------------------
(* Schemas.                                                                *)

LEMMA ReleasedIsSchema ==
  ASSUME NEW v \in Nat
  PROVE  Released(v) \in Schema
<1>1. Tables(v) \subseteq Table
  BY DEF Tables, Table
<1>2. TurnColumns(v) \in Seq(Column)
  <2> DEFINE First == IF v = 1 THEN <<>> ELSE <<"stated_at">>
             Second == IF v < 3 THEN <<>> ELSE <<"memory_confirmation">>
             Third == IF v < 7 THEN <<>> ELSE <<"card_sha256">>
  <2>1. First \in Seq(Column) /\ Second \in Seq(Column) /\ Third \in Seq(Column)
    <3>1. \A c \in Column : <<c>> \in Seq(Column)
      OBVIOUS
    <3>2. <<>> \in Seq(Column)
      OBVIOUS
    <3>3. <<"stated_at">> \in Seq(Column)
      BY <3>1 DEF Column
    <3>4. <<"memory_confirmation">> \in Seq(Column)
      BY <3>1 DEF Column
    <3>5. <<"card_sha256">> \in Seq(Column)
      BY <3>1 DEF Column
    <3> QED
      BY <3>2, <3>3, <3>4, <3>5
  <2>2. TurnColumns(v) = First \o Second \o Third
    BY DEF TurnColumns
  <2> HIDE DEF First, Second, Third
  <2> QED
    BY <2>1, <2>2
<1>3. Keyed(v) \in BOOLEAN
  BY DEF Keyed
<1> QED
  BY <1>1, <1>2, <1>3 DEF Released, Schema

LEMMA CurrentInCatalog == Released(SCHEMA_VERSION) \in Catalog
<1>1. Released(SCHEMA_VERSION) \in Schema
  BY ReleasedIsSchema DEF SCHEMA_VERSION
<1>2. Released(SCHEMA_VERSION).exists /\ Released(SCHEMA_VERSION).tables # {}
  BY DEF Released, Tables
<1> QED
  BY <1>1, <1>2 DEF Catalog

\* A schema that is valid and holds nothing else is the released one.
LEMMA ValidIsReleased ==
  ASSUME NEW s \in Schema, NEW v \in Nat, Valid(s, v), s.exists,
         s.foreign \cap {"object", "relation"} = {}
  PROVE  s = Released(v)
<1>1. s.foreign = {}
  BY DEF Valid, Schema, Foreign
<1> QED
  BY <1>1, ReleasedIsSchema DEF Valid, Released, Schema

LEMMA SeenIsSchema ==
  ASSUME schema \in Catalog
  PROVE  Seen \in Schema /\ Seen.exists
BY DEF Catalog, Seen, Schema

\* Where there is no relation and no object, there is nothing.
LEMMA NothingFound ==
  ASSUME schema \in Catalog, NoRelations(Seen), "object" \notin Seen.foreign
  PROVE  schema \in Supported
<1>1. schema.tables = {} /\ "relation" \notin schema.foreign /\ "object" \notin schema.foreign
  BY DEF NoRelations, Seen, Catalog, Schema
<1>2. schema.foreign = {}
  BY <1>1 DEF Catalog, Schema, Foreign
<1>3. schema \in Schema /\ schema.columns = <<>> /\ schema.keyed = FALSE /\ schema.versions = {}
  BY <1>1 DEF Catalog, Schema
<1>4. CASE ~schema.exists
  BY <1>4 DEF Catalog, Supported
<1>5. CASE schema.exists
  <2>1. schema = Empty
    BY <1>1, <1>2, <1>3, <1>5 DEF Empty, Schema
  <2> QED
    BY <2>1 DEF Supported
<1> QED
  BY <1>4, <1>5 DEF Catalog, Schema

\* Where tables are found, the schema was there.
LEMMA SeenAsIs ==
  ASSUME schema \in Catalog, Seen.tables # {}
  PROVE  Seen = schema
<1>1. schema \in Schema /\ schema.tables # {}
  BY DEF Seen, Catalog, Schema
<1>2. schema.exists
  BY <1>1 DEF Catalog, Missing, Empty
<1> QED
  BY <1>1, <1>2 DEF Seen, Schema

\* Executing a statement keeps a schema a schema, and adds nothing foreign.
LEMMA ExecutedSchema ==
  ASSUME NEW s \in Schema, NEW x \in Statement, x.do # "validate"
  PROVE  /\ Executed(s, x) \in Schema
         /\ Executed(s, x).exists = s.exists
         /\ Executed(s, x).foreign = s.foreign
<1>1. CASE x.do \in {"create", "drop"}
  BY <1>1 DEF Executed, Schema, Statement
<1>2. CASE x.do = "column"
  <2>1. x.what \in Column
    BY <1>2 DEF Statement
  <2>2. Append(s.columns, x.what) \in Seq(Column)
    BY <2>1 DEF Schema
  <2>3. Executed(s, x) = [s EXCEPT !.columns = Append(@, x.what)]
    BY <1>2 DEF Executed
  <2> QED
    BY <2>2, <2>3 DEF Schema
<1>3. CASE x.do = "key"
  BY <1>3 DEF Executed, Schema
<1>4. CASE x.do = "insert"
  <2>1. x.what \in Nat
    BY <1>4 DEF Statement
  <2> QED
    BY <1>4, <2>1 DEF Executed, Schema
<1>5. CASE x.do = "update"
  <2>1. x.what \in Nat
    BY <1>5 DEF Statement
  <2> QED
    BY <1>5, <2>1 DEF Executed, Schema
<1>6. x.do \in {"create", "drop", "key", "column", "insert", "update", "validate"}
  BY DEF Statement
<1> QED
  BY <1>1, <1>2, <1>3, <1>4, <1>5, <1>6

-----------------------------------------------------------------------------
(* Initial states and steps.                                               *)

LEMMA InitInv == Init => MigrationInv
<1> SUFFICES ASSUME Init PROVE MigrationInv
  OBVIOUS
<1>1. schema \in Catalog
  BY FoundAssumption DEF Init
<1>2. \A c \in Client : pc[c] = "connecting"
  BY DEF Init
<1>3. Shape
  <2>1. schema \in Schema
    BY <1>1 DEF Catalog
  <2> QED
    BY <1>1, <2>1 DEF Init, Shape, Phase
<1> QED
  BY <1>2, <1>3 DEF MigrationInv, Holds, Bound, Founded, UpOnCurrent

\* Where schema and the lock stay, another store's step disturbs nothing.
LEMMA Others ==
  ASSUME MigrationInv, NEW c \in Client, NEW d \in Client, d # c,
         schema' = schema, holder' = holder \/ (holder = c /\ holder' = None)
           \/ (holder = None /\ holder' = c),
         pc'[d] = pc[d], view'[d] = view[d], todo'[d] = todo[d]
  PROVE  /\ Holds(d)' /\ Bound(d)' /\ Founded(d)'
         /\ pc'[d] = "up" => schema' = Released(SCHEMA_VERSION)
<1>1. Holds(d) /\ Bound(d) /\ Founded(d) /\ (pc[d] = "up" => schema = Released(SCHEMA_VERSION))
  BY DEF MigrationInv, UpOnCurrent
<1>2. Holds(d)'
  BY <1>1, NoneAssumption DEF Holds
<1>3. Bound(d)'
  BY <1>1 DEF Bound
<1>4. Founded(d)'
  BY <1>1 DEF Founded, Seen
<1> QED
  BY <1>1, <1>2, <1>3, <1>4

LEMMA LockInv ==
  ASSUME MigrationInv, NEW c \in Client, Lock(c)
  PROVE  MigrationInv'
<1> USE DEF Lock
<1>1. Shape'
  BY DEF MigrationInv, Shape, Phase
<1>2. \A d \in Client : pc'[d] = IF d = c THEN "inspecting" ELSE pc[d]
  BY DEF MigrationInv, Shape
<1>3. Holds(c)' /\ Bound(c)' /\ Founded(c)' /\ pc'[c] # "up"
  BY <1>2 DEF Holds, Bound, Founded
<1>4. \A d \in Client : d # c =>
        /\ Holds(d)' /\ Bound(d)' /\ Founded(d)'
        /\ pc'[d] = "up" => schema' = Released(SCHEMA_VERSION)
  BY <1>2, Others
<1> QED
  BY <1>1, <1>3, <1>4 DEF MigrationInv, UpOnCurrent

LEMMA RollbackInv ==
  ASSUME MigrationInv, NEW c \in Client, NEW then \in {"refused", "failed", "connecting"},
         Rollback(c, then)
  PROVE  MigrationInv' /\ schema' = schema
<1> USE DEF Rollback
<1>1. Shape'
  <2>1. schema \in Schema
    BY DEF MigrationInv, Shape, Catalog
  <2> QED
    BY <2>1 DEF MigrationInv, Shape, Phase
<1>2. \A d \in Client : /\ pc'[d] = (IF d = c THEN then ELSE pc[d])
                        /\ d # c => view'[d] = view[d] /\ todo'[d] = todo[d]
  BY DEF MigrationInv, Shape
<1>3. Holds(c)' /\ Bound(c)' /\ Founded(c)' /\ pc'[c] # "up"
  BY <1>2 DEF Holds, Bound, Founded
<1>4. \A d \in Client : d # c =>
        /\ Holds(d)' /\ Bound(d)' /\ Founded(d)'
        /\ pc'[d] = "up" => schema' = Released(SCHEMA_VERSION)
  BY <1>2, Others
<1> QED
  BY <1>1, <1>3, <1>4 DEF MigrationInv, UpOnCurrent

LEMMA InspectInv ==
  ASSUME MigrationInv, NEW c \in Client, Inspect(c)
  PROVE  MigrationInv' /\ schema' = schema
<1>1. CASE ~Recognized(Seen)
  BY <1>1, RollbackInv DEF Inspect
<1>2. CASE Recognized(Seen)
  <2>1. /\ pc' = [pc EXCEPT ![c] = "executing"]
        /\ view' = [view EXCEPT ![c] = Seen]
        /\ todo' = [todo EXCEPT ![c] = Script(Seen)]
        /\ UNCHANGED <<schema, stored, holder>>
        /\ pc[c] = "inspecting"
    BY <1>2 DEF Inspect
  <2>2. schema \in Catalog /\ Seen \in Schema /\ Seen.exists
    BY SeenIsSchema DEF MigrationInv, Shape
  <2>3. Seen.foreign \cap {"object", "relation"} = {}
    BY <1>2 DEF Recognized, NoRelations, SameRelations
  <2>4. /\ Script(Seen) \in Seq(Statement) /\ Last7(Script(Seen)) /\ Script(Seen) # <<>>
        /\ \/ schema \in Supported
           \/ \E v \in 1..SCHEMA_VERSION :
                Head(Script(Seen)) = Validate(v) /\ SameRelations(Seen, v)
    <3>1. CASE NoRelations(Seen)
      <4>1. schema \in Supported
        BY <1>2, <2>2, <3>1, NothingFound DEF Recognized
      <4>2. Script(Seen) = Create
        BY <3>1 DEF Script
      <4>3. Create # <<>>
        BY CreateScript DEF Last7
      <4> QED
        BY <4>1, <4>2, <4>3, CreateScript
    <3>2. CASE ~NoRelations(Seen)
      <4>1. PICK v \in 1..SCHEMA_VERSION : Seen.versions = {v} /\ SameRelations(Seen, v)
        BY <1>2, <3>2 DEF Recognized
      <4>2. Script(Seen) = <<Validate(v)>> \o Upgrades(v)
        BY <3>2, <4>1 DEF Script
      <4>3. <<Validate(v)>> \in Seq(Statement)
        BY EndStatements DEF SCHEMA_VERSION
      <4>4. Upgrades(v) \in Seq(Statement)
        BY UpgradesScript
      <4>5. Script(Seen) \in Seq(Statement) /\ Script(Seen) # <<>>
              /\ Head(Script(Seen)) = Validate(v)
        BY <4>2, <4>3, <4>4
      <4>6. Last7(Script(Seen))
        <5>1. CASE v < SCHEMA_VERSION
          <6>1. Last7(Upgrades(v))
            BY <5>1, UpgradesScript
          <6>2. Last7(<<Validate(v)>> \o Upgrades(v))
            BY <4>3, <4>4, <6>1, LastOfConcat
          <6> QED
            BY <4>2, <6>2
        <5>2. CASE v = SCHEMA_VERSION
          <6>1. Script(Seen) = <<Validate(SCHEMA_VERSION)>>
            <7>1. Upgrades(v) = <<>>
              BY <5>2, UpgradesScript
            <7>2. <<Validate(v)>> \o <<>> = <<Validate(v)>>
              BY <4>3
            <7> QED
              BY <4>2, <5>2, <7>1, <7>2
          <6> QED
            BY <6>1 DEF Last7
        <5> QED
          BY <5>1, <5>2 DEF SCHEMA_VERSION
      <4> QED
        BY <4>1, <4>5, <4>6
    <3> QED
      BY <3>1, <3>2
  <2>5. Shape'
    BY <2>1, <2>2, <2>4 DEF MigrationInv, Shape, Phase
  <2>6. \A d \in Client : /\ pc'[d] = (IF d = c THEN "executing" ELSE pc[d])
                          /\ view'[d] = (IF d = c THEN Seen ELSE view[d])
                          /\ todo'[d] = (IF d = c THEN Script(Seen) ELSE todo[d])
    BY <2>1 DEF MigrationInv, Shape
  <2>7. Holds(c)' /\ pc'[c] # "up"
    BY <2>1, <2>6 DEF MigrationInv, Holds
  <2>8. Bound(c)'
    BY <2>2, <2>3, <2>4, <2>6 DEF Bound
  <2>9. Founded(c)'
    <3>1. Seen' = Seen
      BY <2>1 DEF Seen
    <3> QED
      BY <2>1, <2>4, <2>6, <3>1 DEF Founded
  <2>10. \A d \in Client : d # c =>
        /\ Holds(d)' /\ Bound(d)' /\ Founded(d)'
        /\ pc'[d] = "up" => schema' = Released(SCHEMA_VERSION)
    BY <2>1, <2>6, Others
  <2> QED
    BY <2>1, <2>5, <2>7, <2>8, <2>9, <2>10 DEF MigrationInv, UpOnCurrent
<1> QED
  BY <1>1, <1>2

LEMMA ExecuteInv ==
  ASSUME MigrationInv, NEW c \in Client, Execute(c)
  PROVE  MigrationInv' /\ schema' = schema
<1> DEFINE x == Head(todo[c])
<1>1. /\ pc[c] = "executing" /\ todo[c] # <<>> /\ x \in Statement
      /\ todo[c] \in Seq(Statement) /\ view[c] \in Schema /\ Last7(todo[c])
      /\ view[c].exists /\ view[c].foreign \cap {"object", "relation"} = {}
  BY DEF Execute, MigrationInv, Shape, Bound
<1>2. CASE \E then \in {"refused", "failed"} : Rollback(c, then)
  BY <1>2, RollbackInv
<1>3. CASE /\ todo' = [todo EXCEPT ![c] = Tail(@)]
           /\ UNCHANGED <<schema, stored, holder, pc>>
           /\ \/ x.do = "validate" /\ Valid(view[c], x.what) /\ view' = view
              \/ x.do # "validate" /\ view' = [view EXCEPT ![c] = Executed(@, x)]
  <2>1. \A d \in Client : /\ pc'[d] = pc[d]
                          /\ todo'[d] = (IF d = c THEN Tail(todo[c]) ELSE todo[d])
                          /\ d # c => view'[d] = view[d]
    BY <1>3 DEF MigrationInv, Shape
  <2>2. /\ view'[c] \in Schema /\ view'[c].exists
        /\ view'[c].foreign \cap {"object", "relation"} = {}
    <3>1. CASE x.do = "validate"
      BY <1>1, <1>3, <3>1
    <3>2. CASE x.do # "validate"
      <4>1. view'[c] = Executed(view[c], x)
        BY <1>3, <3>2 DEF MigrationInv, Shape
      <4> QED
        BY <1>1, <3>2, <4>1, ExecutedSchema
    <3> QED
      BY <3>1, <3>2
  <2>3. Shape'
    <3>1. todo' \in [Client -> Seq(Statement)]
      BY <1>1, <1>3 DEF MigrationInv, Shape
    <3>2. view' \in [Client -> Schema]
      BY <1>1, <1>3, <2>2, ExecutedSchema DEF MigrationInv, Shape
    <3> QED
      BY <1>3, <3>1, <3>2 DEF MigrationInv, Shape
  <2>4. Holds(c)' /\ pc'[c] # "up"
    BY <1>1, <1>3, <2>1 DEF MigrationInv, Holds
  <2>5. Bound(c)'
    <3>1. CASE Tail(todo[c]) = <<>>
      <4>1. Len(todo[c]) = 1
        <5>1. Len(Tail(todo[c])) = Len(todo[c]) - 1
          BY <1>1
        <5>2. Len(Tail(todo[c])) = 0
          <6>1. Len(<<>>) = 0
            OBVIOUS
          <6> QED
            BY <3>1, <6>1
        <5>3. Len(todo[c]) \in Nat
          BY <1>1
        <5> QED
          BY <5>1, <5>2, <5>3
      <4>2. x = Validate(SCHEMA_VERSION)
        BY <1>1, <4>1 DEF Last7
      <4>3. x.do = "validate" /\ x.what = SCHEMA_VERSION
        BY <4>2 DEF Validate
      <4>4. Valid(view[c], SCHEMA_VERSION) /\ view'[c] = view[c]
        BY <1>3, <4>3
      <4>5. view[c] = Released(SCHEMA_VERSION)
        BY <1>1, <4>4, ValidIsReleased DEF SCHEMA_VERSION
      <4> QED
        BY <2>1, <2>2, <3>1, <4>4, <4>5 DEF Bound
    <3>2. CASE Tail(todo[c]) # <<>>
      <4>1. Last7(Tail(todo[c]))
        BY <1>1, <3>2 DEF Last7
      <4> QED
        BY <2>1, <2>2, <3>2, <4>1 DEF Bound
    <3> QED
      BY <3>1, <3>2
  <2>6. Founded(c)'
    <3>1. schema \in Supported
      <4>1. CASE \E v \in 1..SCHEMA_VERSION :
                   x = Validate(v) /\ view[c] = Seen /\ SameRelations(Seen, v)
        <5>1. PICK v \in 1..SCHEMA_VERSION :
                x = Validate(v) /\ view[c] = Seen /\ SameRelations(Seen, v)
          BY <4>1
        <5>2. x.do = "validate" /\ x.what = v
          BY <5>1 DEF Validate
        <5>3. Valid(Seen, v)
          BY <1>3, <5>1, <5>2
        <5>4. Seen = Released(v)
          BY <1>1, <5>1, <5>3, ValidIsReleased
        <5>5. Seen.tables # {}
          BY <5>1 DEF SameRelations, Tables
        <5>6. schema = Seen
          BY <5>5, SeenAsIs DEF MigrationInv, Shape
        <5> QED
          BY <5>4, <5>6 DEF Supported
      <4> QED
        BY <1>1, <4>1 DEF MigrationInv, Founded
    <3> QED
      BY <1>3, <3>1 DEF Founded
  <2>7. \A d \in Client : d # c =>
        /\ Holds(d)' /\ Bound(d)' /\ Founded(d)'
        /\ pc'[d] = "up" => schema' = Released(SCHEMA_VERSION)
    BY <1>3, <2>1, Others
  <2> QED
    BY <1>3, <2>3, <2>4, <2>5, <2>6, <2>7 DEF MigrationInv, UpOnCurrent
<1> QED
  BY <1>2, <1>3 DEF Execute

\* Both ways to commit.
Committed(c) ==
  /\ pc[c] = "executing"
  /\ todo[c] = <<>>
  /\ schema' = view[c]
  /\ holder' = None
  /\ \E then \in {"up", "connecting"} : pc' = [pc EXCEPT ![c] = then]
  /\ UNCHANGED <<stored, view, todo>>

LEMMA CommitInv ==
  ASSUME MigrationInv, NEW c \in Client, Committed(c)
  PROVE  MigrationInv' /\ schema \in Supported /\ schema' = Released(SCHEMA_VERSION)
<1>1. schema \in Supported
  BY DEF MigrationInv, Founded, Committed
<1>2. schema' = Released(SCHEMA_VERSION)
  BY DEF MigrationInv, Bound, Committed
<1>3. PICK then \in {"up", "connecting"} : pc' = [pc EXCEPT ![c] = then]
  BY DEF Committed
<1>4. Shape'
  BY <1>2, <1>3, CurrentInCatalog DEF Committed, MigrationInv, Shape, Phase
<1>5. \A d \in Client : pc'[d] = IF d = c THEN then ELSE pc[d]
  BY <1>3 DEF MigrationInv, Shape
<1>6. \A d \in Client : pc'[d] \notin {"inspecting", "executing"}
  BY <1>5 DEF MigrationInv, Holds, Committed
<1> QED
  BY <1>1, <1>2, <1>4, <1>6 DEF MigrationInv, Holds, Bound, Founded, UpOnCurrent

LEMMA InvStep ==
  ASSUME MigrationInv, [Next]_vars
  PROVE  /\ MigrationInv'
         /\ schema' # schema =>
              schema \in Supported /\ schema' = Released(SCHEMA_VERSION)
<1>1. CASE UNCHANGED vars
  BY <1>1 DEF vars, MigrationInv, Shape, Holds, Bound, Founded, UpOnCurrent, Seen
<1>2. ASSUME NEW c \in Client,
             Step(c) \/ CommitUnanswered(c) \/ Fault(c) \/ Use(c)
      PROVE  /\ MigrationInv'
             /\ schema' # schema =>
                  schema \in Supported /\ schema' = Released(SCHEMA_VERSION)
  <2>1. CASE Lock(c)
    BY <2>1, LockInv DEF Lock
  <2>2. CASE Inspect(c)
    BY <2>2, InspectInv
  <2>3. CASE Execute(c)
    BY <2>3, ExecuteInv
  <2>4. CASE Commit(c) \/ CommitUnanswered(c)
    <3>1. Committed(c)
      BY <2>4 DEF Commit, CommitUnanswered, Committed
    <3> QED
      BY <3>1, CommitInv
  <2>5. CASE Fault(c)
    BY <2>5, RollbackInv DEF Fault
  <2>6. CASE Use(c)
    BY <2>6 DEF Use, MigrationInv, Shape, Holds, Bound, Founded, UpOnCurrent, Seen
  <2> QED
    BY <1>2, <2>1, <2>2, <2>3, <2>4, <2>5, <2>6 DEF Step
<1> QED
  BY <1>1, <1>2 DEF Next

-----------------------------------------------------------------------------
(* No statement of a migration is rejected.                                *)

\* The statement x is accepted in the schema a, whether turns has rows or not, and makes it b.
Passes(a, x, b) ==
  IF x.do = "validate" THEN Valid(a, x.what) /\ b = a
  ELSE b = Executed(a, x) /\ \A filled \in BOOLEAN : Accepted(a, filled, x)

\* The script p is accepted statement by statement and makes the schema a the schema b.
Leads(a, p, b) ==
  \E t : /\ t[0] = a /\ t[Len(p)] = b
         /\ \A i \in 1 .. Len(p) : Passes(t[i - 1], p[i], t[i])

\* The empty script.
LEMMA NothingLeads == ASSUME NEW a PROVE Leads(a, <<>>, a)
<1> DEFINE t == [i \in {0} |-> a]
<1>1. Len(<<>>) = 0 /\ t[0] = a
  OBVIOUS
<1> HIDE DEF t
<1>2. \A i \in 1 .. 0 : FALSE
  OBVIOUS
<1> QED
  BY <1>1, <1>2 DEF Leads

\* One statement.
LEMMA OneLeads ==
  ASSUME NEW a, NEW x, NEW b, Passes(a, x, b)
  PROVE  Leads(a, <<x>>, b)
<1> DEFINE t == [i \in 0 .. 1 |-> IF i = 0 THEN a ELSE b]
<1>1. Len(<<x>>) = 1 /\ <<x>>[1] = x /\ t[0] = a /\ t[1] = b
  OBVIOUS
<1> HIDE DEF t
<1>2. \A i \in 1 .. 1 : i = 1 /\ i - 1 = 0
  OBVIOUS
<1> QED
  BY <1>1, <1>2 DEF Leads

\* One script after the other.
LEMMA ThenLeads ==
  ASSUME NEW p \in Seq(Statement), NEW q \in Seq(Statement), NEW a, NEW b, NEW c,
         Leads(a, p, b), Leads(b, q, c)
  PROVE  Leads(a, p \o q, c)
<1>1. PICK t : /\ t[0] = a /\ t[Len(p)] = b
               /\ \A i \in 1 .. Len(p) : Passes(t[i - 1], p[i], t[i])
  BY DEF Leads
<1>2. PICK u : /\ u[0] = b /\ u[Len(q)] = c
               /\ \A i \in 1 .. Len(q) : Passes(u[i - 1], q[i], u[i])
  BY DEF Leads
<1> DEFINE m == Len(p)
           n == Len(q)
           r == p \o q
           w == [i \in 0 .. m + n |-> IF i <= m THEN t[i] ELSE u[i - m]]
<1>3. /\ m \in Nat /\ n \in Nat /\ Len(r) = m + n
      /\ \A i \in 1 .. m : r[i] = p[i]
      /\ \A i \in 1 .. n : r[m + i] = q[i]
  OBVIOUS
<1> HIDE DEF m, n, r
<1>4. w[0] = a /\ w[m + n] = c
  <2>1. w[0] = a
    BY <1>1, <1>3
  <2>2. CASE n = 0
    BY <1>1, <1>2, <1>3, <2>2 DEF m, n
  <2>3. CASE n > 0
    <3>1. m + n \in 0 .. m + n /\ ~(m + n <= m) /\ (m + n) - m = n
      BY <1>3, <2>3
    <3>2. w[m + n] = u[n]
      BY <3>1
    <3>3. u[n] = c
      BY <1>2 DEF n
    <3> HIDE DEF w
    <3> QED
      BY <2>1, <3>2, <3>3
  <2> QED
    BY <1>3, <2>1, <2>2, <2>3
<1>5. ASSUME NEW i \in 1 .. m + n
      PROVE  Passes(w[i - 1], r[i], w[i])
  <2>1. CASE i <= m
    <3>1. i \in 1 .. m /\ w[i] = t[i] /\ w[i - 1] = t[i - 1] /\ r[i] = p[i]
      BY <1>3, <2>1
    <3> QED
      BY <1>1, <3>1 DEF m
  <2>2. CASE i > m
    <3> DEFINE j == i - m
    <3>1. j \in 1 .. n /\ m + j = i /\ i - 1 \in 0 .. m + n /\ (i - 1) - m = j - 1
      BY <1>3, <2>2
    <3>2. w[i] = u[j] /\ r[i] = q[j]
      BY <1>3, <2>2, <3>1
    <3>3. w[i - 1] = u[j - 1]
      <4>1. CASE i - 1 <= m
        <5>1. i - 1 = m /\ j - 1 = 0
          BY <1>3, <2>2, <4>1
        <5> QED
          BY <1>1, <1>2, <1>3, <5>1 DEF m
      <4>2. CASE i - 1 > m
        BY <1>3, <3>1, <4>2
      <4> QED
        BY <1>3, <4>1, <4>2
    <3> HIDE DEF w, j
    <3> QED
      BY <1>2, <3>1, <3>2, <3>3 DEF n
  <2> QED
    BY <1>3, <2>1, <2>2
<1> HIDE DEF w
<1> QED
  BY <1>3, <1>4, <1>5 DEF Leads, r

\* The first statement of a script, and the rest of it.
LEMMA FirstPasses ==
  ASSUME NEW p \in Seq(Statement), p # <<>>, NEW a, NEW c, Leads(a, p, c)
  PROVE  \E b : Passes(a, Head(p), b) /\ Leads(b, Tail(p), c)
<1>1. PICK t : /\ t[0] = a /\ t[Len(p)] = c
               /\ \A i \in 1 .. Len(p) : Passes(t[i - 1], p[i], t[i])
  BY DEF Leads
<1> DEFINE n == Len(p)
           r == Tail(p)
           u == [i \in 0 .. n - 1 |-> t[i + 1]]
<1>2. /\ n \in Nat /\ n >= 1 /\ Head(p) = p[1] /\ Len(r) = n - 1
      /\ \A i \in 1 .. n - 1 : r[i] = p[i + 1]
  OBVIOUS
<1> HIDE DEF n, r
<1>3. Passes(a, Head(p), t[1])
  <2>1. 1 \in 1 .. n /\ 1 - 1 = 0
    BY <1>2
  <2> QED
    BY <1>1, <1>2, <2>1 DEF n
<1>4. u[0] = t[1] /\ u[n - 1] = c
  BY <1>1, <1>2 DEF n
<1>5. ASSUME NEW i \in 1 .. n - 1
      PROVE  Passes(u[i - 1], r[i], u[i])
  <2>1. i + 1 \in 1 .. n /\ (i + 1) - 1 = i /\ i - 1 \in 0 .. n - 1 /\ (i - 1) + 1 = i
        /\ i \in 0 .. n - 1
    BY <1>2
  <2>2. u[i - 1] = t[i] /\ u[i] = t[i + 1] /\ r[i] = p[i + 1]
    BY <1>2, <2>1
  <2> HIDE DEF u
  <2> QED
    BY <1>1, <2>1, <2>2 DEF n
<1> HIDE DEF u
<1>6. Leads(t[1], r, c)
  BY <1>2, <1>4, <1>5 DEF Leads
<1> QED
  BY <1>3, <1>6 DEF r

\* One statement more.
LEMMA MoreLeads ==
  ASSUME NEW p \in Seq(Statement), NEW x \in Statement, NEW a, NEW b, NEW c,
         Leads(a, p, b), Passes(b, x, c)
  PROVE  Leads(a, Append(p, x), c)
<1>1. Leads(b, <<x>>, c)
  BY OneLeads
<1>2. <<x>> \in Seq(Statement)
  OBVIOUS
<1>3. Leads(a, p \o <<x>>, c)
  BY <1>1, <1>2, ThenLeads
<1>4. p \o <<x>> = Append(p, x)
  OBVIOUS
<1> QED
  BY <1>3, <1>4

-----------------------------------------------------------------------------
(* The scripts of initialize on what a release left.                       *)

LEMMA Pairs ==
  ASSUME NEW x, NEW y
  PROVE  Append(<<x>>, y) = <<x, y>> /\ <<x>> \o <<y>> = <<x, y>>
<1> DEFINE one == Append(<<x>>, y)
           two == <<x>> \o <<y>>
<1>1. <<x>> \in Seq({x, y}) /\ <<y>> \in Seq({x, y}) /\ <<x, y>> \in Seq({x, y})
  OBVIOUS
<1>2. one \in Seq({x, y}) /\ Len(one) = 2 /\ one[1] = x /\ one[2] = y
  BY <1>1, AppendProperties
<1>3. two \in Seq({x, y}) /\ Len(two) = 2 /\ two[1] = x /\ two[2] = y
  BY <1>1, ConcatProperties
<1>4. Len(<<x, y>>) = 2 /\ <<x, y>>[1] = x /\ <<x, y>>[2] = y
  OBVIOUS
<1>5. \A i \in 1 .. 2 : i = 1 \/ i = 2
  OBVIOUS
<1> HIDE DEF one, two
<1>6. one = <<x, y>>
  BY <1>1, <1>2, <1>4, <1>5, SeqEqual
<1>7. two = <<x, y>>
  BY <1>1, <1>3, <1>4, <1>5, SeqEqual
<1> QED
  BY <1>6, <1>7 DEF one, two

LEMMA Triples ==
  ASSUME NEW x, NEW y, NEW z
  PROVE  <<x, y>> \o <<z>> = <<x, y, z>> /\ Append(<<x, y>>, z) = <<x, y, z>>
<1> DEFINE one == Append(<<x, y>>, z)
           two == <<x, y>> \o <<z>>
           S == {x, y, z}
<1>1. <<x, y>> \in Seq(S) /\ <<z>> \in Seq(S) /\ <<x, y, z>> \in Seq(S)
  OBVIOUS
<1>2. one \in Seq(S) /\ Len(one) = 3 /\ one[1] = x /\ one[2] = y /\ one[3] = z
  BY <1>1, AppendProperties
<1>3. two \in Seq(S) /\ Len(two) = 3 /\ two[1] = x /\ two[2] = y /\ two[3] = z
  BY <1>1, ConcatProperties
<1>4. /\ Len(<<x, y, z>>) = 3 /\ <<x, y, z>>[1] = x /\ <<x, y, z>>[2] = y
      /\ <<x, y, z>>[3] = z
  OBVIOUS
<1>5. \A i \in 1 .. 3 : i = 1 \/ i = 2 \/ i = 3
  OBVIOUS
<1> HIDE DEF one, two, S
<1>6. one = <<x, y, z>>
  BY <1>1, <1>2, <1>4, <1>5, SeqEqual
<1>7. two = <<x, y, z>>
  BY <1>1, <1>3, <1>4, <1>5, SeqEqual
<1> QED
  BY <1>6, <1>7 DEF one, two

LEMMA ColumnsAre ==
  /\ TurnColumns(1) = <<>>
  /\ TurnColumns(2) = <<"stated_at">>
  /\ \A v \in 3 .. 6 : TurnColumns(v) = <<"stated_at", "memory_confirmation">>
  /\ TurnColumns(7) = <<"stated_at", "memory_confirmation", "card_sha256">>
<1>1. TurnColumns(1) = (<<>> \o <<>>) \o <<>>
  BY DEF TurnColumns
<1>2. TurnColumns(2) = (<<"stated_at">> \o <<>>) \o <<>>
  BY DEF TurnColumns
<1>3. \A v \in 3 .. 6 :
        TurnColumns(v) = (<<"stated_at">> \o <<"memory_confirmation">>) \o <<>>
  BY DEF TurnColumns
<1>4. TurnColumns(7) = (<<"stated_at">> \o <<"memory_confirmation">>) \o <<"card_sha256">>
  BY DEF TurnColumns
<1>5. <<"stated_at">> \o <<"memory_confirmation">> = <<"stated_at", "memory_confirmation">>
  BY Pairs
<1>6. <<"stated_at", "memory_confirmation">> \o <<"card_sha256">>
        = <<"stated_at", "memory_confirmation", "card_sha256">>
  BY Triples
<1>7. <<>> \o <<>> = <<>> /\ <<"stated_at">> \o <<>> = <<"stated_at">>
  OBVIOUS
<1>8. <<"stated_at", "memory_confirmation">> \o <<>> = <<"stated_at", "memory_confirmation">>
  OBVIOUS
<1> QED
  BY <1>1, <1>2, <1>3, <1>4, <1>5, <1>6, <1>7, <1>8


\* A schema with these tables, columns, key and versions, and nothing foreign.
Made(tables, columns, keyed, versions) ==
  [exists |-> TRUE, tables |-> tables, columns |-> columns,
   keyed |-> keyed, versions |-> versions, foreign |-> {}]

LEMMA MadeParts ==
  ASSUME NEW T, NEW C, NEW K, NEW V
  PROVE  /\ Made(T, C, K, V).tables = T
         /\ Made(T, C, K, V).columns = C
         /\ Made(T, C, K, V).keyed = K
         /\ Made(T, C, K, V).versions = V
BY DEF Made

\* The records that Made can be.
Only(T, C, K, V) ==
  [exists : {TRUE}, tables : {T}, columns : {C}, keyed : {K}, versions : {V}, foreign : {{}}]

LEMMA OnlyMade ==
  ASSUME NEW T, NEW C, NEW K, NEW V, NEW s \in Only(T, C, K, V)
  PROVE  s = Made(T, C, K, V)
BY DEF Made, Only

LEMMA MadeTables ==
  ASSUME NEW T, NEW C, NEW K, NEW V, NEW new
  PROVE  [Made(T, C, K, V) EXCEPT !.tables = new] = Made(new, C, K, V)
<1>1. Made(T, C, K, V) \in Only(T, C, K, V)
  BY DEF Made, Only
<1>2. [Made(T, C, K, V) EXCEPT !.tables = new] \in Only(new, C, K, V)
  BY <1>1 DEF Only
<1> QED
  BY <1>2, OnlyMade

LEMMA MadeColumns ==
  ASSUME NEW T, NEW C, NEW K, NEW V, NEW new
  PROVE  [Made(T, C, K, V) EXCEPT !.columns = new] = Made(T, new, K, V)
<1>1. Made(T, C, K, V) \in Only(T, C, K, V)
  BY DEF Made, Only
<1>2. [Made(T, C, K, V) EXCEPT !.columns = new] \in Only(T, new, K, V)
  BY <1>1 DEF Only
<1> QED
  BY <1>2, OnlyMade

LEMMA MadeKeyed ==
  ASSUME NEW T, NEW C, NEW K, NEW V, NEW new
  PROVE  [Made(T, C, K, V) EXCEPT !.keyed = new] = Made(T, C, new, V)
<1>1. Made(T, C, K, V) \in Only(T, C, K, V)
  BY DEF Made, Only
<1>2. [Made(T, C, K, V) EXCEPT !.keyed = new] \in Only(T, C, new, V)
  BY <1>1 DEF Only
<1> QED
  BY <1>2, OnlyMade

LEMMA MadeVersions ==
  ASSUME NEW T, NEW C, NEW K, NEW V, NEW new
  PROVE  [Made(T, C, K, V) EXCEPT !.versions = new] = Made(T, C, K, new)
<1>1. Made(T, C, K, V) \in Only(T, C, K, V)
  BY DEF Made, Only
<1>2. [Made(T, C, K, V) EXCEPT !.versions = new] \in Only(T, C, K, new)
  BY <1>1 DEF Only
<1> QED
  BY <1>2, OnlyMade

LEMMA ReleasedIsMade ==
  ASSUME NEW v
  PROVE  Released(v) = Made(Tables(v), TurnColumns(v), Keyed(v), {v})
BY DEF Released, Made

\* What the statements do.
LEMMA CreateExecuted ==
  ASSUME NEW T, NEW C, NEW K, NEW V, NEW what
  PROVE  Executed(Made(T, C, K, V), CreateTable(what)) = Made(T \cup {what}, C, K, V)
<1>1. CreateTable(what).do = "create" /\ CreateTable(what).what = what
  BY DEF CreateTable
<1>2. Made(T, C, K, V).tables = T
  BY MadeParts
<1>3. Executed(Made(T, C, K, V), CreateTable(what)) = [Made(T, C, K, V) EXCEPT !.tables = T \cup {what}]
  BY <1>1, <1>2 DEF Executed
<1> QED
  BY <1>3, MadeTables

LEMMA DropExecuted ==
  ASSUME NEW T, NEW C, NEW K, NEW V, NEW what
  PROVE  Executed(Made(T, C, K, V), DropTable(what)) = Made(T \ {what}, C, K, V)
<1>1. DropTable(what).do = "drop" /\ DropTable(what).what = what
  BY DEF DropTable
<1>2. Made(T, C, K, V).tables = T
  BY MadeParts
<1>3. Executed(Made(T, C, K, V), DropTable(what)) = [Made(T, C, K, V) EXCEPT !.tables = T \ {what}]
  BY <1>1, <1>2 DEF Executed
<1> QED
  BY <1>3, MadeTables

LEMMA ColumnExecuted ==
  ASSUME NEW T, NEW C, NEW K, NEW V, NEW what
  PROVE  Executed(Made(T, C, K, V), AddColumn(what)) = Made(T, Append(C, what), K, V)
<1>1. AddColumn(what).do = "column" /\ AddColumn(what).what = what
  BY DEF AddColumn
<1>2. Made(T, C, K, V).columns = C
  BY MadeParts
<1>3. Executed(Made(T, C, K, V), AddColumn(what)) = [Made(T, C, K, V) EXCEPT !.columns = Append(C, what)]
  BY <1>1, <1>2 DEF Executed
<1> DEFINE new == Append(C, what)
<1> HIDE DEF new
<1>4. [Made(T, C, K, V) EXCEPT !.columns = new] = Made(T, new, K, V)
  BY MadeColumns
<1> QED
  BY <1>3, <1>4 DEF new

LEMMA KeyExecuted ==
  ASSUME NEW T, NEW C, NEW K, NEW V
  PROVE  Executed(Made(T, C, K, V), AddKey) = Made(T, C, TRUE, V)
<1>1. AddKey.do = "key" /\ AddKey.what = "memory_events"
  BY DEF AddKey
<1>2. Made(T, C, K, V).keyed = K
  BY MadeParts
<1>3. Executed(Made(T, C, K, V), AddKey) = [Made(T, C, K, V) EXCEPT !.keyed = TRUE]
  BY <1>1, <1>2 DEF Executed
<1> DEFINE new == TRUE
<1> HIDE DEF new
<1>4. [Made(T, C, K, V) EXCEPT !.keyed = new] = Made(T, C, new, V)
  BY MadeKeyed
<1> QED
  BY <1>3, <1>4 DEF new

LEMMA UpdateExecuted ==
  ASSUME NEW T, NEW C, NEW K, NEW V, NEW what
  PROVE  Executed(Made(T, C, K, V), Update(what)) = Made(T, C, K, {what})
<1>1. Update(what).do = "update" /\ Update(what).what = what
  BY DEF Update
<1>2. Made(T, C, K, V).versions = V
  BY MadeParts
<1>3. Executed(Made(T, C, K, V), Update(what)) = [Made(T, C, K, V) EXCEPT !.versions = {what}]
  BY <1>1, <1>2 DEF Executed
<1> QED
  BY <1>3, MadeVersions

LEMMA InsertExecuted ==
  ASSUME NEW T, NEW C, NEW K, NEW V, NEW what
  PROVE  Executed(Made(T, C, K, V), Insert(what)) = Made(T, C, K, V \cup {what})
<1>1. Insert(what).do = "insert" /\ Insert(what).what = what
  BY DEF Insert
<1>2. Made(T, C, K, V).versions = V
  BY MadeParts
<1>3. Executed(Made(T, C, K, V), Insert(what)) = [Made(T, C, K, V) EXCEPT !.versions = V \cup {what}]
  BY <1>1, <1>2 DEF Executed
<1> DEFINE new == V \cup {what}
<1> HIDE DEF new
<1>4. [Made(T, C, K, V) EXCEPT !.versions = new] = Made(T, C, K, new)
  BY MadeVersions
<1> QED
  BY <1>3, <1>4 DEF new

\* What they ask for.
LEMMA CreatePasses ==
  ASSUME NEW T, NEW C, NEW K, NEW V, NEW table, table \notin T, References(table) \subseteq T,
         table = "memory_event_records" => K
  PROVE  Passes(Made(T, C, K, V), CreateTable(table), Made(T \cup {table}, C, K, V))
<1> DEFINE s == Made(T, C, K, V)
           x == CreateTable(table)
<1>1. s.tables = T /\ s.columns = C /\ s.keyed = K
  BY MadeParts
<1>2. x.do = "create" /\ x.what = table
  BY DEF CreateTable
<1>3. Executed(s, x) = Made(T \cup {table}, C, K, V)
  BY CreateExecuted
<1>4. \A filled \in BOOLEAN : Accepted(s, filled, x)
  <2> HIDE DEF s, x
  <2> QED
    BY <1>1, <1>2 DEF Accepted
<1> HIDE DEF s, x
<1> QED
  BY <1>2, <1>3, <1>4 DEF Passes, s, x

LEMMA DropPasses ==
  ASSUME NEW T, NEW C, NEW K, NEW V, NEW table \in T,
         \A other \in T \ {table} : table \notin References(other)
  PROVE  Passes(Made(T, C, K, V), DropTable(table), Made(T \ {table}, C, K, V))
<1> DEFINE s == Made(T, C, K, V)
           x == DropTable(table)
<1>1. s.tables = T /\ s.columns = C /\ s.keyed = K
  BY MadeParts
<1>2. x.do = "drop" /\ x.what = table
  BY DEF DropTable
<1>3. Executed(s, x) = Made(T \ {table}, C, K, V)
  BY DropExecuted
<1>4. \A filled \in BOOLEAN : Accepted(s, filled, x)
  <2> HIDE DEF s, x
  <2> QED
    BY <1>1, <1>2 DEF Accepted
<1> HIDE DEF s, x
<1> QED
  BY <1>2, <1>3, <1>4 DEF Passes, s, x

LEMMA ColumnPasses ==
  ASSUME NEW T, NEW C, NEW K, NEW V, NEW column, "turns" \in T,
         \A i \in DOMAIN C : C[i] # column
  PROVE  Passes(Made(T, C, K, V), AddColumn(column), Made(T, Append(C, column), K, V))
<1> DEFINE s == Made(T, C, K, V)
           x == AddColumn(column)
<1>1. s.tables = T /\ s.columns = C /\ s.keyed = K
  BY MadeParts
<1>2. x.do = "column" /\ x.what = column
  BY DEF AddColumn
<1>3. Executed(s, x) = Made(T, Append(C, column), K, V)
  BY ColumnExecuted
<1>4. \A filled \in BOOLEAN : Accepted(s, filled, x)
  <2> HIDE DEF s, x
  <2> QED
    BY <1>1, <1>2 DEF Accepted, Demanding
<1> HIDE DEF s, x
<1> QED
  BY <1>2, <1>3, <1>4 DEF Passes, s, x

LEMMA KeyPasses ==
  ASSUME NEW T, NEW C, NEW V, "memory_events" \in T
  PROVE  Passes(Made(T, C, FALSE, V), AddKey, Made(T, C, TRUE, V))
<1> DEFINE s == Made(T, C, FALSE, V)
           x == AddKey
<1>1. s.tables = T /\ s.columns = C /\ s.keyed = FALSE
  BY DEF Made
<1>2. x.do = "key" /\ x.what = "memory_events"
  BY DEF AddKey
<1>3. Executed(s, x) = Made(T, C, TRUE, V)
  BY KeyExecuted
<1>4. \A filled \in BOOLEAN : Accepted(s, filled, x)
  <2> HIDE DEF s, x
  <2> QED
    BY <1>1, <1>2 DEF Accepted
<1> HIDE DEF s, x
<1> QED
  BY <1>2, <1>3, <1>4 DEF Passes, s, x

LEMMA UpdatePasses ==
  ASSUME NEW T, NEW C, NEW K, NEW V, NEW v, "schema_version" \in T
  PROVE  Passes(Made(T, C, K, V), Update(v), Made(T, C, K, {v}))
<1> DEFINE s == Made(T, C, K, V)
           x == Update(v)
<1>1. s.tables = T /\ s.columns = C /\ s.keyed = K
  BY MadeParts
<1>2. x.do = "update" /\ x.what = v
  BY DEF Update
<1>3. Executed(s, x) = Made(T, C, K, {v})
  BY UpdateExecuted
<1>4. \A filled \in BOOLEAN : Accepted(s, filled, x)
  <2> HIDE DEF s, x
  <2> QED
    BY <1>1, <1>2 DEF Accepted
<1> HIDE DEF s, x
<1> QED
  BY <1>2, <1>3, <1>4 DEF Passes, s, x

LEMMA InsertPasses ==
  ASSUME NEW T, NEW C, NEW K, NEW V, NEW v, "schema_version" \in T
  PROVE  Passes(Made(T, C, K, V), Insert(v), Made(T, C, K, V \cup {v}))
<1> DEFINE s == Made(T, C, K, V)
           x == Insert(v)
<1>1. s.tables = T /\ s.columns = C /\ s.keyed = K
  BY MadeParts
<1>2. x.do = "insert" /\ x.what = v
  BY DEF Insert
<1>3. Executed(s, x) = Made(T, C, K, V \cup {v})
  BY InsertExecuted
<1>4. \A filled \in BOOLEAN : Accepted(s, filled, x)
  <2> HIDE DEF s, x
  <2> QED
    BY <1>1, <1>2 DEF Accepted
<1> HIDE DEF s, x
<1> QED
  BY <1>2, <1>3, <1>4 DEF Passes, s, x

\* What has the parts of a released schema is valid.
LEMMA ValidatePasses ==
  ASSUME NEW v
  PROVE  Passes(Released(v), Validate(v), Released(v))
BY DEF Passes, Validate, Valid, Released

\* schema_version names the new version, and what the script made is validated.
LEMMA EndLeads ==
  ASSUME NEW v \in Nat, NEW V
  PROVE  Leads(Made(Tables(v), TurnColumns(v), Keyed(v), V), <<Update(v), Validate(v)>>,
               Released(v))
<1> DEFINE s == Made(Tables(v), TurnColumns(v), Keyed(v), V)
           x == Update(v)
<1>1. "schema_version" \in Tables(v)
  BY DEF Tables
<1>2. Passes(s, x, Released(v))
  BY <1>1, UpdatePasses, ReleasedIsMade
<1>3. <<x>> \in Seq(Statement) /\ x \in Statement /\ Validate(v) \in Statement
  BY Kinds
<1> HIDE DEF s, x
<1>4. Leads(s, <<x>>, Released(v))
  BY <1>2, OneLeads
<1>5. Leads(s, Append(<<x>>, Validate(v)), Released(v))
  BY <1>3, <1>4, ValidatePasses, MoreLeads
<1>6. Append(<<x>>, Validate(v)) = <<x, Validate(v)>>
  BY Pairs
<1> QED
  BY <1>5, <1>6 DEF s, x

LEMMA DeletionLeads ==
  ASSUME NEW T, NEW C, NEW K, NEW V, "conversations" \in T, T \cap DeletionTables = {}
  PROVE  Leads(Made(T, C, K, V), TurnDeletionDDL, Made(T \cup DeletionTables, C, K, V))
<1> DEFINE U == T \cup {"turn_tombstones"}
           A == CreateTable("turn_tombstones")
           B == CreateTable("turn_deletions")
<1>1. Passes(Made(T, C, K, V), A, Made(U, C, K, V))
  <2>1. References("turn_tombstones") = {"conversations"}
    BY DEF References
  <2> QED
    BY <2>1, CreatePasses DEF DeletionTables
<1>2. Passes(Made(U, C, K, V), B, Made(U \cup {"turn_deletions"}, C, K, V))
  <2>1. References("turn_deletions") = {}
    BY DEF References, RecordReferences
  <2>2. "turn_deletions" \notin U
    BY DEF DeletionTables
  <2> QED
    BY <2>1, <2>2, CreatePasses
<1>3. U \cup {"turn_deletions"} = T \cup DeletionTables
  BY DEF DeletionTables
<1>4. A \in Statement /\ B \in Statement
  BY Kinds, Names DEF DeletionTables
<1>5. TurnDeletionDDL = <<A, B>>
  BY DEF TurnDeletionDDL
<1> HIDE DEF U, A, B
<1>6. Leads(Made(T, C, K, V), <<A>>, Made(U, C, K, V))
  BY <1>1, OneLeads
<1>7. Leads(Made(T, C, K, V), Append(<<A>>, B), Made(T \cup DeletionTables, C, K, V))
  <2>1. <<A>> \in Seq(Statement)
    BY <1>4
  <2> QED
    BY <1>2, <1>3, <1>4, <1>6, <2>1, MoreLeads
<1> QED
  BY <1>5, <1>7, Pairs

\* The first n record tables.
Records(n) == {RecordTables[i] : i \in 1 .. n}

\* A record table refers to tables before it in the list, and to memory_events.
LEMMA RecordOrder ==
  \A n \in 1 .. 9 :
    /\ References(RecordTables[n]) \subseteq
         {"memory_events"} \cup {RecordTables[i] : i \in 1 .. n - 1}
    /\ \A i \in 1 .. n - 1 : RecordTables[i] # RecordTables[n]
<1> SUFFICES ASSUME NEW n \in 1 .. 9
             PROVE /\ References(RecordTables[n]) \subseteq
                        {"memory_events"} \cup {RecordTables[i] : i \in 1 .. n - 1}
                   /\ \A i \in 1 .. n - 1 : RecordTables[i] # RecordTables[n]
  OBVIOUS
<1>1. /\ RecordTables[1] = "memory_episodes" /\ RecordTables[2] = "memory_facts"
      /\ RecordTables[3] = "memory_fact_versions" /\ RecordTables[4] = "memory_semantics"
      /\ RecordTables[5] = "memory_episode_fact_links"
      /\ RecordTables[6] = "memory_semantic_episodes"
      /\ RecordTables[7] = "memory_record_citations"
      /\ RecordTables[8] = "memory_event_records"
      /\ RecordTables[9] = "memory_record_registrations"
  BY DEF RecordTables
<1>2. n \in {1, 2, 3, 4, 5, 6, 7, 8, 9}
  OBVIOUS
<1>3. \A i \in 1 .. n - 1 : i \in {1, 2, 3, 4, 5, 6, 7, 8, 9} /\ i # n
  OBVIOUS
<1>4. \A i \in 1 .. n - 1 : RecordTables[i] # RecordTables[n]
  BY <1>1, <1>2, <1>3
<1>5. CASE n \in {1, 2, 4, 9}
  BY <1>1, <1>5 DEF References, RecordReferences
<1>6. CASE n = 3
  <2>1. References(RecordTables[3]) = {RecordTables[2]}
    BY <1>1 DEF References, RecordReferences
  <2>2. 2 \in 1 .. n - 1
    BY <1>6
  <2> QED
    BY <1>4, <1>6, <2>1, <2>2
<1>7. CASE n = 5
  <2>1. References(RecordTables[5]) = {RecordTables[1], RecordTables[3]}
    BY <1>1 DEF References, RecordReferences
  <2>2. 1 \in 1 .. n - 1 /\ 3 \in 1 .. n - 1
    BY <1>7
  <2> QED
    BY <1>4, <1>7, <2>1, <2>2
<1>8. CASE n = 6
  <2>1. References(RecordTables[6]) = {RecordTables[4], RecordTables[1]}
    BY <1>1 DEF References, RecordReferences
  <2>2. 1 \in 1 .. n - 1 /\ 4 \in 1 .. n - 1
    BY <1>8
  <2> QED
    BY <1>4, <1>8, <2>1, <2>2
<1>9. CASE n = 7
  <2>1. References(RecordTables[7]) = {RecordTables[1], RecordTables[3], RecordTables[4]}
    BY <1>1 DEF References, RecordReferences, Owners
  <2>2. 1 \in 1 .. n - 1 /\ 3 \in 1 .. n - 1 /\ 4 \in 1 .. n - 1
    BY <1>9
  <2> QED
    BY <1>4, <1>9, <2>1, <2>2
<1>10. CASE n = 8
  <2>1. References(RecordTables[8]) =
          {RecordTables[1], RecordTables[3], RecordTables[4], RecordTables[5], "memory_events"}
    BY <1>1 DEF References, RecordReferences, Owners
  <2>2. 1 \in 1 .. n - 1 /\ 3 \in 1 .. n - 1 /\ 4 \in 1 .. n - 1 /\ 5 \in 1 .. n - 1
    BY <1>10
  <2> QED
    BY <1>4, <1>10, <2>1, <2>2
<1> QED
  BY <1>2, <1>4, <1>5, <1>6, <1>7, <1>8, <1>9, <1>10

LEMMA RecordLeads ==
  ASSUME NEW T, NEW C, NEW V, "memory_events" \in T, T \cap Records(9) = {}
  PROVE  Leads(Made(T, C, FALSE, V), RecordDDL, Made(T \cup Records(9), C, TRUE, V))
<1> DEFINE rest == [i \in DOMAIN RecordTables |-> CreateTable(RecordTables[i])]
           s(i) == Made(T \cup Records(i), C, TRUE, V)
           t == [i \in 0 .. 9 |-> s(i)]
<1>1. DOMAIN RecordTables = 1 .. 9 /\ \A i \in 1 .. 9 : RecordTables[i] \in Table
  BY Names DEF RecordTables
<1>2. Leads(Made(T, C, FALSE, V), <<AddKey>>, s(0))
  <2>1. Records(0) = {}
    BY DEF Records
  <2>2. T \cup Records(0) = T
    BY <2>1
  <2>3. Passes(Made(T, C, FALSE, V), AddKey, s(0))
    BY <2>2, KeyPasses
  <2> HIDE DEF s
  <2> QED
    BY <2>3, OneLeads
<1>3. ASSUME NEW n \in 1 .. 9
      PROVE  Passes(s(n - 1), CreateTable(RecordTables[n]), s(n))
  <2>1. Records(n) = Records(n - 1) \cup {RecordTables[n]}
    <3>1. 1 .. n = (1 .. n - 1) \cup {n}
      OBVIOUS
    <3> QED
      BY <3>1 DEF Records
  <2>2. RecordTables[n] \notin T \cup Records(n - 1)
    <3>1. RecordTables[n] \in Records(9)
      BY DEF Records
    <3>2. RecordTables[n] \notin Records(n - 1)
      BY RecordOrder DEF Records
    <3> QED
      BY <3>1, <3>2
  <2>3. References(RecordTables[n]) \subseteq T \cup Records(n - 1)
    BY RecordOrder DEF Records
  <2>4. Passes(Made(T \cup Records(n - 1), C, TRUE, V), CreateTable(RecordTables[n]),
               Made((T \cup Records(n - 1)) \cup {RecordTables[n]}, C, TRUE, V))
    BY <2>2, <2>3, CreatePasses
  <2>5. (T \cup Records(n - 1)) \cup {RecordTables[n]} = T \cup Records(n)
    BY <2>1
  <2> QED
    BY <2>4, <2>5
<1>4. Leads(s(0), rest, s(9))
  <2>1. Len(rest) = 9 /\ \A i \in 1 .. 9 : rest[i] = CreateTable(RecordTables[i])
    BY <1>1
  <2>2. \A i \in 1 .. 9 : i - 1 \in 0 .. 9 /\ i \in 0 .. 9
    OBVIOUS
  <2> HIDE DEF s
  <2>3. \A i \in 0 .. 9 : t[i] = s(i)
    OBVIOUS
  <2> HIDE DEF rest, t
  <2>4. \A i \in 1 .. 9 : Passes(t[i - 1], rest[i], t[i])
    BY <1>3, <2>1, <2>2, <2>3
  <2>5. t[0] = s(0) /\ t[9] = s(9)
    BY <2>3
  <2> QED
    BY <2>1, <2>4, <2>5 DEF Leads
<1>5. <<AddKey>> \in Seq(Statement)
  BY Kinds
<1>6. rest \in Seq(Statement)
  <2>1. \A i \in 1 .. 9 : CreateTable(RecordTables[i]) \in Statement
    BY <1>1, Kinds
  <2> QED
    BY <1>1, <2>1
<1>7. RecordDDL = <<AddKey>> \o rest
  BY DEF RecordDDL
<1> HIDE DEF rest, t
<1> QED
  BY <1>2, <1>4, <1>5, <1>6, <1>7, ThenLeads

\* A body that leaves the tables, columns and key of the next version leads there.
LEMMA BodyLeads ==
  ASSUME NEW v \in Nat, NEW w \in Nat, NEW body \in Seq(Statement),
         Leads(Made(Tables(v), TurnColumns(v), Keyed(v), {v}), body,
               Made(Tables(w), TurnColumns(w), Keyed(w), {v}))
  PROVE  Leads(Released(v), body \o <<Update(w), Validate(w)>>, Released(w))
<1>1. Leads(Made(Tables(w), TurnColumns(w), Keyed(w), {v}),
            <<Update(w), Validate(w)>>, Released(w))
  BY EndLeads
<1>2. <<Update(w), Validate(w)>> \in Seq(Statement)
  BY EndStatements
<1>3. Leads(Released(v), body, Made(Tables(w), TurnColumns(w), Keyed(w), {v}))
  BY ReleasedIsMade
<1> QED
  BY <1>1, <1>2, <1>3, ThenLeads

\* A version that adds a column to turns.
LEMMA ColumnLeads ==
  ASSUME NEW v \in Nat, NEW w \in Nat, NEW column \in Column,
         Tables(w) = Tables(v), Keyed(w) = Keyed(v),
         \A i \in DOMAIN TurnColumns(v) : TurnColumns(v)[i] # column,
         TurnColumns(w) = Append(TurnColumns(v), column)
  PROVE  Leads(Released(v), <<AddColumn(column)>> \o <<Update(w), Validate(w)>>, Released(w))
<1>1. "turns" \in Tables(v)
  BY DEF Tables, BaseTables
<1>2. Passes(Made(Tables(v), TurnColumns(v), Keyed(v), {v}), AddColumn(column),
             Made(Tables(v), Append(TurnColumns(v), column), Keyed(v), {v}))
  BY <1>1, ColumnPasses
<1>3. <<AddColumn(column)>> \in Seq(Statement)
  BY Kinds
<1>4. Leads(Made(Tables(v), TurnColumns(v), Keyed(v), {v}), <<AddColumn(column)>>,
            Made(Tables(w), TurnColumns(w), Keyed(w), {v}))
  BY <1>2, OneLeads
<1> QED
  BY <1>3, <1>4, BodyLeads

\* if version == 3: the tables of turn deletions.
LEMMA FourthLeads == Leads(Released(3), Upgrade(3), Released(4))
<1>1. Tables(3) \cap DeletionTables = {} /\ "conversations" \in Tables(3)
  BY DEF Tables, BaseTables, VerbatimTables, DeletionTables
<1>2. Tables(4) = Tables(3) \cup DeletionTables /\ Keyed(4) = Keyed(3)
  BY DEF Tables, Keyed
<1>3. TurnColumns(4) = TurnColumns(3)
  BY ColumnsAre
<1>4. Leads(Made(Tables(3), TurnColumns(3), Keyed(3), {3}), TurnDeletionDDL,
            Made(Tables(4), TurnColumns(4), Keyed(4), {3}))
  BY <1>1, <1>2, <1>3, DeletionLeads
<1>5. Upgrade(3) = TurnDeletionDDL \o <<Update(4), Validate(4)>>
  BY DEF Upgrade
<1> QED
  BY <1>4, <1>5, DeletionStatements, BodyLeads

\* if version == 4: the records.
LEMMA FifthLeads == Leads(Released(4), Upgrade(4), Released(5))
<1>1. Tables(4) \cap Records(9) = {} /\ "memory_events" \in Tables(4)
  BY DEF Records, RecordTables, Tables, BaseTables, VerbatimTables, DeletionTables
<1>2. Tables(5) = Tables(4) \cup Records(9)
  <2>1. DOMAIN RecordTables = 1 .. 9
    BY DEF RecordTables
  <2> QED
    BY <2>1 DEF Tables, Records
<1>3. TurnColumns(5) = TurnColumns(4)
  BY ColumnsAre
<1>4. Keyed(4) = FALSE /\ Keyed(5) = TRUE
  BY DEF Keyed
<1>5. Leads(Made(Tables(4), TurnColumns(4), FALSE, {4}), RecordDDL,
            Made(Tables(4) \cup Records(9), TurnColumns(4), TRUE, {4}))
  BY <1>1, RecordLeads
<1>6. Upgrade(4) = RecordDDL \o <<Update(5), Validate(5)>>
  BY DEF Upgrade
<1>7. Leads(Made(Tables(4), TurnColumns(4), Keyed(4), {4}), RecordDDL,
            Made(Tables(5), TurnColumns(5), Keyed(5), {4}))
  BY <1>2, <1>3, <1>4, <1>5
<1> QED
  BY <1>6, <1>7, RecordStatements, BodyLeads

\* if version == 5: the verbatim memory is dropped, what refers first.
LEMMA SixthLeads == Leads(Released(5), Upgrade(5), Released(6))
<1> DEFINE T1 == Tables(5) \ {"memory_sources"}
           T2 == T1 \ {"memories"}
           T3 == T2 \ {"memory_jobs"}
           A == DropTable("memory_sources")
           B == DropTable("memories")
           C == DropTable("memory_jobs")
           S(tables) == Made(tables, TurnColumns(5), Keyed(5), {5})
<1>1. \A table : /\ "memory_sources" \notin References(table)
                 /\ "memories" \in References(table) => table = "memory_sources"
                 /\ "memory_jobs" \in References(table) => table = "memories"
  BY DEF References, RecordReferences, Owners
<1>2. "memory_sources" \in Tables(5) /\ "memories" \in T1 /\ "memory_jobs" \in T2
        /\ "memory_sources" \notin T1 /\ "memories" \notin T2
  BY DEF Tables, VerbatimTables
<1>3. T3 = Tables(6)
  <2>1. Tables(5) = Tables(6) \cup VerbatimTables
    BY DEF Tables
  <2>2. Tables(6) \cap VerbatimTables = {}
    BY DEF Tables, BaseTables, DeletionTables, VerbatimTables, RecordTables
  <2>3. T3 = Tables(5) \ VerbatimTables
    BY DEF VerbatimTables
  <2> QED
    BY <2>1, <2>2, <2>3
<1> HIDE DEF T1, T2, T3
<1>4. Passes(S(Tables(5)), A, S(T1))
  BY <1>1, <1>2, DropPasses DEF T1
<1>5. Passes(S(T1), B, S(T2))
  BY <1>1, <1>2, DropPasses DEF T2
<1>6. Passes(S(T2), C, S(T3))
  BY <1>1, <1>2, DropPasses DEF T3
<1>7. A \in Statement /\ B \in Statement /\ C \in Statement
  BY Kinds, Names DEF VerbatimTables
<1>8. Upgrade(5) = <<A, B, C>> \o <<Update(6), Validate(6)>>
  BY DEF Upgrade
<1>9. Keyed(6) = Keyed(5) /\ TurnColumns(6) = TurnColumns(5)
  BY ColumnsAre DEF Keyed
<1>10. S(T3) = Made(Tables(6), TurnColumns(6), Keyed(6), {5})
  BY <1>3, <1>9
<1> HIDE DEF A, B, C
<1>11. Leads(S(Tables(5)), <<A, B, C>>, S(T3))
  <2> HIDE DEF S
  <2>1. Leads(S(Tables(5)), <<A>>, S(T1))
    BY <1>4, OneLeads
  <2>2. <<A>> \in Seq(Statement) /\ <<A, B>> \in Seq(Statement)
    BY <1>7
  <2>3. Leads(S(Tables(5)), Append(<<A>>, B), S(T2))
    BY <1>5, <1>7, <2>1, <2>2, MoreLeads
  <2>4. Append(<<A>>, B) = <<A, B>> /\ Append(<<A, B>>, C) = <<A, B, C>>
    BY Pairs, Triples
  <2>5. Leads(S(Tables(5)), <<A, B>>, S(T2))
    BY <2>3, <2>4
  <2>6. Leads(S(Tables(5)), Append(<<A, B>>, C), S(T3))
    BY <1>6, <1>7, <2>2, <2>5, MoreLeads
  <2> QED
    BY <2>4, <2>6
<1>12. <<A, B, C>> \in Seq(Statement)
  BY <1>7
<1> QED
  BY <1>8, <1>10, <1>11, <1>12, BodyLeads

\* Every migration from one version to the next.
LEMMA UpgradeLeads ==
  ASSUME NEW v \in 1 .. 6
  PROVE  Leads(Released(v), Upgrade(v), Released(v + 1))
<1>1. CASE v = 1
  <2>1. TurnColumns(2) = Append(TurnColumns(1), "stated_at")
    <3>1. Append(<<>>, "stated_at") = <<"stated_at">>
      OBVIOUS
    <3>2. TurnColumns(1) = <<>> /\ TurnColumns(2) = <<"stated_at">>
      BY ColumnsAre
    <3> QED
      BY <3>1, <3>2
  <2>2. \A i \in DOMAIN TurnColumns(1) : TurnColumns(1)[i] # "stated_at"
    BY ColumnsAre
  <2>3. "stated_at" \in Column /\ Tables(2) = Tables(1) /\ Keyed(2) = Keyed(1)
    BY DEF Column, Tables, Keyed
  <2>4. Upgrade(1) = <<AddColumn("stated_at")>> \o <<Update(2), Validate(2)>>
    BY DEF Upgrade
  <2>5. Leads(Released(1), Upgrade(1), Released(2))
    BY <2>1, <2>2, <2>3, <2>4, ColumnLeads
  <2> QED
    BY <1>1, <2>5
<1>2. CASE v = 2
  <2>1. TurnColumns(3) = Append(TurnColumns(2), "memory_confirmation")
    <3>1. TurnColumns(3) = <<"stated_at", "memory_confirmation">>
      BY ColumnsAre
    <3>2. TurnColumns(2) = <<"stated_at">>
      BY ColumnsAre
    <3> QED
      BY <3>1, <3>2, Pairs
  <2>2. \A i \in DOMAIN TurnColumns(2) : TurnColumns(2)[i] # "memory_confirmation"
    BY ColumnsAre
  <2>3. "memory_confirmation" \in Column /\ Tables(3) = Tables(2) /\ Keyed(3) = Keyed(2)
    BY DEF Column, Tables, Keyed
  <2>4. Upgrade(2) = <<AddColumn("memory_confirmation")>> \o <<Update(3), Validate(3)>>
    BY DEF Upgrade
  <2>5. Leads(Released(2), Upgrade(2), Released(3))
    BY <2>1, <2>2, <2>3, <2>4, ColumnLeads
  <2> QED
    BY <1>2, <2>5
<1>3. CASE v = 6
  <2>1. TurnColumns(7) = Append(TurnColumns(6), "card_sha256")
    <3>1. TurnColumns(6) = <<"stated_at", "memory_confirmation">>
      BY ColumnsAre
    <3>2. TurnColumns(7) = <<"stated_at", "memory_confirmation", "card_sha256">>
      BY ColumnsAre
    <3> QED
      BY <3>1, <3>2, Triples
  <2>2. \A i \in DOMAIN TurnColumns(6) : TurnColumns(6)[i] # "card_sha256"
    BY ColumnsAre
  <2>3. "card_sha256" \in Column /\ Tables(7) = Tables(6) /\ Keyed(7) = Keyed(6)
    BY DEF Column, Tables, Keyed
  <2>4. Upgrade(6) = <<AddColumn("card_sha256")>> \o <<Update(7), Validate(7)>>
    BY DEF Upgrade
  <2>5. Leads(Released(6), Upgrade(6), Released(7))
    BY <2>1, <2>2, <2>3, <2>4, ColumnLeads
  <2> QED
    BY <1>3, <2>5
<1>4. CASE v \in {3, 4, 5}
  BY <1>4, FourthLeads, FifthLeads, SixthLeads
<1> QED
  BY <1>1, <1>2, <1>3, <1>4

\* The first statement of an initialization that finds a version.
LEMMA ValidateLeads == \A v \in 1 .. 7 : Leads(Released(v), <<Validate(v)>>, Released(v))
BY ValidatePasses, OneLeads

\* if version == 1, if version in (1, 2), ...: one after the other.
LEMMA UpgradesLead ==
  ASSUME NEW v \in 1 .. SCHEMA_VERSION
  PROVE  Leads(Released(v), Upgrades(v), Released(SCHEMA_VERSION))
<1> DEFINE From(w) == IF v <= w THEN Upgrade(w) ELSE <<>>
           At(w) == IF v <= w THEN Released(w) ELSE Released(v)
<1>1. v \in 1 .. 7
  BY DEF SCHEMA_VERSION
<1>2. ASSUME NEW w \in 1 .. 6
      PROVE  From(w) \in Seq(Statement) /\ Leads(At(w), From(w), At(w + 1))
  <2>1. CASE v <= w
    <3>1. v <= w + 1
      BY <1>1, <2>1
    <3> QED
      BY <2>1, <3>1, UpgradeScript, UpgradeLeads
  <2>2. CASE v = w + 1
    <3>1. ~(v <= w) /\ v <= w + 1
      BY <1>1, <2>2
    <3>2. From(w) = <<>> /\ At(w) = Released(v) /\ At(w + 1) = Released(v)
      BY <2>2, <3>1
    <3> HIDE DEF From, At
    <3> QED
      BY <3>2, NothingLeads
  <2>3. CASE v > w + 1
    <3>1. ~(v <= w) /\ ~(v <= w + 1)
      BY <1>1, <2>3
    <3>2. From(w) = <<>> /\ At(w) = Released(v) /\ At(w + 1) = Released(v)
      BY <3>1
    <3> HIDE DEF From, At
    <3> QED
      BY <3>2, NothingLeads
  <2> QED
    BY <1>1, <2>1, <2>2, <2>3
<1>3. Upgrades(v) = From(1) \o From(2) \o From(3) \o From(4) \o From(5) \o From(6)
  BY DEF Upgrades
<1>4. At(1) = Released(v) /\ At(7) = Released(7)
  <2>1. v <= 1 => v = 1
    BY <1>1
  <2>2. v <= 7
    BY <1>1
  <2> QED
    BY <2>1, <2>2
<1> HIDE DEF From, At
<1>5. /\ Leads(At(1), From(1), At(2)) /\ Leads(At(2), From(2), At(3))
      /\ Leads(At(3), From(3), At(4)) /\ Leads(At(4), From(4), At(5))
      /\ Leads(At(5), From(5), At(6)) /\ Leads(At(6), From(6), At(7))
  <2>1. 1 + 1 = 2 /\ 2 + 1 = 3 /\ 3 + 1 = 4 /\ 4 + 1 = 5 /\ 5 + 1 = 6 /\ 6 + 1 = 7
    OBVIOUS
  <2>2. /\ Leads(At(1), From(1), At(1 + 1)) /\ Leads(At(2), From(2), At(2 + 1))
        /\ Leads(At(3), From(3), At(3 + 1)) /\ Leads(At(4), From(4), At(4 + 1))
        /\ Leads(At(5), From(5), At(5 + 1)) /\ Leads(At(6), From(6), At(6 + 1))
    BY <1>2
  <2> QED
    BY <2>1, <2>2
<1>6. /\ From(1) \in Seq(Statement) /\ From(2) \in Seq(Statement)
      /\ From(3) \in Seq(Statement) /\ From(4) \in Seq(Statement)
      /\ From(5) \in Seq(Statement) /\ From(6) \in Seq(Statement)
  BY <1>2
<1> DEFINE P2 == From(1) \o From(2)
           P3 == P2 \o From(3)
           P4 == P3 \o From(4)
           P5 == P4 \o From(5)
           P6 == P5 \o From(6)
<1>7. Upgrades(v) = P6
  BY <1>3
<1>8. P2 \in Seq(Statement) /\ Leads(At(1), P2, At(3))
  BY <1>5, <1>6, ThenLeads
<1> HIDE DEF P2
<1>9. P3 \in Seq(Statement) /\ Leads(At(1), P3, At(4))
  BY <1>5, <1>6, <1>8, ThenLeads
<1> HIDE DEF P3
<1>10. P4 \in Seq(Statement) /\ Leads(At(1), P4, At(5))
  BY <1>5, <1>6, <1>9, ThenLeads
<1> HIDE DEF P4
<1>11. P5 \in Seq(Statement) /\ Leads(At(1), P5, At(6))
  BY <1>5, <1>6, <1>10, ThenLeads
<1> HIDE DEF P5
<1>12. Leads(At(1), P6, At(7))
  BY <1>5, <1>6, <1>11, ThenLeads
<1> QED
  BY <1>4, <1>7, <1>12 DEF SCHEMA_VERSION

\* create() on an empty schema.
LEMMA CreateLeads == Leads(Empty, Create, Released(SCHEMA_VERSION))
<1> DEFINE T1 == {"schema_version"}
           T2 == T1 \cup {"conversations"}
           T3 == T2 \cup {"turns"}
           T4 == T3 \cup {"source_deletions"}
           T5 == T4 \cup {"memory_events"}
           c1 == <<"stated_at">>
           c2 == <<"stated_at", "memory_confirmation">>
           c3 == <<"stated_at", "memory_confirmation", "card_sha256">>
           S(T, C) == Made(T, C, FALSE, {})
           X1 == CreateTable("schema_version")
           X2 == CreateTable("conversations")
           X3 == CreateTable("turns")
           X4 == AddColumn("stated_at")
           X5 == AddColumn("memory_confirmation")
           X6 == AddColumn("card_sha256")
           X7 == CreateTable("source_deletions")
           X8 == CreateTable("memory_events")
<1>1. Empty = S({}, <<>>)
  BY DEF Empty, Made
<1>2. /\ References("schema_version") = {} /\ References("conversations") = {}
      /\ References("turns") = {"conversations"} /\ References("source_deletions") = {}
      /\ References("memory_events") = {}
  BY DEF References, RecordReferences
<1>3. /\ Passes(S({}, <<>>), X1, S(T1, <<>>))
      /\ Passes(S(T1, <<>>), X2, S(T2, <<>>))
      /\ Passes(S(T2, <<>>), X3, S(T3, <<>>))
  <2>1. {} \cup {"schema_version"} = T1
    OBVIOUS
  <2>2. Passes(Made({}, <<>>, FALSE, {}), X1, Made({} \cup {"schema_version"}, <<>>, FALSE, {}))
    BY <1>2, CreatePasses
  <2>3. Passes(S(T1, <<>>), X2, S(T2, <<>>))
    BY <1>2, CreatePasses
  <2>4. Passes(S(T2, <<>>), X3, S(T3, <<>>))
    BY <1>2, CreatePasses
  <2> QED
    BY <2>1, <2>2, <2>3, <2>4
<1>4. /\ Passes(S(T3, <<>>), X4, S(T3, c1))
      /\ Passes(S(T3, c1), X5, S(T3, c2))
      /\ Passes(S(T3, c2), X6, S(T3, c3))
  <2>1. "turns" \in T3
    OBVIOUS
  <2>2. Append(<<>>, "stated_at") = c1
    OBVIOUS
  <2>3. Append(c1, "memory_confirmation") = c2
    BY Pairs
  <2>4. Append(c2, "card_sha256") = c3
    BY Triples
  <2>5. /\ \A i \in DOMAIN <<>> : <<>>[i] # "stated_at"
        /\ \A i \in DOMAIN c1 : c1[i] # "memory_confirmation"
        /\ \A i \in DOMAIN c2 : c2[i] # "card_sha256"
    OBVIOUS
  <2> HIDE DEF T3, c1, c2, c3
  <2>6. Passes(Made(T3, <<>>, FALSE, {}), X4, Made(T3, Append(<<>>, "stated_at"), FALSE, {}))
    BY <2>1, <2>5, ColumnPasses
  <2>7. Passes(Made(T3, c1, FALSE, {}), X5, Made(T3, Append(c1, "memory_confirmation"), FALSE, {}))
    BY <2>1, <2>5, ColumnPasses
  <2>8. Passes(Made(T3, c2, FALSE, {}), X6, Made(T3, Append(c2, "card_sha256"), FALSE, {}))
    BY <2>1, <2>5, ColumnPasses
  <2> QED
    BY <2>2, <2>3, <2>4, <2>6, <2>7, <2>8
<1>5. /\ Passes(S(T3, c3), X7, S(T4, c3))
      /\ Passes(S(T4, c3), X8, S(T5, c3))
  BY <1>2, CreatePasses
<1>6. Leads(S(T5, c3), TurnDeletionDDL, S(T5 \cup DeletionTables, c3))
  <2>1. "conversations" \in T5 /\ T5 \cap DeletionTables = {}
    BY DEF DeletionTables
  <2> QED
    BY <2>1, DeletionLeads
<1> DEFINE T6 == T5 \cup DeletionTables
           T7 == T6 \cup Records(9)
<1>7. Leads(S(T6, c3), RecordDDL, Made(T7, c3, TRUE, {}))
  <2>1. "memory_events" \in T6
    OBVIOUS
  <2>2. T6 \cap Records(9) = {}
    BY DEF DeletionTables, Records, RecordTables
  <2> QED
    BY <2>1, <2>2, RecordLeads
<1>8. T7 = Tables(7) /\ c3 = TurnColumns(7) /\ Keyed(7) = TRUE
  <2>1. c3 = TurnColumns(7)
    BY ColumnsAre
  <2>2. Keyed(7) = TRUE
    BY DEF Keyed
  <2>3. DOMAIN RecordTables = 1 .. 9
    BY DEF RecordTables
  <2>4. Records(9) = {RecordTables[i] : i \in DOMAIN RecordTables}
    BY <2>3 DEF Records
  <2>5. T7 = Tables(7)
    BY <2>4 DEF Tables, BaseTables, DeletionTables
  <2> QED
    BY <2>1, <2>2, <2>5
<1>9. /\ X1 \in Statement /\ X2 \in Statement /\ X3 \in Statement /\ X4 \in Statement
      /\ X5 \in Statement /\ X6 \in Statement /\ X7 \in Statement /\ X8 \in Statement
  BY Kinds, Names DEF BaseTables, Column
<1>10. Create = <<X1, X2, X3, X4, X5, X6, X7, X8>> \o TurnDeletionDDL \o RecordDDL
                  \o <<Insert(7), Validate(7)>>
  BY DEF Create, SCHEMA_VERSION
<1> HIDE DEF T1, T2, T3, T4, T5, T6, T7, c1, c2, c3, X1, X2, X3, X4, X5, X6, X7, X8
<1>11. Leads(S({}, <<>>), <<X1, X2, X3, X4, X5, X6, X7, X8>>, S(T5, c3))
  <2> DEFINE s(i) == CASE i = 0 -> S({}, <<>>) [] i = 1 -> S(T1, <<>>) [] i = 2 -> S(T2, <<>>)
                       [] i = 3 -> S(T3, <<>>) [] i = 4 -> S(T3, c1) [] i = 5 -> S(T3, c2)
                       [] i = 6 -> S(T3, c3) [] i = 7 -> S(T4, c3) [] i = 8 -> S(T5, c3)
             t == [i \in 0 .. 8 |-> s(i)]
             p == <<X1, X2, X3, X4, X5, X6, X7, X8>>
  <2> HIDE DEF S
  <2>1. /\ t[0] = S({}, <<>>) /\ t[1] = S(T1, <<>>) /\ t[2] = S(T2, <<>>)
        /\ t[3] = S(T3, <<>>) /\ t[4] = S(T3, c1) /\ t[5] = S(T3, c2)
        /\ t[6] = S(T3, c3) /\ t[7] = S(T4, c3) /\ t[8] = S(T5, c3)
    OBVIOUS
  <2>2. /\ Len(p) = 8 /\ p[1] = X1 /\ p[2] = X2 /\ p[3] = X3 /\ p[4] = X4 /\ p[5] = X5
        /\ p[6] = X6 /\ p[7] = X7 /\ p[8] = X8
    OBVIOUS
  <2> HIDE DEF t, p
  <2>3. \A i \in 1 .. 8 : i \in {1, 2, 3, 4, 5, 6, 7, 8}
    OBVIOUS
  <2>4. \A i \in {1, 2, 3, 4, 5, 6, 7, 8} : Passes(t[i - 1], p[i], t[i])
    <3>1. /\ Passes(t[0], p[1], t[1]) /\ Passes(t[1], p[2], t[2]) /\ Passes(t[2], p[3], t[3])
          /\ Passes(t[3], p[4], t[4]) /\ Passes(t[4], p[5], t[5]) /\ Passes(t[5], p[6], t[6])
          /\ Passes(t[6], p[7], t[7]) /\ Passes(t[7], p[8], t[8])
      BY <1>3, <1>4, <1>5, <2>1, <2>2 DEF S
    <3> QED
      BY <3>1
  <2> QED
    BY <2>1, <2>2, <2>3, <2>4 DEF Leads, p
<1>12. Leads(Made(T7, c3, TRUE, {}), <<Insert(7), Validate(7)>>, Released(7))
  <2>1. "schema_version" \in Tables(7)
    BY DEF Tables
  <2>2. {} \cup {7} = {7}
    OBVIOUS
  <2>3. Passes(Made(T7, c3, TRUE, {}), Insert(7), Made(T7, c3, TRUE, {} \cup {7}))
    BY <1>8, <2>1, InsertPasses
  <2>4. Made(T7, c3, TRUE, {} \cup {7}) = Released(7)
    BY <1>8, <2>2, ReleasedIsMade
  <2>5. Insert(7) \in Statement /\ Validate(7) \in Statement
    BY Kinds
  <2>6. <<Insert(7)>> \in Seq(Statement)
    BY <2>5
  <2>7. Leads(Made(T7, c3, TRUE, {}), <<Insert(7)>>, Released(7))
    BY <2>3, <2>4, OneLeads
  <2>8. Leads(Made(T7, c3, TRUE, {}), Append(<<Insert(7)>>, Validate(7)), Released(7))
    BY <2>5, <2>6, <2>7, ValidatePasses, MoreLeads
  <2> QED
    BY <2>8, Pairs
<1> DEFINE A == <<X1, X2, X3, X4, X5, X6, X7, X8>>
           B == A \o TurnDeletionDDL
           D == B \o RecordDDL
           E == <<Insert(7), Validate(7)>>
<1>13. A \in Seq(Statement) /\ E \in Seq(Statement)
  BY <1>9, Kinds
<1>14. Create = D \o E
  BY <1>10
<1> HIDE DEF A, E
<1>15. B \in Seq(Statement) /\ Leads(S({}, <<>>), B, S(T6, c3))
  <2>1. Leads(S({}, <<>>), A, S(T5, c3))
    BY <1>11 DEF A
  <2>2. Leads(S(T5, c3), TurnDeletionDDL, S(T6, c3))
    BY <1>6 DEF T6
  <2> HIDE DEF S
  <2>3. B \in Seq(Statement)
    BY <1>13, DeletionStatements
  <2>4. Leads(S({}, <<>>), A \o TurnDeletionDDL, S(T6, c3))
    BY <1>13, <2>1, <2>2, DeletionStatements, ThenLeads
  <2> QED
    BY <2>3, <2>4
<1> HIDE DEF B
<1>16. D \in Seq(Statement) /\ Leads(S({}, <<>>), D, Made(T7, c3, TRUE, {}))
  <2>1. Leads(S({}, <<>>), B, S(T6, c3)) /\ Leads(S(T6, c3), RecordDDL, Made(T7, c3, TRUE, {}))
    BY <1>7, <1>15
  <2> HIDE DEF S
  <2>2. D \in Seq(Statement)
    BY <1>15, RecordStatements
  <2>3. Leads(S({}, <<>>), B \o RecordDDL, Made(T7, c3, TRUE, {}))
    BY <1>15, <2>1, RecordStatements, ThenLeads
  <2> QED
    BY <2>2, <2>3
<1> HIDE DEF D
<1>17. Leads(S({}, <<>>), D \o E, Released(7))
  BY <1>12, <1>13, <1>16, ThenLeads DEF E
<1> QED
  BY <1>1, <1>14, <1>17 DEF SCHEMA_VERSION

\* Seen of a schema that is there is that schema.
LEMMA Present ==
  ASSUME NEW s \in Schema, s.exists
  PROVE  [s EXCEPT !.exists = TRUE] = s
BY DEF Schema

LEMMA SeenReleased ==
  ASSUME NEW v \in Nat
  PROVE  [Released(v) EXCEPT !.exists = TRUE] = Released(v)
BY ReleasedIsSchema, Present DEF Released

LEMMA SeenEmpty ==
  [Empty EXCEPT !.exists = TRUE] = Empty /\ [Missing EXCEPT !.exists = TRUE] = Empty
<1>1. Empty \in Schema
  BY DEF Empty, Schema
<1>2. Empty.exists /\ \A s \in Schema : s.exists => [s EXCEPT !.exists = TRUE] = s
  BY Present DEF Empty
<1>3. [Missing EXCEPT !.exists = TRUE] = [Empty EXCEPT !.exists = TRUE]
  <2>1. Empty \in [exists : {TRUE}, tables : {{}}, columns : {<<>>}, keyed : {FALSE},
                   versions : {{}}, foreign : {{}}]
    BY DEF Empty
  <2>2. [[Empty EXCEPT !.exists = FALSE] EXCEPT !.exists = TRUE]
          \in [exists : {TRUE}, tables : {{}}, columns : {<<>>}, keyed : {FALSE},
               versions : {{}}, foreign : {{}}]
    BY <2>1
  <2>3. [Empty EXCEPT !.exists = TRUE]
          \in [exists : {TRUE}, tables : {{}}, columns : {<<>>}, keyed : {FALSE},
               versions : {{}}, foreign : {{}}]
    BY <2>1
  <2> QED
    BY <2>2, <2>3 DEF Missing
<1> QED
  BY <1>1, <1>2, <1>3

\* What a release left is recognized, and its script leads to the current schema.
LEMMA ScriptLeads ==
  ASSUME schema \in Supported
  PROVE  Recognized(Seen) /\ Leads(Seen, Script(Seen), Released(SCHEMA_VERSION))
<1>1. CASE schema \in {Missing, Empty}
  <2>1. Seen = Empty
    <3>1. [Empty EXCEPT !.exists = TRUE] = Empty /\ [Missing EXCEPT !.exists = TRUE] = Empty
      BY SeenEmpty
    <3> QED
      BY <1>1, <3>1 DEF Seen
  <2>2. NoRelations(Empty) /\ "object" \notin Empty.foreign
    BY DEF NoRelations, Empty
  <2>3. Script(Empty) = Create
    BY <2>2 DEF Script
  <2>4. Recognized(Empty)
    BY <2>2 DEF Recognized
  <2> QED
    BY <2>1, <2>3, <2>4, CreateLeads
<1>2. ASSUME NEW v \in 1 .. SCHEMA_VERSION, schema = Released(v)
      PROVE  Recognized(Seen) /\ Leads(Seen, Script(Seen), Released(SCHEMA_VERSION))
  <2>1. Seen = Released(v)
    BY <1>2, SeenReleased DEF Seen
  <2>2. /\ Released(v).foreign = {} /\ Released(v).versions = {v}
        /\ Released(v).tables = Tables(v) /\ Released(v).keyed = Keyed(v)
    BY DEF Released
  <2>3. SameRelations(Released(v), v)
    BY <2>2 DEF SameRelations
  <2>4. Recognized(Released(v))
    BY <2>2, <2>3 DEF Recognized
  <2>5. ~NoRelations(Released(v))
    BY <2>2 DEF NoRelations, Tables
  <2>6. Script(Released(v)) = <<Validate(v)>> \o Upgrades(v)
    BY <2>2, <2>5 DEF Script
  <2>7. Upgrades(v) \in Seq(Statement)
    BY UpgradesScript
  <2>8. <<Validate(v)>> \in Seq(Statement) /\ Leads(Released(v), <<Validate(v)>>, Released(v))
    BY ValidateLeads, EndStatements DEF SCHEMA_VERSION
  <2>9. Leads(Released(v), <<Validate(v)>> \o Upgrades(v), Released(SCHEMA_VERSION))
    BY <2>7, <2>8, UpgradesLead, ThenLeads
  <2> QED
    BY <2>1, <2>4, <2>6, <2>9
<1> QED
  BY <1>1, <1>2 DEF Supported

\* On a supported schema what is left of every script leads to the current one.
SmoothInv ==
  \A c \in Client :
    /\ pc[c] = "executing" /\ schema \in Supported =>
         Leads(view[c], todo[c], Released(SCHEMA_VERSION))
    /\ pc[c] \in {"refused", "failed"} => schema \notin Supported

LEMMA InitSmooth == Init => SmoothInv
BY DEF Init, SmoothInv

LEMMA InspectSmooth ==
  ASSUME MigrationInv, SmoothInv, NEW c \in Client, Inspect(c)
  PROVE  SmoothInv'
<1>1. schema' = schema
  BY InspectInv
<1>2. CASE Recognized(Seen)
  <2>1. \A d \in Client : /\ pc'[d] = (IF d = c THEN "executing" ELSE pc[d])
                          /\ view'[d] = (IF d = c THEN Seen ELSE view[d])
                          /\ todo'[d] = (IF d = c THEN Script(Seen) ELSE todo[d])
    BY <1>2 DEF Inspect, MigrationInv, Shape
  <2> QED
    BY <1>1, <2>1, ScriptLeads DEF SmoothInv
<1>3. CASE ~Recognized(Seen)
  <2>1. schema \notin Supported
    BY <1>3, ScriptLeads
  <2>2. schema' \notin Supported
    BY <1>1, <2>1
  <2>3. \A d \in Client : d # c => pc'[d] = pc[d]
    BY <1>3 DEF Inspect, Rollback, MigrationInv, Shape
  <2> QED
    BY <2>2 DEF SmoothInv
<1> QED
  BY <1>2, <1>3

LEMMA ExecuteSmooth ==
  ASSUME MigrationInv, SmoothInv, NEW c \in Client, Execute(c)
  PROVE  SmoothInv'
<1> DEFINE x == Head(todo[c])
<1>1. schema' = schema
  BY ExecuteInv
<1>2. CASE schema \notin Supported
  <2>1. schema' \notin Supported
    BY <1>1, <1>2
  <2> QED
    BY <2>1 DEF SmoothInv
<1>3. CASE schema \in Supported
  <2>1. /\ pc[c] = "executing" /\ todo[c] # <<>> /\ todo[c] \in Seq(Statement)
        /\ stored \in BOOLEAN
    BY DEF Execute, MigrationInv, Shape
  <2>2. Leads(view[c], todo[c], Released(SCHEMA_VERSION))
    BY <1>3, <2>1 DEF SmoothInv
  <2>3. PICK b : Passes(view[c], x, b) /\ Leads(b, Tail(todo[c]), Released(SCHEMA_VERSION))
    BY <2>1, <2>2, FirstPasses
  <2>4. /\ todo' = [todo EXCEPT ![c] = Tail(@)]
        /\ pc' = pc
        /\ \/ x.do = "validate" /\ view' = view /\ b = view[c]
           \/ x.do # "validate" /\ view' = [view EXCEPT ![c] = Executed(@, x)]
              /\ b = Executed(view[c], x)
    <3>1. CASE x.do = "validate"
      BY <2>3, <3>1 DEF Execute, Passes
    <3>2. CASE x.do # "validate"
      <4>1. Accepted(view[c], stored, x) /\ b = Executed(view[c], x)
        BY <2>1, <2>3, <3>2 DEF Passes
      <4> QED
        BY <3>2, <4>1 DEF Execute
    <3> QED
      BY <3>1, <3>2
  <2>5. \A d \in Client : /\ view'[d] = (IF d = c THEN b ELSE view[d])
                          /\ todo'[d] = (IF d = c THEN Tail(todo[c]) ELSE todo[d])
    BY <2>4 DEF MigrationInv, Shape
  <2> HIDE DEF x
  <2> QED
    BY <1>1, <2>3, <2>4, <2>5 DEF SmoothInv
<1> QED
  BY <1>2, <1>3

\* A store that neither executes nor is refused after a step has nothing to show.
LEMMA ElseSmooth ==
  ASSUME MigrationInv, SmoothInv, NEW c \in Client,
         Lock(c) \/ Fault(c) \/ Use(c)
  PROVE  SmoothInv'
<1>1. schema' = schema
  BY DEF Lock, Fault, Rollback, Use
<1>2. \A d \in Client :
        \/ pc'[d] \in {"connecting", "inspecting", "up"}
        \/ pc'[d] = pc[d] /\ view'[d] = view[d] /\ todo'[d] = todo[d]
  BY DEF Lock, Fault, Rollback, Use, MigrationInv, Shape
<1> QED
  BY <1>1, <1>2 DEF SmoothInv

LEMMA CommitSmooth ==
  ASSUME MigrationInv, SmoothInv, NEW c \in Client, Committed(c)
  PROVE  SmoothInv'
<1>1. schema \in Supported
  BY CommitInv
<1>2. \A d \in Client : pc'[d] \notin {"executing", "refused", "failed"}
  <2>1. PICK then \in {"up", "connecting"} : pc' = [pc EXCEPT ![c] = then]
    BY DEF Committed
  <2>2. \A d \in Client : pc'[d] = IF d = c THEN then ELSE pc[d]
    BY <2>1 DEF MigrationInv, Shape
  <2>3. \A d \in Client : d # c => pc[d] # "executing"
    BY DEF MigrationInv, Holds, Committed
  <2>4. \A d \in Client : pc[d] \notin {"refused", "failed"}
    BY <1>1 DEF SmoothInv
  <2> QED
    BY <2>2, <2>3, <2>4
<1> QED
  BY <1>2 DEF SmoothInv

LEMMA SmoothStep ==
  ASSUME MigrationInv, SmoothInv, [Next]_vars
  PROVE  SmoothInv'
<1>1. CASE UNCHANGED vars
  BY <1>1 DEF vars, SmoothInv
<1>2. ASSUME NEW c \in Client,
             Step(c) \/ CommitUnanswered(c) \/ Fault(c) \/ Use(c)
      PROVE  SmoothInv'
  <2>1. CASE Lock(c) \/ Fault(c) \/ Use(c)
    BY <2>1, ElseSmooth
  <2>2. CASE Inspect(c)
    BY <2>2, InspectSmooth
  <2>3. CASE Execute(c)
    BY <2>3, ExecuteSmooth
  <2>4. CASE Commit(c) \/ CommitUnanswered(c)
    <3>1. Committed(c)
      BY <2>4 DEF Commit, CommitUnanswered, Committed
    <3> QED
      BY <3>1, CommitSmooth
  <2> QED
    BY <1>2, <2>1, <2>2, <2>3, <2>4 DEF Step
<1> QED
  BY <1>1, <1>2 DEF Next

-----------------------------------------------------------------------------
(* Every store that is up works on the current schema (postgres_db.py:     *)
(* 135-223), for any number of stores, failures and found schemas.         *)
THEOREM UpIsCurrent == Spec => []UpOnCurrent
<1>1. MigrationInv => UpOnCurrent
  BY DEF MigrationInv
<1> QED
  BY <1>1, InitInv, InvStep, PTL DEF Spec

(* A migration is all or nothing, and what is not recognized is left alone *)
(* (postgres_db.py:135), whatever statement fails and whoever else starts. *)
THEOREM MigratesWhole == Spec => OnlyToCurrent
<1>1. MigrationInv /\ [Next]_vars =>
        [schema' # schema =>
           schema \in Supported /\ schema' = Released(SCHEMA_VERSION)]_vars
  BY InvStep
<1> QED
  BY <1>1, InitInv, InvStep, PTL DEF Spec, OnlyToCurrent

(* What a release left is never refused, and no statement of its migration *)
(* is rejected, with and without stored turns (postgres_db.py:181-223): an *)
(* argument over every script of initialize, statement by statement.       *)
THEOREM SupportedNeverRefused == Spec => []SupportedAccepted
<1>1. SmoothInv => SupportedAccepted
  BY DEF SmoothInv, SupportedAccepted
<1> QED
  BY <1>1, InitInv, InvStep, InitSmooth, SmoothStep, PTL DEF Spec

=============================================================================
