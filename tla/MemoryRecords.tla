---------------------------- MODULE MemoryRecords ----------------------------
(***************************************************************************)
(* The canonical memory records (postgres_memory_records.py), their        *)
(* revocation inside the history's own transactions                        *)
(* (postgres_record_revocation.py) and what retrieval makes of them        *)
(* (postgres_record_retrieval.py), over the history store.                 *)
(*                                                                         *)
(* A record is an episode, one version of a fact, a semantic or a link     *)
(* between an episode and a fact version.  Its texts and times are left    *)
(* out: they are erased by the very UPDATE that suspends the row.  A quote *)
(* names a part of the text; whether it lies inside is left out.           *)
(***************************************************************************)
EXTENDS HistoryStore

CONSTANTS
  RecordId,   \* caller-chosen identifiers, one space per kind
  Formation,  \* formation versions
  Part,       \* the stretches of a text that quotes name, start and end
  Batch       \* what may be registered: nonempty sets of records

Kind == {"episode", "fact", "semantic", "episode_fact_link"}

Ref == [kind : Kind, id : RecordId, version : Nat]

\* A source address, who is quoted and which part of the text.
Citation ==
  [conversation : Conversation, revision : Nat, position : Nat, epoch : Nat,
   speaker : {"user", "assistant", "tool"}, part : Part]

(***************************************************************************)
(* cites are the record's own citations, reasons those of its stated       *)
(* reason, evidence the episodes a semantic rests on with the sources the  *)
(* caller believes them to have, ends the two ends of a link, and expected *)
(* the head version a fact write expects ({}: none).                       *)
(***************************************************************************)
Record ==
  [kind : Kind, id : RecordId, version : Nat,
   cites : SUBSET Citation, reasons : SUBSET Citation,
   evidence : SUBSET [episode : Ref, sources : SUBSET (Conversation \X Nat \X Nat)],
   ends : SUBSET Ref, expected : SUBSET Nat]

RefOf(r) == [kind |-> r.kind, id |-> r.id, version |-> r.version]

Quotes(r) == r.cites \cup r.reasons

SourcesOf(cites) == {<<c.conversation, c.revision, c.position>> : c \in cites}

\* Two episodes whose sources are disjoint.
IndependentPair(evidence) ==
  \E v, w \in evidence : v.episode.id # w.episode.id /\ v.sources \cap w.sources = {}

\* The shapes the constructors of memory_records.py allow.
ASSUME BatchAssumption ==
  \A b \in Batch :
    /\ b # {}
    /\ b \subseteq Record
    /\ \A r \in b :
         /\ r.kind \in {"episode", "fact"} => r.cites # {}
         /\ r.kind = "episode_fact_link" =>
              /\ Quotes(r) = {}
              /\ \E e, f \in r.ends :
                   r.ends = {e, f} /\ e.kind = "episode" /\ f.kind = "fact"
         /\ r.kind # "episode_fact_link" => r.ends = {}
         /\ r.kind = "semantic" => \/ \E q \in r.cites : q.speaker = "user"
                                   \/ IndependentPair(r.evidence)
         /\ r.kind # "semantic" => r.evidence = {}
         /\ \A v \in r.evidence : v.episode.kind = "episode" /\ v.sources # {}

VARIABLES
  records,       \* rows of the four record tables: [record, active]
  heads,         \* rows of memory_facts: [id, version, active]
  registrations, \* rows of memory_record_registrations: [identity, digest, results]
  eventRecords   \* rows of memory_event_records: [event, ref]

recordVars == <<records, heads, registrations, eventRecords>>
memoryVars == <<vars, recordVars>>

ActiveRows == {x \in records : x.active}
ActiveRefs == {RefOf(x.record) : x \in ActiveRows}

\* No older version of a fact.
Current(r) ==
  r.kind = "fact" => \E h \in heads : h.id = r.id /\ h.version = r.version /\ h.active

\* _source: the cited message exists, is open for memories and was said by the
\* quoted speaker, in the current epoch of its conversation.
Valid(c) ==
  /\ c.epoch = epoch[c.conversation]
  /\ ~privateMode[c.conversation]
  /\ \E t \in turns[c.conversation] :
       /\ t.revision = c.revision
       /\ Open(t, c.position)
       /\ t.messages[c.position].role = c.speaker

-----------------------------------------------------------------------------
(***************************************************************************)
(* Registration.                                                           *)
(***************************************************************************)
\* The episode a piece of evidence names: from the batch, or else an active row.
Named(b, v) ==
  LET new == {r \in b : r.kind = "episode" /\ r.id = v.episode.id} IN
  IF new # {}
  THEN {r \in new : RefOf(r) = v.episode}
  ELSE {x.record : x \in {y \in ActiveRows : RefOf(y.record) = v.episode}}

Evidence(b) == UNION {r.evidence : r \in b}

\* Evidence exists and has exactly the sources the caller named.
Witnessed(b) ==
  \A v \in Evidence(b) :
    \E r \in Named(b, v) : SourcesOf(r.cites) = v.sources

AllQuotes(b) ==
  (UNION {Quotes(r) : r \in b})
    \cup (UNION {UNION {Quotes(r) : r \in Named(b, v)} : v \in Evidence(b)})

\* The key of a registration: what is cited, by whom it was formed, what is linked.
Identity(b, f) ==
  [quotes |-> AllQuotes(b), formation |-> f,
   links |-> {r.ends : r \in {s \in b : s.kind = "episode_fact_link"}}]

\* One entry per kind and id, evidence in order, every source valid now.
Admissible(b) ==
  /\ \A r, s \in b : r.kind = s.kind /\ r.id = s.id => r = s
  /\ Witnessed(b)
  /\ \A c \in AllQuotes(b) : Valid(c)

\* Mutant: every reference told must be the head of its record.
RetriedHeads(b, f, g) ==
  /\ Admissible(b)
  /\ g.identity = Identity(b, f)
  /\ g.digest = {b}
  /\ g.results \subseteq {RefOf(x.record) : x \in {y \in ActiveRows : Current(y.record)}}

\* register, when the key is known: the same batch is told the references of the
\* registration g again, and nothing changes.
Retried(b, f, g) ==
  /\ Admissible(b)
  /\ g.identity = Identity(b, f)
  /\ g.digest = {b}
  /\ g.results \subseteq ActiveRefs

\* _new: a first version under an id that no row of the kind has.
Fresh(r) ==
  /\ r.version = 1
  /\ \A x \in records : x.record.kind = r.kind => x.record.id # r.id

\* Mutant: the state of the head is not compared.
NextVersionOfAny(r) ==
  LET head == {h \in heads : h.id = r.id} IN
  IF head = {}
  THEN r.expected = {} /\ r.version = 1
  ELSE \E h \in head : r.expected = {h.version} /\ r.version = h.version + 1

\* Compare-and-set on the head of a fact.
NextVersion(r) ==
  LET head == {h \in heads : h.id = r.id} IN
  IF head = {}
  THEN r.expected = {} /\ r.version = 1
  ELSE \E h \in head :
         h.active /\ r.expected = {h.version} /\ r.version = h.version + 1

RegisterNew(b, f) ==
  LET facts == {r \in b : r.kind = "fact"}
      refs == {RefOf(r) : r \in b}
  IN
  /\ Admissible(b)
  /\ \A g \in registrations : g.identity # Identity(b, f)
  /\ \A r \in b \ facts : Fresh(r)
  /\ \A r \in facts : NextVersion(r)
  /\ \A r \in b : r.ends \subseteq ActiveRefs \cup refs
  /\ records' = records \cup {[record |-> r, active |-> TRUE] : r \in b}
  /\ heads' = {h \in heads : \A r \in facts : r.id # h.id} \cup
       {[id |-> r.id, version |-> r.version, active |-> TRUE] : r \in facts}
  /\ registrations' = registrations \cup
       {[identity |-> Identity(b, f), digest |-> {b}, results |-> refs]}
  /\ UNCHANGED <<vars, eventRecords>>

-----------------------------------------------------------------------------
(***************************************************************************)
(* Revocation: revoke_records, called by revoke and revoke_turns in the    *)
(* transaction that writes the event.                                      *)
(***************************************************************************)
\* Mutant: the citations of stated reasons are not looked at.
CitingSources(kind, c, revisions) ==
  {x.record.id : x \in {y \in records :
     /\ y.record.kind = kind
     /\ \E q \in y.record.cites : q.conversation = c /\ q.revision \in revisions}}

\* The ids of a kind with a row, of any version and in any state, that quotes one
\* of the given turns, as a source or as a reason.
Citing(kind, c, revisions) ==
  {x.record.id : x \in {y \in records :
     /\ y.record.kind = kind
     /\ \E q \in Quotes(y.record) : q.conversation = c /\ q.revision \in revisions}}

Rests(r, episodes) == \E v \in r.evidence : v.episode.id \in episodes

Touches(r, episodes, facts) ==
  \E e \in r.ends : \/ e.kind = "episode" /\ e.id \in episodes
                    \/ e.kind = "fact" /\ e.id \in facts

\* Mutant: each version of a fact stands for itself.
AffectedVersions(c, revisions) ==
  LET episodes == Citing("episode", c, revisions)
      facts == Citing("fact", c, revisions)
      semantics == Citing("semantic", c, revisions)
  IN {x \in records :
        LET r == x.record IN
        \/ r.kind = "episode" /\ r.id \in episodes
        \/ /\ r.kind = "fact"
           /\ \E q \in Quotes(r) : q.conversation = c /\ q.revision \in revisions
        \/ r.kind = "semantic" /\ (r.id \in semantics \/ Rests(r, episodes))
        \/ r.kind = "episode_fact_link" /\ Touches(r, episodes, facts)}

\* The rows that a revocation of the given turns reaches.
Affected(c, revisions) ==
  LET episodes == Citing("episode", c, revisions)
      facts == Citing("fact", c, revisions)
      semantics == Citing("semantic", c, revisions)
  IN {x \in records :
        LET r == x.record IN
        \/ r.kind = "episode" /\ r.id \in episodes
        \/ r.kind = "fact" /\ r.id \in facts
        \/ r.kind = "semantic" /\ (r.id \in semantics \/ Rests(r, episodes))
        \/ r.kind = "episode_fact_link" /\ Touches(r, episodes, facts)}

\* Mutant: older versions of a fact are not listed.
ListedHeads(affected) ==
  {RefOf(x.record) : x \in {y \in affected : Current(y.record)}}

\* Mutant: what is listed is the record and not its content-free reference.
ListedRows(affected) == {x.record : x \in affected}

\* The references written to memory_event_records, whatever state the rows are in.
Listed(affected) == {RefOf(x.record) : x \in affected}

\* Mutant: the digest goes with the last of the records.
ForgottenWhole(g, refs) ==
  IF g.results \subseteq refs THEN [g EXCEPT !.digest = {}] ELSE g

Forgotten(g, refs) ==
  IF g.results \cap refs # {} THEN [g EXCEPT !.digest = {}] ELSE g

RevokeRecords(c, revisions) ==
  LET affected == Affected(c, revisions)
      refs == Listed(affected)
      facts == Citing("fact", c, revisions)
  IN
  /\ records' = (records \ affected) \cup
       {[record |-> x.record, active |-> FALSE] : x \in affected}
  /\ heads' = {IF h.id \in facts THEN [h EXCEPT !.active = FALSE] ELSE h : h \in heads}
  /\ registrations' = {Forgotten(g, refs) : g \in registrations}
  /\ eventRecords' = eventRecords \cup
       {[event |-> e, ref |-> ref] : e \in memoryEvents' \ memoryEvents, ref \in refs}

\* The store's operations with the revocation they carry out.
DeleteAll(c) == Delete(c) /\ RevokeRecords(c, Nat)

ForgetTurns(c, r, p, scope) ==
  /\ DeleteTurns(c, r, p, scope)
  /\ RevokeRecords(c, Selection(turns[c], p, scope))

\* The revocation inside _activate_private.
Withdraw(c, activate) ==
  IF activate /\ ~privateMode[c] THEN RevokeRecords(c, Nat) ELSE UNCHANGED recordVars

ControlsAll(c, r, p, a) == Controls(c, r, p, a) /\ Withdraw(c, p)

ConfirmAll(c, r, t, i, accept) == Confirm(c, r, t, i, accept) /\ Withdraw(c, accept)

-----------------------------------------------------------------------------
(***************************************************************************)
(* Retrieval: snapshot, in one transaction.                                *)
(***************************************************************************)
\* Active rows, of facts the head version only, whose every source is valid.
Usable ==
  {x.record : x \in {y \in ActiveRows :
     Current(y.record) /\ \A q \in Quotes(y.record) : Valid(q)}}

UsableRefs == {RefOf(r) : r \in Usable}

\* A usable episode with the facts its usable links name, if they are usable too.
EpisodeCandidate(r) ==
  LET links == {l \in Usable : RefOf(r) \in l.ends /\ l.ends \subseteq UsableRefs} IN
  [record |-> r, links |-> links,
   facts |-> {f \in Usable : f.kind = "fact" /\ \E l \in links : RefOf(f) \in l.ends},
   evidence |-> {}]

\* A usable semantic with its evidence, which must be usable too.
SemanticCandidate(r) ==
  [record |-> r, links |-> {}, facts |-> {},
   evidence |-> {e \in Usable : \E v \in r.evidence : RefOf(e) = v.episode}]

\* Mutant: the sources are compared with those of stated reasons added.
SupportedByAll(r) ==
  \A v \in r.evidence : \E e \in Usable :
    RefOf(e) = v.episode /\ SourcesOf(Quotes(e)) = v.sources

\* The sources of the evidence are not stored: both sides of the code's last
\* comparison are read from the same citations.
Supported(r) == \A v \in r.evidence : v.episode \in UsableRefs

Retrievable ==
  {EpisodeCandidate(r) : r \in {q \in Usable : q.kind = "episode"}} \cup
  {SemanticCandidate(r) : r \in {q \in Usable : q.kind = "semantic" /\ Supported(q)}}

-----------------------------------------------------------------------------
RecordsInit ==
  /\ Init
  /\ records = {}
  /\ heads = {}
  /\ registrations = {}
  /\ eventRecords = {}

Register == \E b \in Batch, f \in Formation : RegisterNew(b, f)

\* The store's operations that revoke nothing.
Quiet ==
  /\ \/ \E c \in Conversation : Create(c)
     \/ Retry
     \/ Commit
     \/ \E n \in sourceDeletions : AcknowledgeDeletion(n)
     \/ \E n \in turnDeletions : AcknowledgeTurnDeletion(n)
  /\ UNCHANGED recordVars

RecordsNext ==
  \/ Register
  \/ Quiet
  \/ \E c \in Conversation : DeleteAll(c)
  \/ \E c \in Conversation, r, p \in 0 .. MaxRevision,
        scope \in {"selected", "following"} : ForgetTurns(c, r, p, scope)
  \/ \E c \in Conversation, r \in 0 .. MaxRevision, p, a \in BOOLEAN :
       ControlsAll(c, r, p, a)
  \/ \E c \in Conversation, r \in 0 .. MaxRevision, accept \in BOOLEAN :
       \E t \in turns[c] : \E i \in t.pending : ConfirmAll(c, r, t, i, accept)

RecordsSpec == RecordsInit /\ [][RecordsNext]_memoryVars

-----------------------------------------------------------------------------
Row == [record : Record, active : BOOLEAN]
FactHead == [id : RecordId, version : Nat, active : BOOLEAN]

Registration ==
  [identity : [quotes : SUBSET Citation, formation : Formation,
               links : SUBSET SUBSET Ref],
   digest : SUBSET Batch, results : SUBSET Ref]

RecordsTypeOK ==
  /\ records \subseteq Row
  /\ heads \subseteq FactHead
  /\ registrations \subseteq Registration
  /\ eventRecords \subseteq [event : MemoryEvent, ref : Ref]

\* Every active memory rests on messages that the user lets be remembered at this
\* moment, directly and through the episodes and facts it is built on.
ActiveIsGrounded ==
  \A x \in ActiveRows :
    /\ \A q \in Quotes(x.record) : Valid(q)
    /\ \A v \in x.record.evidence : v.episode \in ActiveRefs
    /\ x.record.ends \subseteq ActiveRefs

\* The versions of a fact stand or fall together, and the head is the last of them.
VersionsAgree ==
  \A x \in records : x.record.kind = "fact" =>
    \E h \in heads :
      /\ h.id = x.record.id
      /\ x.active = h.active
      /\ x.record.version <= h.version
      /\ \E y \in records : RefOf(y.record) =
           [kind |-> "fact", id |-> h.id, version |-> h.version]

\* Nothing derived from a text outlives it: where the digest of a registration is
\* kept, everything it registered is still active.
DigestsForgotten ==
  \A g \in registrations : g.digest # {} => g.results \subseteq ActiveRefs

\* A registration that has lost nothing can be repeated: whoever missed the reply
\* sends the batch again and is told the same references.
RetriesAnswered ==
  \A g \in registrations : \A b \in g.digest : Retried(b, g.identity.formation, g)

\* Each suspended record is listed under a revocation event, where the formation
\* of memories finds what it has to reconsider.
SuspensionsListed ==
  \A x \in records \ ActiveRows : \E n \in eventRecords :
    n.event \in memoryEvents /\ n.ref = RefOf(x.record)

\* Retrieval, which checks sources, versions and evidence anew, hides no record
\* that registration and revocation leave active.
ActiveIsRetrieved ==
  \A x \in ActiveRows : x.record.kind \in {"episode", "semantic"} =>
    \E m \in Retrievable : m.record = x.record

\* A suspended record is never active again, whatever is registered under its name.
NeverRevived ==
  [][\A x \in records : ~x.active =>
       \A y \in records' :
         y.record.kind = x.record.kind /\ y.record.id = x.record.id => ~y.active]_memoryVars

-----------------------------------------------------------------------------
(***************************************************************************)
(* The inductive invariant behind the properties above, in named parts.    *)
(***************************************************************************)
\* Every row came with a batch, in the shape the constructors allow.
RowsFromBatches == \A x \in records : \E b \in Batch : x.record \in b

\* A fact has one head.
HeadsUnique == \A h, k \in heads : h.id = k.id => h = k

\* An identifier of a kind names one row, that of a fact one row per version.
RowsUnique ==
  \A x, y \in records :
    /\ x.record.kind = y.record.kind
    /\ x.record.id = y.record.id
    /\ x.record.kind = "fact" => x.record.version = y.record.version
    => x = y

\* Where a registration keeps its digest, the whole batch is still there, and what
\* its evidence named is what it names now.
BatchesWhole ==
  \A g \in registrations : \A b \in g.digest :
    /\ b \in Batch
    /\ g.digest = {b}
    /\ g.results = {RefOf(r) : r \in b}
    /\ g.identity = Identity(b, g.identity.formation)
    /\ \A r \in b : [record |-> r, active |-> TRUE] \in records
    /\ \A r, s \in b : r.kind = s.kind /\ r.id = s.id => r = s
    /\ Witnessed(b)

RecordsInv ==
  /\ RecordsTypeOK
  /\ RowsFromBatches
  /\ HeadsUnique
  /\ RowsUnique
  /\ VersionsAgree
  /\ ActiveIsGrounded
  /\ BatchesWhole
  /\ SuspensionsListed
=============================================================================
