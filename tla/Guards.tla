-------------------------------- MODULE Guards --------------------------------
(***************************************************************************)
(* What one request may send (application.py, prepare and check;           *)
(* privacy.py; memory.py; memory_retrieval.py): permissions, the verdict   *)
(* of the classifier and the memories it quotes are looked at before and   *)
(* after every await, while the operator configures the policy and the     *)
(* memory service, and memories are revoked.                               *)
(*                                                                         *)
(* A step ends at an await, or in a phase where the task goes on running:  *)
(* there nothing else of the process runs.  Verdicts on a text, the        *)
(* ranking and the assembly of the prompt are choices.                     *)
(***************************************************************************)
EXTENDS Naturals

CONSTANTS
  Policy,      \* PrivacyPolicy objects
  Classifier,  \* managed local classifiers
  Embedding,   \* embedding services
  Retrieval,   \* retrieval policies
  Store,       \* memory record stores
  Context,     \* MemoryContext objects over the one memory service
  Memory,      \* what the stores may hold
  None,        \* none of these
  Grants,      \* the sets of permissions the operator may configure
  MaxChanges,  \* bound: how often anything is configured or revoked meanwhile
  MaxCounts    \* bound: how often tokens are counted

Permission == {"local", "external", "memory"}

ASSUME GrantsAssumption == Grants \subseteq SUBSET Permission

ASSUME BoundsAssumption == MaxChanges \in Nat /\ MaxCounts \in Nat

ASSUME NoneAssumption ==
  None \notin Classifier /\ None \notin Embedding /\ None \notin Context

VARIABLES
  policies,       \* the PrivacyPolicy objects: grants for this Binding, classifier, generations
  privacy,        \* Inference.privacy
  memoryContext,  \* Inference.memory_context
  service,        \* the attributes of MemoryRetrieval
  stored,         \* what is retrievable from each store now
  request,        \* where the request goes, how its tokens are counted, what it is
  pc,             \* where the request is
  task,           \* its local variables
  (*------------------------ observability variables ----------------------*)
  out,            \* what the last step has sent
  changes,        \* how often anything was changed
  stale,          \* the policy was changed after it first permitted the request
  retired         \* the embedding was assigned after the lookup began

configured == <<policies, privacy, memoryContext, service, stored>>
noted == <<changes, stale, retired>>
vars == <<configured, request, pc, task, out, noted>>

PolicyState ==
  [grants : SUBSET Permission, classifier : Classifier \cup {None},
   generation : Nat, classifierGeneration : Nat]

Service ==
  [policy : Policy, embedding : Embedding \cup {None}, generation : Nat,
   retrieval : Retrieval, records : Store]

Running == {"looking", "building"}
Awaiting == {"permitting", "context", "query", "candidates", "embedding",
             "results", "counting", "judging"}
Over == {"sent", "denied", "revoked", "failed"}

\* PrivacyPolicy.stamp
Stamp(p) == <<policies[p].generation, policies[p].classifierGeneration>>

Permits(p, permission) == permission \in policies[p].grants

Init ==
  /\ policies \in
       [Policy -> {[grants |-> g, classifier |-> k, generation |-> 1,
                    classifierGeneration |-> 1] : g \in Grants, k \in Classifier \cup {None}}]
  /\ privacy \in Policy
  /\ memoryContext \in Context \cup {None}
  /\ service \in [policy : Policy, embedding : Embedding \cup {None}, generation : {1},
                  retrieval : Retrieval, records : Store]
  /\ policies[service.policy].classifier # None
  /\ stored \in [Store -> SUBSET Memory]
  /\ request \in [destination : {"local", "external"}, counter : {"llamacpp", "estimate"},
                  stateful : BOOLEAN, query : BOOLEAN]
  /\ request.counter = "llamacpp" => request.destination = "local"
  /\ pc = "new"
  /\ task = [policy |-> privacy, stamp |-> Stamp(privacy), context |-> None,
             asked |-> <<1, None>>, seen |-> service, candidates |-> {}, ranked |-> {},
             guarded |-> "none", quotes |-> {}, payload |-> {}, counts |-> 0]
  /\ out = {}
  /\ changes = 0
  /\ stale = FALSE
  /\ retired = FALSE

-----------------------------------------------------------------------------
(***************************************************************************)
(* PrivacyPolicy.authorize: what it checks before the classifier is asked, *)
(* what it remembers, and what it checks when the classifier has answered. *)
(* For "local" no classifier is asked and nothing is awaited.              *)
(***************************************************************************)
\* Mutant: the classifier is asked without leave to use a local model.
MayAskAnyhow(p, permission) == Permits(p, permission) /\ policies[p].classifier # None

MayAsk(p, permission) ==
  Permits(p, permission) /\ Permits(p, "local") /\ policies[p].classifier # None

Asked(p) == <<policies[p].generation, policies[p].classifier>>

\* The classifier found nothing, and nothing was changed while it was looking.
Confirmed(permission) ==
  task.asked = Asked(task.policy) /\ Permits(task.policy, permission)

Sends(to, memories) == out' = {[to |-> to, memories |-> memories]}

SendsNothing == out' = {}

-----------------------------------------------------------------------------
(***************************************************************************)
(* The guards of prepare, of search and of the memory context.             *)
(***************************************************************************)
\* prepare: authorized()
Authorized ==
  /\ privacy = task.policy
  /\ Stamp(task.policy) = task.stamp
  /\ memoryContext = task.context

\* Mutant: the search looks at the configuration only.
UnchangedButRevoked(memories) ==
  Authorized /\ service = task.seen /\ policies[task.policy].classifier # None

\* search: check()
Unchanged(memories) ==
  /\ Authorized
  /\ service = task.seen
  /\ policies[task.policy].classifier # None
  /\ memories \subseteq stored[service.records]

\* Mutant: leave to use memories is required though none is quoted.
StillGuardedAlways ==
  /\ Authorized
  /\ service.policy = task.policy
  /\ task.guarded = "full" =>
       /\ service = task.seen
       /\ policies[task.policy].classifier # None
       /\ Permits(task.policy, "memory") /\ Permits(task.policy, "local")
       /\ task.quotes \subseteq stored[service.records]

\* MemoryContext.context: valid(), and the guard of a lookup that has failed.
StillGuarded ==
  /\ Authorized
  /\ service.policy = task.policy
  /\ task.guarded = "full" =>
       /\ service = task.seen
       /\ policies[task.policy].classifier # None
       /\ task.quotes # {} =>
            /\ Permits(task.policy, "memory") /\ Permits(task.policy, "local")
            /\ task.quotes \subseteq stored[service.records]

\* prepare: valid()
Valid ==
  /\ privacy = task.policy
  /\ Stamp(task.policy) = task.stamp
  /\ task.guarded = "none" \/ StillGuarded

-----------------------------------------------------------------------------
\* The request ends without being sent.
Ends(outcome) == pc' = outcome /\ SendsNothing /\ UNCHANGED task

\* prepare, to its first authorize; a local model needs no classifier.
Enter ==
  /\ pc = "new"
  /\ \/ /\ request.destination = "external"
        /\ IF MayAsk(privacy, "external")
           THEN /\ pc' = "permitting"
                /\ task' = [task EXCEPT !.policy = privacy, !.asked = Asked(privacy)]
                /\ Sends("classifier", {})
           ELSE Ends("denied")
     \/ /\ request.destination = "local"
        /\ IF Permits(privacy, "local")
           THEN /\ pc' = "context"
                /\ task' = [task EXCEPT !.policy = privacy, !.stamp = Stamp(privacy)]
                /\ SendsNothing
           ELSE Ends("denied")

\* The first authorize has returned: the stamp is taken.
Permit ==
  /\ pc = "permitting"
  /\ \/ /\ Confirmed("external")
        /\ privacy = task.policy
        /\ pc' = "context"
        /\ task' = [task EXCEPT !.stamp = Stamp(privacy)]
        /\ SendsNothing
     \/ Ends("denied")

\* The context source has answered: the memory context is taken.
Attach ==
  /\ pc = "context"
  /\ IF privacy = task.policy /\ Stamp(privacy) = task.stamp
     THEN /\ pc' = "looking"
          /\ task' = [task EXCEPT !.context = memoryContext]
          /\ SendsNothing
     ELSE Ends("revoked")

\* The lookup is over, and what search has collected is gone.
Looked(kind, memories) ==
  /\ pc' = "building"
  /\ task' = [task EXCEPT !.guarded = kind, !.quotes = memories, !.seen = service,
                          !.candidates = {}, !.ranked = {}]
  /\ SendsNothing

\* A failed lookup quotes nothing, and the request goes on.
LookupFails ==
  /\ pc' = "building"
  /\ task' = [task EXCEPT !.guarded = "empty", !.candidates = {}, !.ranked = {}]
  /\ SendsNothing

SearchPossible == request.query /\ Permits(task.policy, "memory")

\* MemoryContext.context, to the first await of search.
Look ==
  /\ pc = "looking"
  /\ \/ /\ ~request.stateful \/ task.context = None
        /\ Looked("none", {})
     \/ /\ request.stateful /\ task.context # None
        /\ \/ service.policy # task.policy /\ Ends("denied")
           \/ /\ service.policy = task.policy
              /\ \/ /\ \/ policies[task.policy].classifier = None
                       \/ SearchPossible /\ ~MayAsk(task.policy, "memory")
                    /\ LookupFails
                 \/ /\ policies[task.policy].classifier # None
                    /\ ~SearchPossible
                    /\ Looked("full", {})
                 \/ /\ SearchPossible
                    /\ MayAsk(task.policy, "memory")
                    /\ pc' = "query"
                    /\ task' = [task EXCEPT !.seen = service, !.asked = Asked(task.policy)]
                    /\ Sends("classifier", {})

\* The texts of the memories go to the classifier.
AsksAbout(memories, phase, state) ==
  /\ MayAsk(task.policy, "memory")
  /\ pc' = phase
  /\ task' = [state EXCEPT !.asked = Asked(task.policy)]
  /\ Sends("classifier", memories)

\* The query is permitted, and the candidates are read.
Query ==
  /\ pc = "query"
  /\ \/ LookupFails
     \/ /\ Unchanged({})
        /\ Confirmed("memory")
        /\ LET found == stored[service.records] IN
           IF service.embedding = None \/ found = {}
           THEN Looked("full", {})
           ELSE AsksAbout(found, "candidates", [task EXCEPT !.candidates = found])

\* The candidates are permitted, and are embedded.
Embed ==
  /\ pc = "candidates"
  /\ \/ LookupFails
     \/ /\ Unchanged(task.candidates)
        /\ Confirmed("memory")
        /\ pc' = "embedding"
        /\ Sends("embedding", task.candidates)
        /\ UNCHANGED task

\* Mutant: the best are quoted before they are permitted.
RankEarly ==
  /\ pc = "embedding"
  /\ \/ LookupFails
     \/ /\ Unchanged(task.candidates)
        /\ \E best \in SUBSET task.candidates :
             AsksAbout(best, "results", [task EXCEPT !.ranked = best, !.quotes = best])

\* The vectors have come, and the best candidates are chosen.
Rank ==
  /\ pc = "embedding"
  /\ \/ LookupFails
     \/ /\ Unchanged(task.candidates)
        /\ \E best \in SUBSET task.candidates :
             AsksAbout(best, "results", [task EXCEPT !.ranked = best])

\* The result is permitted: search and the lookup return.
Choose ==
  /\ pc = "results"
  /\ \/ LookupFails
     \/ /\ Unchanged(task.candidates)
        /\ Confirmed("memory")
        /\ Looked("full", task.ranked)

-----------------------------------------------------------------------------
\* LlamaCppTokenCounter: before each of its sends it asks authorize_count.  A part
\* of the prompt is counted at a time.
Count ==
  /\ pc \in {"building", "counting"}
  /\ request.counter = "llamacpp"
  /\ task.counts < MaxCounts
  /\ IF Valid /\ Permits(task.policy, "local")
     THEN \E part \in SUBSET task.quotes :
            /\ pc' = "counting"
            /\ task' = [task EXCEPT !.counts = @ + 1]
            /\ Sends("counter", part)
     ELSE Ends(IF Valid THEN "denied" ELSE "revoked")

\* The counter does not answer, or the prompt does not fit.
GiveUp ==
  /\ pc \in {"building", "counting"}
  /\ Ends("failed")

\* The prompt is assembled.  For a local model the rest follows without an await.
Assemble ==
  /\ pc \in {"building", "counting"}
  /\ pc = "building" => request.counter = "estimate"
  /\ IF privacy # task.policy
     THEN Ends("denied")
     ELSE \E part \in SUBSET task.quotes :
       \/ /\ request.destination = "external"
          /\ IF MayAsk(privacy, "external")
             THEN /\ pc' = "judging"
                  /\ task' = [task EXCEPT !.asked = Asked(privacy), !.payload = part]
                  /\ Sends("classifier", part)
             ELSE Ends("denied")
       \/ /\ request.destination = "local"
          /\ IF ~Permits(privacy, "local")
             THEN Ends("denied")
             ELSE IF ~Valid
             THEN Ends("revoked")
             ELSE /\ pc' = "sent"
                  /\ task' = [task EXCEPT !.payload = part]
                  /\ Sends("provider", part)

\* The whole payload is permitted: check(), and the provider is called.
Dispatch ==
  /\ pc = "judging"
  /\ \/ Ends("denied")
     \/ /\ Confirmed("external")
        /\ privacy = task.policy
        /\ IF Valid
           THEN pc' = "sent" /\ Sends("provider", task.payload) /\ UNCHANGED task
           ELSE Ends("revoked")

Proceed ==
  /\ \/ Enter \/ Permit \/ Attach
     \/ Look \/ Query \/ Embed \/ Rank \/ Choose
     \/ Count \/ GiveUp \/ Assemble \/ Dispatch
  /\ UNCHANGED <<configured, request, noted>>

-----------------------------------------------------------------------------
(***************************************************************************)
(* What may happen at an await.  A revocation that another process commits *)
(* while the request is running is seen as one that comes right after.     *)
(***************************************************************************)
Change ==
  /\ pc \in Awaiting
  /\ changes < MaxChanges
  /\ changes' = changes + 1
  /\ SendsNothing
  /\ UNCHANGED <<request, pc, task>>

\* Mutant: consent that is replaced does not count as new.
ConfigureQuietly(p, g) ==
  /\ policies' = [policies EXCEPT ![p].grants = g]
  /\ stale' = (stale \/ p = task.policy)
  /\ UNCHANGED <<privacy, memoryContext, service, stored, retired>>

\* PrivacyPolicy.configure
Configure(p, g) ==
  /\ policies' = [policies EXCEPT ![p].grants = g, ![p].generation = @ + 1]
  /\ stale' = (stale \/ p = task.policy)
  /\ UNCHANGED <<privacy, memoryContext, service, stored, retired>>

\* The setter of PrivacyPolicy.classifier
SetClassifier(p, k) ==
  /\ policies' = [policies EXCEPT ![p].classifier = k, ![p].generation = @ + 1,
                                  ![p].classifierGeneration = @ + 1]
  /\ stale' = (stale \/ p = task.policy)
  /\ UNCHANGED <<privacy, memoryContext, service, stored, retired>>

\* Inference.privacy and Inference.memory_context are assigned.
Replace(p, x) ==
  /\ privacy' = p
  /\ memoryContext' = x
  /\ UNCHANGED <<policies, service, stored, stale, retired>>

\* The setter of MemoryRetrieval.embedding: even the same one retires what is pending.
SetEmbedding(e) ==
  /\ service' = [service EXCEPT !.embedding = e, !.generation = @ + 1]
  /\ retired' = (retired \/ pc \in Awaiting \ {"permitting", "context"})
  /\ UNCHANGED <<policies, privacy, memoryContext, stored, stale>>

\* The other attributes of MemoryRetrieval are assigned.
Retune(p, r, s) ==
  /\ service' = [service EXCEPT !.policy = p, !.retrieval = r, !.records = s]
  /\ UNCHANGED <<policies, privacy, memoryContext, stored, stale, retired>>

\* Memories are revoked, changed by a new link, or registered.
Rewrite(s, memories) ==
  /\ stored' = [stored EXCEPT ![s] = memories]
  /\ UNCHANGED <<policies, privacy, memoryContext, service, stale, retired>>

Disturb ==
  /\ Change
  /\ \/ \E p \in Policy, g \in Grants : Configure(p, g)
     \/ \E p \in Policy, k \in Classifier \cup {None} : SetClassifier(p, k)
     \/ \E p \in Policy, x \in Context \cup {None} : Replace(p, x)
     \/ \E e \in Embedding \cup {None} : SetEmbedding(e)
     \/ \E p \in Policy, r \in Retrieval, s \in Store : Retune(p, r, s)
     \/ \E s \in Store, memories \in SUBSET Memory : Rewrite(s, memories)

Next == Proceed \/ Disturb

Spec == Init /\ [][Next]_vars

-----------------------------------------------------------------------------
Task ==
  [policy : Policy, stamp : Nat \X Nat, context : Context \cup {None},
   asked : Nat \X (Classifier \cup {None}), seen : Service,
   candidates : SUBSET Memory, ranked : SUBSET Memory,
   guarded : {"none", "empty", "full"}, quotes : SUBSET Memory,
   payload : SUBSET Memory, counts : 0 .. MaxCounts]

\* Above all: what is quoted is guarded, and what is in the prompt is quoted.
GuardsTypeOK ==
  /\ policies \in [Policy -> PolicyState]
  /\ privacy \in Policy
  /\ memoryContext \in Context \cup {None}
  /\ service \in Service
  /\ stored \in [Store -> SUBSET Memory]
  /\ request \in [destination : {"local", "external"}, counter : {"llamacpp", "estimate"},
                  stateful : BOOLEAN, query : BOOLEAN]
  /\ pc \in {"new"} \cup Running \cup Awaiting \cup Over
  /\ task \in Task
  /\ task.quotes # {} => task.guarded = "full"
  /\ task.payload \subseteq task.quotes
  /\ out \subseteq [to : {"classifier", "embedding", "counter", "provider"},
                    memories : SUBSET Memory]
  /\ changes \in 0 .. MaxChanges
  /\ stale \in BOOLEAN
  /\ retired \in BOOLEAN

\* Wherever the text of a memory goes, the memory is retrievable at that moment.
SentCurrent ==
  \A o \in out : o.memories \subseteq stored[service.records]

\* Whatever leaves, the policy permits it at that moment: the destination, the use
\* of a local model, and the use of memories where there are any.
SentPermitted ==
  \A o \in out :
    /\ Permits(privacy, "local")
    /\ o.to = "provider" => Permits(privacy, request.destination)
    /\ o.to = "embedding" \/ o.memories # {} => Permits(privacy, "memory")

\* "Outstanding decisions become stale": consent that is withdrawn stays withdrawn for
\* what is under way, though it is given again; and memories chosen with an embedding
\* that was assigned anew are not used.
SentUndisturbed ==
  \A o \in out :
    /\ o.to \in {"counter", "provider"} => ~stale
    /\ o.memories # {} => ~stale /\ ~retired

\* Whatever leaves, to whichever service and whatever changed while it was prepared, is
\* current, permitted and decided under nothing that has been replaced.
SentSafely == SentCurrent /\ SentPermitted /\ SentUndisturbed

\* A request is not refused for a changed authorization if nothing was changed.
RefusedForCause == pc = "revoked" => changes > 0
===============================================================================
