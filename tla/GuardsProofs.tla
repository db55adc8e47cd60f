----------------------------- MODULE GuardsProofs -----------------------------
(***************************************************************************)
(* Whatever a request sends is permitted and current, and its decisions    *)
(* are undisturbed: for every number of policies, memories and changes.    *)
(*                                                                         *)
(* A guard compares generations, so the invariant says what a generation   *)
(* that is still the same tells about the grants, the consent and the      *)
(* embedding; and what is known while the task runs without an await.      *)
(***************************************************************************)
EXTENDS Guards, TLAPS

Searching == {"query", "candidates", "embedding", "results"}
Built == {"building", "counting", "judging"}
Attached == {"looking"} \cup Searching \cup Built
Stamped == {"context"} \cup Attached

Generation == policies[task.policy].generation

\* What belongs to a phase.
Shape ==
  /\ request.counter = "llamacpp" => request.destination = "local"
  /\ pc = "counting" => request.counter = "llamacpp"
  /\ pc \in {"permitting", "judging"} => request.destination = "external"
  /\ pc \in {"new", "permitting", "context", "looking"} \cup Searching =>
       task.guarded = "none" /\ task.quotes = {}
  /\ pc \notin {"judging", "sent", "denied", "revoked", "failed"} => task.payload = {}
  /\ pc \in Searching => task.seen.policy = task.policy
  /\ pc \notin Over =>
       task.ranked \subseteq (IF pc = "results" THEN task.candidates ELSE {})

\* Consent that was changed has a later generation than the decisions under it.
Consented ==
  /\ pc = "new" => ~stale
  /\ pc = "permitting" /\ stale => task.asked[1] < Generation
  /\ pc \in Stamped =>
       /\ task.stamp[1] <= Generation
       /\ stale => task.stamp[1] < Generation

\* The grants under which the classifier was asked are still there, or the
\* generation is a later one.
Asking ==
  pc \in {"permitting", "judging"} \cup Searching =>
    /\ task.asked[1] <= Generation
    /\ task.asked[1] = Generation => Permits(task.policy, "local")

\* The same of the embedding and the lookup.
Looking ==
  /\ pc \in {"new", "permitting", "context", "looking"} => ~retired
  /\ task.seen.generation <= service.generation
  /\ retired => task.seen.generation < service.generation

\* What is known where the task has been running since its last guard.
Known ==
  /\ pc = "looking" => privacy = task.policy
  /\ pc = "building" /\ task.quotes # {} =>
       /\ Unchanged(task.quotes)
       /\ Permits(task.policy, "memory") /\ Permits(task.policy, "local")

\* As long as nothing is changed, every guard holds.
Calm ==
  changes = 0 =>
    /\ pc \in {"permitting"} \cup Stamped => privacy = task.policy
    /\ pc \in Stamped => Stamp(task.policy) = task.stamp
    /\ pc \in Attached => memoryContext = task.context
    /\ pc \in Searching => service = task.seen
    /\ pc \in Built => Valid
    /\ pc # "revoked"

GuardsInv == GuardsTypeOK /\ Shape /\ Consented /\ Asking /\ Looking /\ Known /\ Calm

-----------------------------------------------------------------------------
LEMMA InitInv == Init => GuardsInv /\ out = {}
<1> SUFFICES ASSUME Init PROVE GuardsInv /\ out = {}
  OBVIOUS
<1> USE DEF Init
<1>1. GuardsTypeOK
  <2>1. policies \in [Policy -> PolicyState]
    BY GrantsAssumption DEF PolicyState
  <2>2. service \in Service
    BY DEF Service
  <2>3. task \in Task
    <3>1. Stamp(privacy) \in Nat \X Nat
      BY <2>1 DEF Stamp, PolicyState
    <3>2. QED
      BY <2>2, <3>1, BoundsAssumption DEF Task
  <2>4. task.quotes = {} /\ task.payload = {}
    OBVIOUS
  <2>5. privacy \in Policy /\ memoryContext \in Context \cup {None}
    OBVIOUS
  <2>6. stored \in [Store -> SUBSET Memory]
    OBVIOUS
  <2>7. request \in [destination : {"local", "external"}, counter : {"llamacpp", "estimate"},
                     stateful : BOOLEAN, query : BOOLEAN]
    OBVIOUS
  <2>8. pc \in {"new"} \cup Running \cup Awaiting \cup Over
    OBVIOUS
  <2>9. out = {} /\ changes \in 0 .. MaxChanges
    BY BoundsAssumption
  <2>10. stale \in BOOLEAN /\ retired \in BOOLEAN
    OBVIOUS
  <2>11. QED
    BY <2>1, <2>2, <2>3, <2>4, <2>5, <2>6, <2>7, <2>8, <2>9, <2>10 DEF GuardsTypeOK
<1>2. Shape /\ Consented /\ Asking /\ Looking /\ Known /\ Calm
  BY <1>1
  DEF Shape, Over, Consented, Asking, Looking, Known, Calm, Searching, Built, Attached, Stamped,
      GuardsTypeOK, Service
<1>3. QED
  BY <1>1, <1>2 DEF GuardsInv

-----------------------------------------------------------------------------
\* What the guards tell.
LEMMA GenerationsNatural ==
  ASSUME GuardsTypeOK
  PROVE  /\ task.policy \in Policy
         /\ Generation \in Nat
         /\ task.stamp[1] \in Nat
         /\ task.asked[1] \in Nat
         /\ task.seen.generation \in Nat
         /\ service.generation \in Nat
BY DEF GuardsTypeOK, Task, PolicyState, Service, Generation

LEMMA StampTells ==
  ASSUME GuardsInv, pc \in Stamped, Stamp(task.policy) = task.stamp
  PROVE  ~stale
BY GenerationsNatural DEF GuardsInv, Consented, Stamp, Generation

LEMMA UnchangedTells ==
  ASSUME GuardsInv, pc \in Stamped, NEW M, Unchanged(M)
  PROVE  /\ privacy = task.policy
         /\ service = task.seen
         /\ ~stale
         /\ ~retired
         /\ M \subseteq stored[service.records]
BY StampTells, GenerationsNatural DEF GuardsInv, Unchanged, Authorized, Looking

LEMMA ConfirmedTells ==
  ASSUME GuardsInv, pc \in {"permitting", "judging"} \cup Searching,
         NEW permission, Confirmed(permission)
  PROVE  /\ Permits(task.policy, permission)
         /\ Permits(task.policy, "local")
         /\ task.asked[1] = Generation
BY DEF GuardsInv, Asking, Confirmed, Asked, Generation

LEMMA ValidTells ==
  ASSUME GuardsInv, pc \in Built, Valid
  PROVE  /\ privacy = task.policy
         /\ ~stale
         /\ task.quotes # {} =>
              /\ ~retired
              /\ Permits(task.policy, "memory")
              /\ task.quotes \subseteq stored[service.records]
<1>1. privacy = task.policy /\ ~stale
  BY StampTells DEF Valid, Stamped, Attached
<1>2. ASSUME task.quotes # {}
      PROVE  /\ ~retired
             /\ Permits(task.policy, "memory")
             /\ task.quotes \subseteq stored[service.records]
  <2>1. task.guarded = "full"
    BY <1>2 DEF GuardsInv, GuardsTypeOK
  <2>2. StillGuarded
    BY <2>1 DEF Valid
  <2>3. service = task.seen
    BY <2>1, <2>2 DEF StillGuarded
  <2>4. ~retired
    BY <2>3, GenerationsNatural DEF GuardsInv, Looking
  <2>5. QED
    BY <1>2, <2>1, <2>2, <2>4 DEF StillGuarded
<1>3. QED
  BY <1>1, <1>2

-----------------------------------------------------------------------------
\* What the steps of the request leave alone.
Frame == UNCHANGED <<configured, request, noted>>

Safe == SentCurrent /\ SentPermitted /\ SentUndisturbed

LEMMA SendsType ==
  ASSUME NEW to \in {"classifier", "embedding", "counter", "provider"},
         NEW M \in SUBSET Memory, Sends(to, M)
  PROVE  out' \subseteq [to : {"classifier", "embedding", "counter", "provider"},
                         memories : SUBSET Memory]
BY DEF Sends

LEMMA SilentSafe ==
  ASSUME SendsNothing
  PROVE  Safe'
BY DEF SendsNothing, Safe, SentCurrent, SentPermitted, SentUndisturbed

LEMMA EndsInv ==
  ASSUME GuardsInv, Frame, NEW outcome \in {"denied", "failed"}, Ends(outcome)
  PROVE  GuardsInv' /\ Safe'
<1> USE DEF Ends, SendsNothing, Frame, configured, noted
<1>1. GuardsTypeOK'
  BY DEF GuardsInv, GuardsTypeOK, Over, Permits
<1>2. (Shape /\ Consented /\ Asking /\ Looking /\ Known)'
  BY DEF GuardsInv, Shape, Over, Consented, Asking, Looking, Known, Searching, Stamped, Attached,
         Built, Generation, GuardsTypeOK
<1>3. Calm'
  BY DEF Calm, Searching, Stamped, Attached, Built
<1>4. QED
  BY <1>1, <1>2, <1>3, SilentSafe DEF GuardsInv

LEMMA RevokedInv ==
  ASSUME GuardsInv, Frame, Ends("revoked"), changes # 0
  PROVE  GuardsInv' /\ Safe'
<1> USE DEF Ends, SendsNothing, Frame, configured, noted
<1>1. GuardsTypeOK'
  BY DEF GuardsInv, GuardsTypeOK, Over, Permits
<1>2. (Shape /\ Consented /\ Asking /\ Looking /\ Known)'
  BY DEF GuardsInv, Shape, Over, Consented, Asking, Looking, Known, Searching, Stamped, Attached,
         Built, Generation, GuardsTypeOK
<1>3. Calm'
  BY DEF Calm
<1>4. QED
  BY <1>1, <1>2, <1>3, SilentSafe DEF GuardsInv

-----------------------------------------------------------------------------
LEMMA EnterInv ==
  ASSUME GuardsInv, Frame, Enter
  PROVE  GuardsInv' /\ Safe'
<1> USE DEF Frame, configured, noted
<1>1. CASE Ends("denied")
  BY <1>1, EndsInv
<1>2. CASE /\ request.destination = "external"
           /\ MayAsk(privacy, "external")
           /\ pc' = "permitting"
           /\ task' = [task EXCEPT !.policy = privacy, !.asked = Asked(privacy)]
           /\ Sends("classifier", {})
  <2>1. Asked(privacy) \in Nat \X (Classifier \cup {None})
    BY DEF GuardsInv, GuardsTypeOK, Asked, PolicyState
  <2>2. GuardsTypeOK'
    <3>1. task' \in Task
      BY <1>2, <2>1 DEF GuardsInv, GuardsTypeOK, Task
    <3>2. task'.quotes = task.quotes /\ task'.guarded = task.guarded
            /\ task'.payload = task.payload
      BY <1>2 DEF GuardsInv, GuardsTypeOK, Task
    <3>3. QED
      BY <1>2, <3>1, <3>2, SendsType DEF GuardsInv, GuardsTypeOK, Awaiting
  <2>3. (Shape /\ Consented /\ Looking /\ Known /\ Calm)'
    BY <1>2, <2>1
    DEF Enter, GuardsInv, GuardsTypeOK, Task, Shape, Over, Consented, Looking, Known, Calm, Searching,
        Stamped, Attached, Built
  <2>4. Asking'
    BY <1>2, <2>1, GenerationsNatural
    DEF Enter, GuardsInv, GuardsTypeOK, PolicyState, Task, Asking, Searching, Asked, MayAsk,
        Permits, Generation
  <2>5. Safe'
    BY <1>2 DEF Safe, SentCurrent, SentPermitted, SentUndisturbed, Sends, MayAsk, Permits
  <2>6. QED
    BY <2>2, <2>3, <2>4, <2>5 DEF GuardsInv
<1>3. CASE /\ request.destination = "local"
           /\ pc' = "context"
           /\ task' = [task EXCEPT !.policy = privacy, !.stamp = Stamp(privacy)]
           /\ SendsNothing
  <2>1. Stamp(privacy) \in Nat \X Nat
    BY DEF GuardsInv, GuardsTypeOK, Stamp, PolicyState
  <2>2. GuardsTypeOK'
    BY <1>3, <2>1 DEF GuardsInv, GuardsTypeOK, Task, SendsNothing, Awaiting
  <2>3. (Shape /\ Asking /\ Looking /\ Known)'
    BY <1>3, <2>1
    DEF Enter, GuardsInv, GuardsTypeOK, Task, Shape, Over, Asking, Looking, Known, Searching
  <2>4. Consented'
    BY <1>3, <2>1
    DEF Enter, GuardsInv, GuardsTypeOK, PolicyState, Task, Consented, Stamp, Generation
  <2>5. Calm'
    BY <1>3 DEF Enter, GuardsInv, GuardsTypeOK, Task, Calm, Searching, Attached, Built, Stamp
  <2>6. QED
    BY <1>3, <2>2, <2>3, <2>4, <2>5, SilentSafe DEF GuardsInv
<1>4. QED
  BY <1>1, <1>2, <1>3 DEF Enter

LEMMA PermitInv ==
  ASSUME GuardsInv, Frame, Permit
  PROVE  GuardsInv' /\ Safe'
<1> USE DEF Frame, configured, noted
<1>1. CASE Ends("denied")
  BY <1>1, EndsInv
<1>2. CASE /\ Confirmed("external")
           /\ privacy = task.policy
           /\ pc' = "context"
           /\ task' = [task EXCEPT !.stamp = Stamp(privacy)]
           /\ SendsNothing
  <2>1. Stamp(privacy) \in Nat \X Nat
    BY DEF GuardsInv, GuardsTypeOK, Stamp, PolicyState
  <2>2. GuardsTypeOK'
    BY <1>2, <2>1 DEF GuardsInv, GuardsTypeOK, Task, SendsNothing, Awaiting
  <2>3. (Shape /\ Asking /\ Looking /\ Known)'
    BY <1>2, <2>1
    DEF Permit, GuardsInv, GuardsTypeOK, Task, Shape, Over, Asking, Looking, Known, Searching
  <2>4. ~stale
    BY <1>2, ConfirmedTells, GenerationsNatural DEF Permit, GuardsInv, Consented
  <2>5. Consented'
    BY <1>2, <2>1, <2>4
    DEF GuardsInv, GuardsTypeOK, PolicyState, Task, Consented, Stamp, Generation
  <2>6. Calm'
    BY <1>2 DEF Permit, GuardsInv, GuardsTypeOK, Task, Calm, Searching, Attached, Built, Stamp
  <2>7. QED
    BY <1>2, <2>2, <2>3, <2>5, <2>6, SilentSafe DEF GuardsInv
<1>3. QED
  BY <1>1, <1>2 DEF Permit

LEMMA AttachInv ==
  ASSUME GuardsInv, Frame, Attach
  PROVE  GuardsInv' /\ Safe'
<1> USE DEF Frame, configured, noted
<1>1. CASE ~(privacy = task.policy /\ Stamp(privacy) = task.stamp)
  <2>1. changes # 0
    BY <1>1 DEF Attach, GuardsInv, Calm, Stamped
  <2>2. QED
    BY <1>1, <2>1, RevokedInv DEF Attach
<1>2. CASE privacy = task.policy /\ Stamp(privacy) = task.stamp
  <2> pc = "context" /\ pc' = "looking" /\ SendsNothing
      /\ task' = [task EXCEPT !.context = memoryContext]
    BY <1>2 DEF Attach
  <2>1. GuardsTypeOK'
    BY DEF GuardsInv, GuardsTypeOK, Task, SendsNothing, Running
  <2>2. (Shape /\ Asking /\ Looking /\ Known)'
    BY <1>2 DEF GuardsInv, GuardsTypeOK, Task, Shape, Over, Asking, Looking, Known, Searching
  <2>3. Consented'
    BY DEF GuardsInv, GuardsTypeOK, Task, Consented, Stamped, Attached, Generation
  <2>4. Calm'
    BY <1>2 DEF GuardsInv, GuardsTypeOK, Task, Calm, Searching, Built, Stamp
  <2>5. QED
    BY <2>1, <2>2, <2>3, <2>4, SilentSafe DEF GuardsInv
<1>3. QED
  BY <1>1, <1>2

-----------------------------------------------------------------------------
\* The lookup returns what is known to hold at that moment.
LEMMA LookedInv ==
  ASSUME GuardsInv, Frame, pc \in {"looking"} \cup Searching, ~retired,
         NEW kind \in {"none", "full"}, NEW M \in SUBSET Memory, Looked(kind, M),
         kind = "full" =>
           service.policy = task.policy /\ policies[task.policy].classifier # None,
         M # {} => /\ kind = "full"
                   /\ Unchanged(M)
                   /\ Permits(task.policy, "memory") /\ Permits(task.policy, "local")
  PROVE  GuardsInv' /\ Safe'
<1> USE DEF Frame, configured, noted
<1> DEFINE t == [task EXCEPT !.guarded = kind, !.quotes = M, !.seen = service,
                             !.candidates = {}, !.ranked = {}]
<1>1. pc' = "building" /\ SendsNothing /\ task' = t
  BY DEF Looked
<1>2. task \in Task /\ service \in Service
  BY DEF GuardsInv, GuardsTypeOK
<1>3. /\ task' \in Task
      /\ task'.guarded = kind /\ task'.quotes = M /\ task'.seen = service
      /\ task'.policy = task.policy /\ task'.stamp = task.stamp /\ task'.asked = task.asked
      /\ task'.context = task.context /\ task'.payload = task.payload
  BY <1>1, <1>2 DEF Task
<1>4. task.payload = {}
  BY DEF GuardsInv, Shape, Over, Searching
<1>5. GuardsTypeOK'
  BY <1>1, <1>3, <1>4 DEF GuardsInv, GuardsTypeOK, SendsNothing, Running
<1>6. (Shape /\ Asking)'
  BY <1>1, <1>3, <1>4 DEF GuardsInv, Shape, Over, Asking, Searching
<1>7. Consented'
  BY <1>1, <1>3 DEF GuardsInv, Consented, Stamped, Attached, Searching, Built, Generation
<1>8. Looking'
  BY <1>1, <1>2, <1>3 DEF Looking, Service
<1>9. Known'
  BY <1>1, <1>3 DEF Known, Unchanged, Authorized, Stamp, Permits
<1>10. Calm'
  <2> SUFFICES ASSUME changes = 0
               PROVE  Calm'
    BY DEF Calm
  <2>1. Authorized
    BY DEF GuardsInv, Calm, Authorized, Stamped, Attached
  <2>2. Authorized'
    BY <2>1, <1>3 DEF Authorized, Stamp
  <2>3. Valid'
    BY <1>3, <2>2 DEF Valid, StillGuarded, Authorized, Unchanged, Permits, Stamp
  <2>4. QED
    BY <1>1, <1>3, <2>2, <2>3 DEF Calm, Authorized, Stamped, Attached, Searching
<1>11. QED
  BY <1>1, <1>5, <1>6, <1>7, <1>8, <1>9, <1>10, SilentSafe DEF GuardsInv

LEMMA LookupFailsInv ==
  ASSUME GuardsInv, Frame, pc \in {"looking"} \cup Searching, LookupFails,
         changes = 0 => service.policy = task.policy
  PROVE  GuardsInv' /\ Safe'
<1> USE DEF Frame, configured, noted
<1>1. /\ pc' = "building" /\ SendsNothing
      /\ task' = [task EXCEPT !.guarded = "empty", !.candidates = {}, !.ranked = {}]
  BY DEF LookupFails
<1>2. task \in Task
  BY DEF GuardsInv, GuardsTypeOK
<1>3. /\ task' \in Task
      /\ task'.guarded = "empty" /\ task'.quotes = task.quotes /\ task'.seen = task.seen
      /\ task'.policy = task.policy /\ task'.stamp = task.stamp /\ task'.asked = task.asked
      /\ task'.context = task.context /\ task'.payload = task.payload
  BY <1>1, <1>2 DEF Task
<1>4. task.payload = {} /\ task.quotes = {}
  BY DEF GuardsInv, Shape, Over, Searching
<1>5. GuardsTypeOK'
  BY <1>1, <1>3, <1>4 DEF GuardsInv, GuardsTypeOK, SendsNothing, Running
<1>6. (Shape /\ Asking)'
  BY <1>1, <1>3, <1>4 DEF GuardsInv, Shape, Over, Asking, Searching
<1>7. (Consented /\ Looking)'
  BY <1>1, <1>3 DEF GuardsInv, Consented, Looking, Stamped, Attached, Searching, Built, Generation
<1>8. Known'
  BY <1>1, <1>3, <1>4 DEF Known
<1>9. Calm'
  <2> SUFFICES ASSUME changes = 0
               PROVE  Calm'
    BY DEF Calm
  <2>1. Authorized
    BY DEF GuardsInv, Calm, Authorized, Stamped, Attached
  <2>2. Authorized'
    BY <2>1, <1>3 DEF Authorized, Stamp
  <2>3. Valid'
    BY <1>3, <2>2 DEF Valid, StillGuarded, Authorized
  <2>4. QED
    BY <1>1, <1>3, <2>2, <2>3 DEF Calm, Authorized, Stamped, Attached, Searching
<1>10. QED
  BY <1>1, <1>5, <1>6, <1>7, <1>8, <1>9, SilentSafe DEF GuardsInv

\* A failure of search, at whichever await.
LEMMA SearchFails ==
  ASSUME GuardsInv, Frame, pc \in Searching, LookupFails
  PROVE  GuardsInv' /\ Safe'
BY LookupFailsInv DEF GuardsInv, Shape, Over, Calm

\* The classifier is asked about the query, the candidates or the result.
LEMMA AsksInv ==
  ASSUME GuardsInv, Frame, pc \in {"looking", "query", "embedding"},
         privacy = task.policy, service.policy = task.policy, ~retired,
         MayAsk(task.policy, "memory"),
         NEW phase \in {"query", "candidates", "results"},
         NEW C \in SUBSET Memory, NEW B \in SUBSET Memory, NEW M \in SUBSET Memory,
         B \subseteq (IF phase = "results" THEN C ELSE {}),
         M # {} => ~stale /\ M \subseteq stored[service.records],
         pc' = phase, Sends("classifier", M),
         task' = [task EXCEPT !.seen = service, !.asked = Asked(task.policy),
                              !.candidates = C, !.ranked = B]
  PROVE  GuardsInv' /\ Safe'
<1> USE DEF Frame, configured, noted
<1>1. task \in Task /\ service \in Service /\ task.policy \in Policy
  BY DEF GuardsInv, GuardsTypeOK, Task
<1>2. Asked(task.policy) \in Nat \X (Classifier \cup {None})
  BY <1>1 DEF GuardsInv, GuardsTypeOK, Asked, PolicyState
<1>3. /\ task' \in Task
      /\ task'.seen = service /\ task'.asked = Asked(task.policy)
      /\ task'.candidates = C /\ task'.ranked = B
      /\ task'.policy = task.policy /\ task'.stamp = task.stamp
      /\ task'.context = task.context /\ task'.payload = task.payload
      /\ task'.guarded = task.guarded /\ task'.quotes = task.quotes
  BY <1>1, <1>2 DEF Task
<1>4. GuardsTypeOK'
  BY <1>3, SendsType DEF GuardsInv, GuardsTypeOK, Awaiting
<1>5. Shape'
  BY <1>3 DEF GuardsInv, Shape, Over, Searching
<1>6. Consented'
  BY <1>3 DEF GuardsInv, Consented, Stamped, Attached, Searching, Generation
<1>7. Asking'
  BY <1>1, <1>2, <1>3, GenerationsNatural
  DEF GuardsInv, Asking, Asked, MayAsk, Permits, Generation
<1>8. (Looking /\ Known)'
  BY <1>1, <1>3 DEF Looking, Known, Service
<1>9. Calm'
  BY <1>3 DEF GuardsInv, Calm, Stamped, Attached, Searching, Built, Stamp
<1>10. Safe'
  BY DEF Safe, SentCurrent, SentPermitted, SentUndisturbed, Sends, MayAsk, Permits
<1>11. QED
  BY <1>4, <1>5, <1>6, <1>7, <1>8, <1>9, <1>10 DEF GuardsInv

LEMMA LookInv ==
  ASSUME GuardsInv, Frame, Look
  PROVE  GuardsInv' /\ Safe'
<1> USE DEF Frame, configured, noted
<1>0. pc = "looking" /\ ~retired /\ privacy = task.policy
  BY DEF Look, GuardsInv, Looking, Known
<1>1. CASE Looked("none", {})
  BY <1>0, <1>1, LookedInv
<1>2. CASE Ends("denied")
  BY <1>2, EndsInv
<1>3. CASE service.policy = task.policy /\ LookupFails
  BY <1>0, <1>3, LookupFailsInv
<1>4. CASE /\ service.policy = task.policy
           /\ policies[task.policy].classifier # None
           /\ Looked("full", {})
  BY <1>0, <1>4, LookedInv
<1>5. CASE /\ service.policy = task.policy
           /\ MayAsk(task.policy, "memory")
           /\ pc' = "query"
           /\ task' = [task EXCEPT !.seen = service, !.asked = Asked(task.policy)]
           /\ Sends("classifier", {})
  <2>1. task \in Task /\ task.ranked = {}
    BY <1>0 DEF GuardsInv, GuardsTypeOK, Shape, Over
  <2>2. task' = [task EXCEPT !.seen = service, !.asked = Asked(task.policy),
                             !.candidates = task.candidates, !.ranked = {}]
    BY <1>5, <2>1 DEF Task
  <2>3. task.candidates \in SUBSET Memory
    BY <2>1 DEF Task
  <2>4. /\ pc \in {"looking", "query", "embedding"} /\ privacy = task.policy
        /\ service.policy = task.policy /\ ~retired /\ MayAsk(task.policy, "memory")
    BY <1>0, <1>5
  <2>5. /\ "query" \in {"query", "candidates", "results"} /\ {} \in SUBSET Memory
        /\ {} \subseteq (IF "query" = "results" THEN task.candidates ELSE {})
    OBVIOUS
  <2>6. pc' = "query" /\ Sends("classifier", {})
    BY <1>5
  <2>7. QED
    BY <2>2, <2>3, <2>4, <2>5, <2>6, AsksInv
<1>6. QED
  BY <1>1, <1>2, <1>3, <1>4, <1>5 DEF Look

\* What was found unchanged since the lookup began.
LEMMA SearchTells ==
  ASSUME GuardsInv, pc \in Searching, NEW M, Unchanged(M)
  PROVE  /\ privacy = task.policy
         /\ service = task.seen /\ service.policy = task.policy
         /\ policies[task.policy].classifier # None
         /\ ~stale /\ ~retired
         /\ M \subseteq stored[service.records]
BY UnchangedTells DEF GuardsInv, Shape, Over, Stamped, Attached, Unchanged

LEMMA QueryInv ==
  ASSUME GuardsInv, Frame, Query
  PROVE  GuardsInv' /\ Safe'
<1> USE DEF Frame, configured, noted
<1>0. pc = "query" /\ pc \in Searching
  BY DEF Query, Searching
<1>1. CASE LookupFails
  BY <1>0, <1>1, SearchFails
<1>2. CASE /\ Unchanged({})
           /\ Looked("full", {})
  BY <1>0, <1>2, SearchTells, LookedInv
<1>3. CASE /\ Unchanged({})
           /\ AsksAbout(stored[service.records], "candidates",
                        [task EXCEPT !.candidates = stored[service.records]])
  <2>1. task \in Task /\ task.ranked = {} /\ stored[service.records] \in SUBSET Memory
    BY <1>0 DEF GuardsInv, GuardsTypeOK, Shape, Over, Service
  <2>2. /\ service = task.seen /\ service.policy = task.policy
        /\ privacy = task.policy /\ ~stale /\ ~retired
    BY <1>0, <1>3, SearchTells
  <2>3. task' = [task EXCEPT !.seen = service, !.asked = Asked(task.policy),
                             !.candidates = stored[service.records], !.ranked = {}]
    BY <1>3, <2>1, <2>2 DEF Task, AsksAbout
  <2>4. /\ MayAsk(task.policy, "memory") /\ pc' = "candidates"
        /\ Sends("classifier", stored[service.records])
    BY <1>3 DEF AsksAbout
  <2>5. QED
    BY <1>0, <2>1, <2>2, <2>3, <2>4, AsksInv
<1>4. QED
  BY <1>1, <1>2, <1>3 DEF Query

LEMMA EmbedInv ==
  ASSUME GuardsInv, Frame, Embed
  PROVE  GuardsInv' /\ Safe'
<1> USE DEF Frame, configured, noted
<1>0. pc = "candidates" /\ pc \in Searching
  BY DEF Embed, Searching
<1>1. CASE LookupFails
  BY <1>0, <1>1, SearchFails
<1>2. CASE /\ Unchanged(task.candidates)
           /\ Confirmed("memory")
           /\ pc' = "embedding"
           /\ Sends("embedding", task.candidates)
           /\ UNCHANGED task
  <2>1. task.candidates \in SUBSET Memory
    BY DEF GuardsInv, GuardsTypeOK, Task
  <2>2. GuardsTypeOK'
    BY <1>2, <2>1, SendsType DEF GuardsInv, GuardsTypeOK, Awaiting
  <2>3. (Shape /\ Consented /\ Asking /\ Looking /\ Known /\ Calm)'
    BY <1>0, <1>2
    DEF GuardsInv, Shape, Over, Consented, Asking, Looking, Known, Calm, Searching, Stamped,
        Attached, Built, Generation, Permits, Stamp
  <2>4. Safe'
    BY <1>0, <1>2, SearchTells, ConfirmedTells
    DEF Safe, SentCurrent, SentPermitted, SentUndisturbed, Sends, Permits
  <2>5. QED
    BY <2>2, <2>3, <2>4 DEF GuardsInv
<1>3. QED
  BY <1>1, <1>2 DEF Embed

LEMMA RankInv ==
  ASSUME GuardsInv, Frame, Rank
  PROVE  GuardsInv' /\ Safe'
<1> USE DEF Frame, configured, noted
<1>0. pc = "embedding" /\ pc \in Searching
  BY DEF Rank, Searching
<1>1. CASE LookupFails
  BY <1>0, <1>1, SearchFails
<1>2. ASSUME Unchanged(task.candidates), NEW best \in SUBSET task.candidates,
             AsksAbout(best, "results", [task EXCEPT !.ranked = best])
      PROVE  GuardsInv' /\ Safe'
  <2>1. task \in Task /\ task.candidates \in SUBSET Memory /\ best \in SUBSET Memory
    BY DEF GuardsInv, GuardsTypeOK, Task
  <2>2. service = task.seen
    BY <1>0, <1>2, SearchTells
  <2>3. task' = [task EXCEPT !.seen = service, !.asked = Asked(task.policy),
                             !.candidates = task.candidates, !.ranked = best]
    BY <1>2, <2>1, <2>2 DEF Task, AsksAbout
  <2>4. QED
    BY <1>0, <1>2, <2>1, <2>3, SearchTells, AsksInv DEF AsksAbout
<1>3. QED
  BY <1>1, <1>2 DEF Rank

LEMMA ChooseInv ==
  ASSUME GuardsInv, Frame, Choose
  PROVE  GuardsInv' /\ Safe'
<1>0. pc = "results" /\ pc \in Searching
  BY DEF Choose, Searching
<1>1. CASE LookupFails
  BY <1>0, <1>1, SearchFails
<1>2. CASE Unchanged(task.candidates) /\ Confirmed("memory") /\ Looked("full", task.ranked)
  <2>1. task.ranked \subseteq task.candidates /\ task.ranked \in SUBSET Memory
    BY <1>0 DEF GuardsInv, GuardsTypeOK, Task, Shape, Over
  <2>2. Unchanged(task.ranked)
    BY <1>2, <2>1 DEF Unchanged
  <2>3. QED
    BY <1>0, <1>2, <2>1, <2>2, SearchTells, ConfirmedTells, LookedInv
<1>3. QED
  BY <1>1, <1>2 DEF Choose

-----------------------------------------------------------------------------
\* From the lookup on, a part of the quotes may leave where the request is still valid.
LEMMA CountInv ==
  ASSUME GuardsInv, Frame, Count
  PROVE  GuardsInv' /\ Safe'
<1> USE DEF Frame, configured, noted
<1>0. pc \in {"building", "counting"} /\ pc \in Built /\ request.counter = "llamacpp"
  BY DEF Count, Built
<1>1. CASE Valid /\ Ends("denied")
  BY <1>1, EndsInv
<1>2. CASE ~Valid /\ Ends("revoked")
  <2>1. changes # 0
    BY <1>0, <1>2 DEF GuardsInv, Calm
  <2>2. QED
    BY <1>2, <2>1, RevokedInv
<1>3. ASSUME Valid, Permits(task.policy, "local"), task.counts < MaxCounts,
             NEW part \in SUBSET task.quotes,
             pc' = "counting", task' = [task EXCEPT !.counts = @ + 1], Sends("counter", part)
      PROVE  GuardsInv' /\ Safe'
  <2>1. task \in Task /\ part \in SUBSET Memory
    BY DEF GuardsInv, GuardsTypeOK, Task
  <2>2. /\ task' \in Task
        /\ task'.policy = task.policy /\ task'.stamp = task.stamp /\ task'.asked = task.asked
        /\ task'.context = task.context /\ task'.seen = task.seen
        /\ task'.guarded = task.guarded /\ task'.quotes = task.quotes
        /\ task'.payload = task.payload /\ task'.ranked = task.ranked
        /\ task'.candidates = task.candidates
    BY <1>3, <2>1, BoundsAssumption DEF Task
  <2>3. GuardsTypeOK'
    BY <1>3, <2>1, <2>2, SendsType DEF GuardsInv, GuardsTypeOK, Awaiting
  <2>4. (Shape /\ Asking /\ Looking /\ Known)'
    BY <1>0, <1>3, <2>2
    DEF GuardsInv, Shape, Asking, Looking, Known, Searching, Over
  <2>5. Consented'
    BY <1>0, <1>3, <2>2 DEF GuardsInv, Consented, Stamped, Attached, Built, Generation
  <2>6. Valid'
    BY <1>3, <2>2 DEF Valid, StillGuarded, Authorized, Permits, Stamp
  <2>7. Calm'
    BY <1>0, <1>3, <2>2, <2>6
    DEF GuardsInv, Calm, Stamped, Attached, Built, Searching, Stamp
  <2>8. Safe'
    BY <1>0, <1>3, ValidTells
    DEF Safe, SentCurrent, SentPermitted, SentUndisturbed, Sends, Permits
  <2>9. QED
    BY <2>3, <2>4, <2>5, <2>7, <2>8 DEF GuardsInv
<1>4. QED
  BY <1>1, <1>2, <1>3 DEF Count

\* An external request is assembled right after its lookup.
LEMMA AssembleInv ==
  ASSUME GuardsInv, Frame, Assemble
  PROVE  GuardsInv' /\ Safe'
<1> USE DEF Frame, configured, noted
<1>0. pc \in {"building", "counting"} /\ pc \in Built
  BY DEF Assemble, Built
<1>1. CASE Ends("denied")
  BY <1>1, EndsInv
<1>2. CASE ~Valid /\ Ends("revoked")
  <2>1. changes # 0
    BY <1>0, <1>2 DEF GuardsInv, Calm
  <2>2. QED
    BY <1>2, <2>1, RevokedInv
<1>3. ASSUME privacy = task.policy, request.destination = "external",
             MayAsk(privacy, "external"), NEW part \in SUBSET task.quotes,
             pc' = "judging",
             task' = [task EXCEPT !.asked = Asked(privacy), !.payload = part],
             Sends("classifier", part)
      PROVE  GuardsInv' /\ Safe'
  <2>1. task \in Task /\ part \in SUBSET Memory /\ task.policy \in Policy
    BY DEF GuardsInv, GuardsTypeOK, Task
  <2>2. Asked(privacy) \in Nat \X (Classifier \cup {None})
    BY DEF GuardsInv, GuardsTypeOK, Asked, PolicyState
  <2>3. /\ task' \in Task
        /\ task'.policy = task.policy /\ task'.stamp = task.stamp
        /\ task'.asked = Asked(task.policy)
        /\ task'.context = task.context /\ task'.seen = task.seen
        /\ task'.guarded = task.guarded /\ task'.quotes = task.quotes
        /\ task'.payload = part /\ task'.ranked = task.ranked
        /\ task'.candidates = task.candidates
    BY <1>3, <2>1, <2>2 DEF Task
  <2>4. pc = "building"
    BY <1>0, <1>3 DEF GuardsInv, Shape
  <2>5. GuardsTypeOK'
    BY <1>3, <2>1, <2>3, SendsType DEF GuardsInv, GuardsTypeOK, Awaiting
  <2>6. (Shape /\ Looking /\ Known)'
    BY <1>0, <1>3, <2>3 DEF GuardsInv, Shape, Looking, Known, Searching, Over
  <2>7. Asking'
    <3>1. Generation \in Nat
      BY GenerationsNatural DEF GuardsInv
    <3>2. QED
      BY <1>3, <2>1, <2>3, <3>1 DEF Asking, Asked, MayAsk, Permits, Generation
  <2>8. Consented'
    BY <1>0, <1>3, <2>3 DEF GuardsInv, Consented, Stamped, Attached, Built, Generation
  <2>9. Valid' = Valid
    BY <2>3 DEF Valid, StillGuarded, Authorized, Permits, Stamp
  <2>10. Calm'
    BY <1>0, <1>3, <2>3, <2>9
    DEF GuardsInv, Calm, Stamped, Attached, Built, Searching, Stamp
  <2>11. part # {} => /\ Permits(task.policy, "memory")
                      /\ part \subseteq stored[service.records]
                      /\ ~stale /\ ~retired
    BY <1>3, <2>4, UnchangedTells DEF GuardsInv, Known, Stamped, Attached, Built
  <2>12. Safe'
    BY <1>3, <2>11
    DEF Safe, SentCurrent, SentPermitted, SentUndisturbed, Sends, Permits, MayAsk
  <2>13. QED
    BY <2>5, <2>6, <2>7, <2>8, <2>10, <2>12 DEF GuardsInv
<1>4. ASSUME privacy = task.policy, request.destination = "local",
             Permits(privacy, "local"), Valid, NEW part \in SUBSET task.quotes,
             pc' = "sent", task' = [task EXCEPT !.payload = part], Sends("provider", part)
      PROVE  GuardsInv' /\ Safe'
  <2>1. task \in Task /\ part \in SUBSET Memory
    BY DEF GuardsInv, GuardsTypeOK, Task
  <2>2. /\ task' \in Task
        /\ task'.policy = task.policy /\ task'.seen = task.seen
        /\ task'.guarded = task.guarded /\ task'.quotes = task.quotes
        /\ task'.payload = part
    BY <1>4, <2>1 DEF Task
  <2>3. GuardsTypeOK'
    BY <1>4, <2>1, <2>2, SendsType DEF GuardsInv, GuardsTypeOK, Over
  <2>4. (Shape /\ Consented /\ Asking /\ Looking /\ Known)'
    BY <1>4, <2>2
    DEF GuardsInv, Shape, Consented, Asking, Looking, Known, Searching, Stamped, Attached,
        Built, Over
  <2>5. Calm'
    BY <1>4 DEF Calm, Stamped, Attached, Built, Searching
  <2>6. Safe'
    BY <1>0, <1>4, ValidTells
    DEF Safe, SentCurrent, SentPermitted, SentUndisturbed, Sends, Permits
  <2>7. QED
    BY <2>3, <2>4, <2>5, <2>6 DEF GuardsInv
<1>5. QED
  BY <1>1, <1>2, <1>3, <1>4 DEF Assemble

LEMMA DispatchInv ==
  ASSUME GuardsInv, Frame, Dispatch
  PROVE  GuardsInv' /\ Safe'
<1> USE DEF Frame, configured, noted
<1>0. pc = "judging" /\ pc \in Built
  BY DEF Dispatch, Built
<1>1. CASE Ends("denied")
  BY <1>1, EndsInv
<1>2. CASE ~Valid /\ Ends("revoked")
  <2>1. changes # 0
    BY <1>0, <1>2 DEF GuardsInv, Calm
  <2>2. QED
    BY <1>2, <2>1, RevokedInv
<1>3. CASE /\ Confirmed("external") /\ privacy = task.policy /\ Valid
           /\ pc' = "sent" /\ Sends("provider", task.payload) /\ UNCHANGED task
  <2>1. task.payload \in SUBSET Memory /\ task.payload \subseteq task.quotes
    BY DEF GuardsInv, GuardsTypeOK, Task
  <2>2. GuardsTypeOK'
    BY <1>3, <2>1, SendsType DEF GuardsInv, GuardsTypeOK, Over
  <2>3. (Shape /\ Consented /\ Asking /\ Looking /\ Known)'
    BY <1>3
    DEF GuardsInv, Shape, Consented, Asking, Looking, Known, Searching, Stamped, Attached,
        Built, Over
  <2>4. Calm'
    BY <1>3 DEF Calm, Stamped, Attached, Built, Searching
  <2>5. request.destination = "external"
    BY <1>0 DEF GuardsInv, Shape
  <2>6. Permits(privacy, "external") /\ Permits(privacy, "local")
    BY <1>0, <1>3, ConfirmedTells
  <2>7. Safe'
    BY <1>0, <1>3, <2>1, <2>5, <2>6, ValidTells
    DEF Safe, SentCurrent, SentPermitted, SentUndisturbed, Sends, Permits
  <2>8. QED
    BY <2>2, <2>3, <2>4, <2>7 DEF GuardsInv
<1>4. QED
  BY <1>1, <1>2, <1>3 DEF Dispatch

-----------------------------------------------------------------------------
\* What every change at an await has in common: generations grow.
LEMMA ChangedInv ==
  ASSUME GuardsInv, Change,
         policies' \in [Policy -> PolicyState], privacy' \in Policy,
         memoryContext' \in Context \cup {None}, service' \in Service,
         stored' \in [Store -> SUBSET Memory], stale' \in BOOLEAN, retired' \in BOOLEAN,
         Generation <= Generation',
         Generation' = Generation =>
           policies'[task.policy].grants = policies[task.policy].grants,
         stale' => stale \/ Generation < Generation',
         service.generation <= service'.generation,
         retired' => \/ retired
                     \/ /\ service.generation < service'.generation
                        /\ pc \notin {"permitting", "context"}
  PROVE  GuardsInv' /\ Safe'
<1>1. /\ pc \in Awaiting /\ pc' = pc /\ task' = task /\ request' = request
      /\ out' = {} /\ changes < MaxChanges /\ changes' = changes + 1
  BY DEF Change, SendsNothing
<1>2. changes' \in 0 .. MaxChanges /\ changes' # 0
  BY <1>1, BoundsAssumption DEF GuardsInv, GuardsTypeOK
<1>3. GuardsTypeOK'
  BY <1>1, <1>2 DEF GuardsInv, GuardsTypeOK
<1>4. Shape'
  BY <1>1 DEF GuardsInv, Shape, Over, Searching
<1>5. Generation' \in Nat /\ task.stamp[1] \in Nat /\ task.asked[1] \in Nat /\ Generation \in Nat
      /\ service.generation \in Nat /\ service'.generation \in Nat
      /\ task.seen.generation \in Nat
  <2>1. task.policy \in Policy
    BY GenerationsNatural DEF GuardsInv
  <2>2. Generation' \in Nat
    BY <1>1, <2>1 DEF Generation, PolicyState
  <2>3. service'.generation \in Nat
    BY DEF Service
  <2>4. QED
    BY <2>2, <2>3, GenerationsNatural DEF GuardsInv
<1>6. Consented'
  <2>1. pc # "new"
    BY <1>1 DEF Awaiting
  <2>2. CASE pc = "permitting"
    <3>1. pc \notin Stamped
      BY <2>2 DEF Stamped, Attached, Searching, Built
    <3>2. stale' => task.asked[1] < Generation'
      BY <1>5, <2>2 DEF GuardsInv, Consented, Asking
    <3>3. QED
      BY <1>1, <2>1, <3>1, <3>2 DEF Consented
  <2>3. CASE pc \in Stamped
    <3>1. pc # "permitting"
      BY <2>3 DEF Stamped, Attached, Searching, Built
    <3>2. task.stamp[1] <= Generation'
      BY <1>5, <2>3 DEF GuardsInv, Consented
    <3>3. stale' => task.stamp[1] < Generation'
      BY <1>5, <2>3 DEF GuardsInv, Consented
    <3>4. QED
      BY <1>1, <2>1, <3>1, <3>2, <3>3 DEF Consented
  <2>4. QED
    BY <1>1, <2>1, <2>2, <2>3 DEF Awaiting, Stamped, Attached, Searching, Built
<1>7. Asking'
  BY <1>1, <1>5 DEF GuardsInv, Asking, Permits
<1>8. Looking'
  BY <1>1, <1>5 DEF GuardsInv, Looking, Awaiting
<1>9. (Known /\ Calm)'
  BY <1>1, <1>2 DEF Known, Calm, Awaiting
<1>10. QED
  BY <1>1, <1>3, <1>4, <1>6, <1>7, <1>8, <1>9, SilentSafe DEF GuardsInv, SendsNothing

LEMMA DisturbInv ==
  ASSUME GuardsInv, Disturb
  PROVE  GuardsInv' /\ Safe'
<1>1. Change /\ pc \in Awaiting /\ task' = task
  BY DEF Disturb, Change
<1>2. task.policy \in Policy /\ Generation \in Nat /\ service.generation \in Nat
  BY GenerationsNatural DEF GuardsInv
<1>3. /\ policies \in [Policy -> PolicyState] /\ privacy \in Policy
      /\ memoryContext \in Context \cup {None} /\ service \in Service
      /\ stored \in [Store -> SUBSET Memory] /\ stale \in BOOLEAN /\ retired \in BOOLEAN
  BY DEF GuardsInv, GuardsTypeOK
<1>4. ASSUME NEW p \in Policy, NEW g \in Grants, Configure(p, g)
      PROVE  GuardsInv' /\ Safe'
  <2>1. policies' \in [Policy -> PolicyState]
    BY <1>3, <1>4, GrantsAssumption DEF Configure, PolicyState
  <2>2. /\ policies'[task.policy].generation =
             policies[task.policy].generation + (IF p = task.policy THEN 1 ELSE 0)
        /\ p # task.policy => policies'[task.policy] = policies[task.policy]
    BY <1>2, <1>3, <1>4 DEF Configure, PolicyState
  <2>3. QED
    BY <1>1, <1>2, <1>3, <1>4, <2>1, <2>2, ChangedInv DEF Configure, Generation
<1>5. ASSUME NEW p \in Policy, NEW k \in Classifier \cup {None}, SetClassifier(p, k)
      PROVE  GuardsInv' /\ Safe'
  <2>1. policies' \in [Policy -> PolicyState]
    BY <1>3, <1>5 DEF SetClassifier, PolicyState
  <2>2. /\ policies'[task.policy].generation =
             policies[task.policy].generation + (IF p = task.policy THEN 1 ELSE 0)
        /\ p # task.policy => policies'[task.policy] = policies[task.policy]
    BY <1>2, <1>3, <1>5 DEF SetClassifier, PolicyState
  <2>3. QED
    BY <1>1, <1>2, <1>3, <1>5, <2>1, <2>2, ChangedInv DEF SetClassifier, Generation
<1>6. ASSUME NEW p \in Policy, NEW x \in Context \cup {None}, Replace(p, x)
      PROVE  GuardsInv' /\ Safe'
  BY <1>1, <1>2, <1>3, <1>6, ChangedInv DEF Replace, Generation
<1>7. ASSUME NEW e \in Embedding \cup {None}, SetEmbedding(e)
      PROVE  GuardsInv' /\ Safe'
  <2>1. service' \in Service /\ service'.generation = service.generation + 1
    <3>1. service' = [service EXCEPT !.embedding = e, !.generation = service.generation + 1]
      BY <1>7 DEF SetEmbedding
    <3>2. service.generation + 1 \in Nat
      BY <1>2
    <3>3. QED
      BY <1>3, <3>1, <3>2 DEF Service
  <2>2. QED
    BY <1>1, <1>2, <1>3, <1>7, <2>1, ChangedInv DEF SetEmbedding, Generation
<1>8. ASSUME NEW p \in Policy, NEW r \in Retrieval, NEW s \in Store, Retune(p, r, s)
      PROVE  GuardsInv' /\ Safe'
  <2>1. service' \in Service /\ service'.generation = service.generation
    BY <1>3, <1>8 DEF Retune, Service
  <2>2. QED
    BY <1>1, <1>2, <1>3, <1>8, <2>1, ChangedInv DEF Retune, Generation
<1>9. ASSUME NEW s \in Store, NEW M \in SUBSET Memory, Rewrite(s, M)
      PROVE  GuardsInv' /\ Safe'
  BY <1>1, <1>2, <1>3, <1>9, ChangedInv DEF Rewrite, Generation
<1>10. QED
  BY <1>4, <1>5, <1>6, <1>7, <1>8, <1>9 DEF Disturb

-----------------------------------------------------------------------------
LEMMA StepInv ==
  ASSUME GuardsInv, Safe, [Next]_vars
  PROVE  GuardsInv' /\ Safe'
<1>1. CASE Proceed
  <2>1. Frame
    BY <1>1 DEF Proceed, Frame
  <2>2. CASE GiveUp
    BY <2>1, <2>2, EndsInv DEF GiveUp
  <2>3. QED
    BY <1>1, <2>1, <2>2, EnterInv, PermitInv, AttachInv, LookInv, QueryInv, EmbedInv, RankInv,
       ChooseInv, CountInv, AssembleInv, DispatchInv DEF Proceed
<1>2. CASE Disturb
  BY <1>2, DisturbInv
<1>3. CASE UNCHANGED vars
  <2> USE <1>3 DEF vars, configured, noted
  <2>1. GuardsTypeOK'
    BY DEF GuardsInv, GuardsTypeOK
  <2>2. (Shape /\ Consented /\ Asking /\ Looking)'
    BY DEF GuardsInv, Shape, Consented, Asking, Looking, Generation, Permits
  <2>3. (Known /\ Calm)'
    BY DEF GuardsInv, Known, Calm, Unchanged, Authorized, Valid, StillGuarded, Permits, Stamp
  <2>4. Safe'
    BY DEF Safe, SentCurrent, SentPermitted, SentUndisturbed, Permits
  <2>5. QED
    BY <2>1, <2>2, <2>3, <2>4 DEF GuardsInv
<1>4. QED
  BY <1>1, <1>2, <1>3 DEF Next

LEMMA AlwaysInv == Spec => [](GuardsInv /\ Safe)
<1>1. Init => GuardsInv /\ Safe
  BY InitInv DEF Safe, SentCurrent, SentPermitted, SentUndisturbed
<1>2. GuardsInv /\ Safe /\ [Next]_vars => (GuardsInv /\ Safe)'
  BY StepInv
<1>3. QED
  BY <1>1, <1>2, PTL DEF Spec

\* What is quoted is always guarded, what is in the prompt is quoted, and every guard
\* and generation keeps its type: for every configuration (application.prepare, search).
THEOREM GuardsTyped == Spec => []GuardsTypeOK
<1>1. GuardsInv => GuardsTypeOK
  BY DEF GuardsInv
<1>2. QED
  BY <1>1, AlwaysInv, PTL

\* Whatever a request sends, to the classifier, the embedding, the token counter or the
\* provider: its memories are retrievable, it is permitted, and the consent and the
\* embedding it was decided under have not been replaced meanwhile.
THEOREM SendsSafely == Spec => []SentSafely
<1>1. Safe => SentSafely
  BY DEF Safe, SentSafely
<1>2. QED
  BY <1>1, AlwaysInv, PTL

\* A request is refused for a changed authorization only when something was changed:
\* no guard of prepare, check or the memory context fails by itself.
THEOREM RefusalsCaused == Spec => []RefusedForCause
<1>1. GuardsInv => RefusedForCause
  BY DEF GuardsInv, GuardsTypeOK, Calm, RefusedForCause
<1>2. QED
  BY <1>1, AlwaysInv, PTL
===============================================================================
