---------------------------- MODULE DisconnectProofs ----------------------------
(***************************************************************************)
(* However the client and the server interfere with a request, it saves    *)
(* nothing for a client it knows to have left, it leaves no stream open    *)
(* and closes none under its consumer, and its children finish.            *)
(*                                                                         *)
(* The event loop is a queue, and the order in it matters: the notice that *)
(* the client has left must come to the watcher, and the watcher must      *)
(* cancel the work, before the work comes to its last step.  So the        *)
(* invariant says who is in the queue, in which order, who was asked to    *)
(* stop by whom, and what each stage of the work leaves open.              *)
(***************************************************************************)
EXTENDS Disconnect, SequenceTheorems, TLAPS

\* The handle a is in the queue q somewhere before b.
Before(q, a, b) ==
  \E i, j \in 1 .. Len(q) : i < j /\ q[i] = a /\ q[j] = b

\* A task in the queue has a step to take, and one that was cancelled is in the queue.
\* The watcher is woken as soon as there is something to receive, and the parent waits
\* until a child is done or the server cancels it.
WellQueued ==
  /\ \A a \in Actor : Queued(a) => ~Done(a)
  /\ \A a \in Actor : must[a] => Queued(a)
  /\ Queued("child") => Done("work") \/ Done("watcher")
  /\ pc["watcher"] = "new" \/ (pc["watcher"] = "receiving" /\ left) => Queued("watcher")
  /\ pc["parent"] = "waiting" /\ Queued("parent") =>
       must["parent"] \/ Done("work") \/ Done("watcher")

\* Who was asked to stop, by whom, and once: the work by the watcher that saw the client
\* leave or by the parent after its wait, the watcher by the parent.
Asked ==
  /\ must["parent"] \/ cancelled => requested["parent"] > 0
  /\ must["work"] => requested["work"] = 1
  /\ pc["work"] \in {"cleaning", "cancelled"} => requested["work"] = 1 /\ ~must["work"]
  /\ requested["work"] = 1 => pc["parent"] # "waiting" \/ pc["watcher"] = "finished"
  /\ requested["watcher"] = 1 <=>
       must["watcher"] \/ pc["watcher"] \in {"cleaning", "cancelled"}
  /\ requested["watcher"] = 1 => pc["parent"] # "waiting"
  /\ pc["watcher"] = "finished" => left
  /\ pc["watcher"] = "finished" \/ pc["parent"] # "waiting" =>
       Done("work") \/ requested["work"] = 1
  /\ pc["parent"] # "waiting" => Done("watcher") \/ requested["watcher"] = 1

\* The parent goes on only when both children are done, and knows why it has no result.
Joined ==
  /\ joined \/ pc["parent"] \in {"closing", "returned", "raised"} =>
       Done("work") /\ Done("watcher")
  /\ pc["parent"] = "waiting" => ~resultReady /\ ~cancelled
  /\ resultReady => pc["work"] = "succeeded"
  /\ pc["parent"] = "closing" =>
       pc["work"] = "succeeded" /\ kind = "stream" /\ (~resultReady \/ cancelled)
  /\ pc["parent"] # "waiting" /\ ~resultReady =>
       left \/ requested["parent"] > 0 \/ pc["work"] = "failed"

\* What a turn that is stored tells about the work.  If the client had left when the
\* provider answered, the watcher comes before the work in the queue, until it has
\* cancelled it.
Stored ==
  /\ saved => kind = "turn"
  /\ saved => pc["work"] \in {"new"} \cup Ends["work"]
  /\ pc["work"] = "resting" => kind = "turn"
  /\ pc["work"] = "succeeded" /\ kind = "turn" => saved
  /\ warned => left
  /\ warned /\ pc["work"] = "resting" /\ requested["work"] = 0 =>
       Before(ready, "watcher", "work")

\* Where the work is tells whether a stream of the provider is open.
Opened ==
  /\ pc["work"] \in {"new", "preparing", "resting", "failed", "cancelled"} => upstream = "closed"
  /\ pc["work"] = "succeeded" /\ pc["parent"] \in {"waiting", "joining"} =>
       (upstream = "open" <=> kind = "stream")
  /\ kind # "stream" /\ Done("work") => upstream = "closed"

\* The inductive invariant: the three properties and what they rest on.
RequestInv ==
  /\ RequestTypeOK
  /\ WellQueued
  /\ Asked
  /\ Joined
  /\ Stored
  /\ Opened
  /\ SavedKnowingly
  /\ StreamsOwned
  /\ ChildrenFinish

-----------------------------------------------------------------------------
\* A queue holds no handle twice.
Queue(q) == q \in Seq(Handle) /\ IsInjective(q)

\* The queue without its head: the order of the others is as before.
LEMMA TailQueue ==
  ASSUME NEW q, Queue(q), q # <<>>
  PROVE  /\ Head(q) \in Handle
         /\ Queue(Tail(q))
         /\ Range(Tail(q)) = Range(q) \ {Head(q)}
         /\ \A a, b : Before(q, a, b) => b # Head(q)
         /\ \A a, b : Before(q, a, b) /\ a # Head(q) => Before(Tail(q), a, b)
<1> USE DEF Queue
<1>1. /\ Head(q) \in Handle /\ Tail(q) \in Seq(Handle) /\ Len(Tail(q)) = Len(q) - 1
      /\ \A i \in 1 .. Len(Tail(q)) : Tail(q)[i] = q[i + 1]
      /\ Len(q) \in Nat /\ Len(q) > 0 /\ Head(q) = q[1]
      /\ DOMAIN q = 1 .. Len(q) /\ DOMAIN Tail(q) = 1 .. Len(Tail(q))
  BY HeadTailProperties, LenProperties
<1>2. \A i, j \in 1 .. Len(q) : q[i] = q[j] => i = j
  BY <1>1 DEF IsInjective
<1>3. IsInjective(Tail(q))
  BY <1>1, <1>2 DEF IsInjective
<1>4. \A h : h \in Range(Tail(q)) <=> h \in Range(q) /\ h # Head(q)
  <2>1. ASSUME NEW i \in 1 .. Len(Tail(q))
        PROVE  Tail(q)[i] \in Range(q) /\ Tail(q)[i] # Head(q)
    <3>1. i + 1 \in 1 .. Len(q) /\ 1 \in 1 .. Len(q) /\ i + 1 # 1
      BY <1>1
    <3>2. QED
      BY <3>1, <1>1, <1>2 DEF Range
  <2>2. ASSUME NEW i \in 1 .. Len(q), q[i] # Head(q)
        PROVE  q[i] \in Range(Tail(q))
    <3>1. i - 1 \in 1 .. Len(Tail(q)) /\ (i - 1) + 1 = i
      BY <1>1, <2>2
    <3>2. Tail(q)[i - 1] = q[i]
      BY <3>1, <1>1
    <3>3. QED
      BY <3>1, <3>2, <1>1 DEF Range
  <2>3. QED
    BY <2>1, <2>2, <1>1 DEF Range
<1>5. ASSUME NEW a, NEW b, Before(q, a, b)
      PROVE  b # Head(q) /\ (a # Head(q) => Before(Tail(q), a, b))
  <2>1. PICK i, j \in 1 .. Len(q) : i < j /\ q[i] = a /\ q[j] = b
    BY <1>5 DEF Before
  <2>2. b # Head(q)
    BY <2>1, <1>1, <1>2
  <2>3. ASSUME a # Head(q)
        PROVE  Before(Tail(q), a, b)
    <3>1. i - 1 \in 1 .. Len(Tail(q)) /\ j - 1 \in 1 .. Len(Tail(q)) /\ i - 1 < j - 1
      BY <2>1, <2>3, <1>1
    <3>2. Tail(q)[i - 1] = a /\ Tail(q)[j - 1] = b
      BY <3>1, <2>1, <1>1
    <3>3. QED
      BY <3>1, <3>2 DEF Before
  <2>4. QED
    BY <2>2, <2>3
<1>6. QED
  BY <1>1, <1>3, <1>4, <1>5

\* A handle that is woken comes behind everything in the queue.
LEMMA WokenQueue ==
  ASSUME NEW q, Queue(q), NEW h \in Handle, NEW cause \in BOOLEAN
  PROVE  /\ Queue(Woken(q, h, cause))
         /\ Range(Woken(q, h, cause)) = Range(q) \cup (IF cause THEN {h} ELSE {})
         /\ \A a, b : Before(q, a, b) => Before(Woken(q, h, cause), a, b)
         /\ cause /\ h \notin Range(q) =>
              \A a \in Range(q) : Before(Woken(q, h, cause), a, h)
<1> USE DEF Queue
<1>1. CASE ~cause \/ h \in Range(q)
  BY <1>1 DEF Woken
<1>2. CASE cause /\ h \notin Range(q)
  <2> DEFINE r == Append(q, h)
  <2>1. Woken(q, h, cause) = r
    BY <1>2 DEF Woken
  <2>2. /\ r \in Seq(Handle) /\ Len(r) = Len(q) + 1 /\ Len(q) \in Nat
        /\ \A i \in 1 .. Len(q) : r[i] = q[i]
        /\ r[Len(q) + 1] = h
        /\ DOMAIN q = 1 .. Len(q) /\ DOMAIN r = 1 .. Len(r)
    BY AppendProperties, LenProperties
  <2> HIDE DEF r
  <2>3. \A i \in 1 .. Len(q) : q[i] # h
    BY <1>2, <2>2 DEF Range
  <2>4. IsInjective(r)
    BY <2>2, <2>3 DEF IsInjective
  <2>5. \A x : x \in Range(r) <=> x \in Range(q) \/ x = h
    BY <2>2 DEF Range
  <2>6. \A a, b : Before(q, a, b) => Before(r, a, b)
    BY <2>2 DEF Before
  <2>7. ASSUME NEW a \in Range(q)
        PROVE  Before(r, a, h)
    <3>1. PICK i \in 1 .. Len(q) : q[i] = a
      BY <2>2 DEF Range
    <3>2. i \in 1 .. Len(r) /\ Len(q) + 1 \in 1 .. Len(r) /\ i < Len(q) + 1
      BY <3>1, <2>2
    <3>3. QED
      BY <3>1, <3>2, <2>2 DEF Before
  <2>8. QED
    BY <1>2, <2>1, <2>2, <2>4, <2>5, <2>6, <2>7
<1>3. QED
  BY <1>1, <1>2

\* What the queue is after a step of the event loop that wakes nobody, or h.
LEMMA RestsQueue ==
  ASSUME RequestTypeOK, NEW r, Runs(r), Rests
  PROVE  /\ Queue(ready')
         /\ \A x : Queued(x)' <=> Queued(x) /\ x # r
         /\ \A a, b : Before(ready, a, b) /\ a # r => b # r /\ Before(ready', a, b)
<1>1. Queue(ready) /\ ready # <<>> /\ Head(ready) = r /\ ready' = Tail(ready)
  BY DEF RequestTypeOK, Queue, Runs, Rests
<1>2. QED
  BY <1>1, TailQueue DEF Queued

\* What the queue is after the head of it has run and has woken h, if there was a cause.
LEMMA WakesQueue ==
  ASSUME RequestTypeOK, NEW r, Runs(r), NEW h \in Handle, NEW cause \in BOOLEAN,
         Wakes(h, cause)
  PROVE  /\ Queue(ready')
         /\ \A x : Queued(x)' <=> (Queued(x) /\ x # r) \/ (cause /\ x = h)
         /\ \A a, b : Before(ready, a, b) /\ a # r => b # r /\ Before(ready', a, b)
         /\ cause /\ (h = r \/ ~Queued(h)) =>
              \A a : Queued(a) /\ a # r => Before(ready', a, h)
<1> DEFINE q == Tail(ready)
<1>1. Queue(ready) /\ ready # <<>> /\ Head(ready) = r /\ ready' = Woken(q, h, cause)
  BY DEF RequestTypeOK, Queue, Runs, Wakes
<1>2. /\ Queue(q)
      /\ Range(q) = Range(ready) \ {r}
      /\ \A a, b : Before(ready, a, b) => b # r
      /\ \A a, b : Before(ready, a, b) /\ a # r => Before(q, a, b)
  BY <1>1, TailQueue
<1> HIDE DEF q
<1>3. /\ Queue(ready')
      /\ Range(ready') = Range(q) \cup (IF cause THEN {h} ELSE {})
      /\ \A a, b : Before(q, a, b) => Before(ready', a, b)
      /\ cause /\ h \notin Range(q) => \A a \in Range(q) : Before(ready', a, h)
  BY <1>1, <1>2, WokenQueue
<1>4. QED
  BY <1>2, <1>3 DEF Queued

\* The same when an event from outside wakes h.
LEMMA WakeupQueue ==
  ASSUME RequestTypeOK, NEW h \in Handle, Wakeup(h)
  PROVE  /\ Queue(ready')
         /\ \A x : Queued(x)' <=> Queued(x) \/ x = h
         /\ \A a, b : Before(ready, a, b) => Before(ready', a, b)
<1>1. Queue(ready) /\ ready' = Woken(ready, h, TRUE)
  BY DEF RequestTypeOK, Queue, Wakeup
<1>2. /\ Queue(ready')
      /\ Range(ready') = Range(ready) \cup {h}
      /\ \A a, b : Before(ready, a, b) => Before(ready', a, b)
  BY <1>1, WokenQueue
<1>3. QED
  BY <1>2 DEF Queued

\* A handle that is in the queue is one of the four.
LEMMA QueuedHandle ==
  ASSUME RequestTypeOK, NEW r, Runs(r)
  PROVE  r \in Handle /\ Queued(r)
<1>1. Queue(ready) /\ ready # <<>> /\ Head(ready) = r
  BY DEF RequestTypeOK, Queue, Runs
<1>2. Len(ready) \in Nat \ {0} /\ ready[1] = r /\ DOMAIN ready = 1 .. Len(ready)
  BY <1>1, EmptySeq, LenProperties DEF Queue
<1>3. QED
  BY <1>1, <1>2, TailQueue DEF Queued, Range

-----------------------------------------------------------------------------
\* The work goes on or ends, and leaves what it should.
WorkMoves(location) ==
  /\ Raises("work")
  /\ Goes("work", location)
  /\ UNCHANGED <<kind, requested, left, parentVars>>
  /\ saved' \in BOOLEAN /\ warned' \in BOOLEAN /\ upstream' \in {"open", "closed"}
  /\ saved' => kind = "turn" /\ ~warned'
  /\ warned' => left
  /\ location \in {"cleaning", "cancelled"} => requested["work"] = 1

\* Only the work moves.
LEMMA WorkMovesTo ==
  ASSUME RequestTypeOK, NEW location \in {"preparing", "inferring", "resting", "cleaning",
           "succeeded", "failed", "cancelled"}, WorkMoves(location)
  PROVE  /\ pc' \in Location /\ must' \in [Actor -> BOOLEAN]
         /\ pc'["work"] = location
         /\ pc'["parent"] = pc["parent"] /\ pc'["watcher"] = pc["watcher"]
         /\ must'["work"] = FALSE
         /\ must'["parent"] = must["parent"] /\ must'["watcher"] = must["watcher"]
<1>1. pc' = [pc EXCEPT !["work"] = location] /\ must' = [must EXCEPT !["work"] = FALSE]
  BY DEF WorkMoves, Raises, Goes
<1>2. QED
  BY <1>1 DEF RequestTypeOK, Location, Actor

\* While a child is not done the parent waits or joins.
LEMMA ParentThere ==
  ASSUME RequestInv, ~Done("work") \/ ~Done("watcher")
  PROVE  pc["parent"] \in {"waiting", "joining"} /\ ~joined
BY DEF RequestInv, RequestTypeOK, Location, Joined

\* The work ends, and the callback of its end comes into the queue.
LEMMA WorkEndsStep ==
  ASSUME RequestInv, Runs("work"), NEW location \in {"succeeded", "failed", "cancelled"},
         WorkMoves(location), WorkEnds(location),
         location = "succeeded" =>
           (upstream' = "open" <=> kind = "stream") /\ (kind = "turn" => saved'),
         location # "succeeded" => upstream' = "closed"
  PROVE  RequestInv'
<1>1. /\ pc' \in Location /\ must' \in [Actor -> BOOLEAN]
      /\ pc'["work"] = location
      /\ pc'["parent"] = pc["parent"] /\ pc'["watcher"] = pc["watcher"]
      /\ must'["work"] = FALSE
      /\ must'["parent"] = must["parent"] /\ must'["watcher"] = must["watcher"]
  BY WorkMovesTo DEF RequestInv
<1>2. RequestTypeOK /\ Wakes("child", TRUE) /\ "child" \in Handle
  BY DEF RequestInv, WorkEnds, Handle
<1>3. /\ Queue(ready')
      /\ \A x : Queued(x)' <=> (Queued(x) /\ x # "work") \/ x = "child"
  BY <1>2, WakesQueue
<1>4. Queued("work") /\ ~Done("work")
  BY <1>2, QueuedHandle DEF RequestInv, WellQueued, Actor
<1>5. pc["parent"] \in {"waiting", "joining"} /\ ~joined
  BY <1>4, ParentThere
<1>6. /\ kind' = kind /\ requested' = requested /\ left' = left
      /\ joined' = joined /\ resultReady' = resultReady /\ cancelled' = cancelled
  BY DEF WorkMoves, parentVars
<1> USE DEF Actor, Done, Ends
<1>7. RequestTypeOK'
  BY <1>1, <1>3, <1>6 DEF RequestInv, RequestTypeOK, Queue, WorkMoves
<1>8. WellQueued'
  BY <1>1, <1>3, <1>6 DEF RequestInv, WellQueued
<1>9. Asked'
  BY <1>1, <1>4, <1>6 DEF RequestInv, Asked, WorkMoves
<1>10. Joined'
  BY <1>1, <1>4, <1>5, <1>6 DEF RequestInv, Joined
<1>11. Stored'
  BY <1>1, <1>6 DEF RequestInv, Stored, WorkMoves
<1>12. Opened'
  BY <1>1, <1>6 DEF RequestInv, RequestTypeOK, Opened, WorkMoves
<1>13. SavedKnowingly' /\ StreamsOwned' /\ ChildrenFinish'
  BY <1>1, <1>5, <1>6 DEF SavedKnowingly, LeftNotSaved, SavesReported, StreamsOwned,
                          ChildrenFinish, WorkMoves
<1>14. QED
  BY <1>7, <1>8, <1>9, <1>10, <1>11, <1>12, <1>13 DEF RequestInv

\* The work goes to its next await, and is not in the queue unless it rests.
LEMMA WorkSuspendsStep ==
  ASSUME RequestInv, Runs("work"),
         NEW location \in {"preparing", "inferring", "resting", "cleaning"},
         WorkMoves(location),
         IF location = "resting" THEN Wakes("work", TRUE) ELSE Rests,
         ~saved',
         location = "resting" => kind = "turn",
         location \in {"preparing", "resting"} => upstream' = "closed"
  PROVE  RequestInv'
<1>1. /\ pc' \in Location /\ must' \in [Actor -> BOOLEAN]
      /\ pc'["work"] = location
      /\ pc'["parent"] = pc["parent"] /\ pc'["watcher"] = pc["watcher"]
      /\ must'["work"] = FALSE
      /\ must'["parent"] = must["parent"] /\ must'["watcher"] = must["watcher"]
  BY WorkMovesTo DEF RequestInv
<1>2. RequestTypeOK /\ "work" \in Handle
  BY DEF RequestInv, Handle, Actor
<1>3. /\ Queue(ready')
      /\ \A x : Queued(x)' <=> (Queued(x) /\ x # "work") \/ (x = "work" /\ location = "resting")
      /\ location = "resting" =>
           \A a : Queued(a) /\ a # "work" => Before(ready', a, "work")
  <2>1. CASE location = "resting"
    <3>1. Wakes("work", TRUE)
      BY <2>1
    <3>2. QED
      BY <1>2, <2>1, <3>1, WakesQueue
  <2>2. CASE location # "resting"
    <3>1. Rests
      BY <2>2
    <3>2. QED
      BY <1>2, <2>2, <3>1, RestsQueue
  <2>3. QED
    BY <2>1, <2>2
<1>4. Queued("work") /\ ~Done("work")
  BY <1>2, QueuedHandle DEF RequestInv, WellQueued, Actor
<1>5. pc["parent"] \in {"waiting", "joining"} /\ ~joined
  BY <1>4, ParentThere
<1>6. /\ kind' = kind /\ requested' = requested /\ left' = left
      /\ joined' = joined /\ resultReady' = resultReady /\ cancelled' = cancelled
  BY DEF WorkMoves, parentVars
<1> USE DEF Actor, Done, Ends
<1>7. RequestTypeOK'
  BY <1>1, <1>3, <1>6 DEF RequestInv, RequestTypeOK, Queue, WorkMoves
<1>8. WellQueued'
  BY <1>1, <1>3, <1>4, <1>6 DEF RequestInv, WellQueued
<1>9. Asked'
  BY <1>1, <1>4, <1>6 DEF RequestInv, Asked, WorkMoves
<1>10. Joined'
  BY <1>1, <1>4, <1>5, <1>6 DEF RequestInv, Joined
<1>11. Stored'
  <2>1. left /\ requested["work"] = 0 => Queued("watcher")
    BY <1>4, <1>5 DEF RequestInv, RequestTypeOK, Location, WellQueued, Asked
  <2>2. requested["work"] \in {0, 1}
    BY DEF RequestInv, RequestTypeOK
  <2>3. warned' /\ location = "resting" /\ requested["work"] = 0 => Before(ready', "watcher", "work")
    BY <1>3, <2>1 DEF WorkMoves
  <2>4. QED
    BY <1>1, <1>6, <2>3 DEF RequestInv, Stored, WorkMoves
<1>12. Opened'
  BY <1>1, <1>6 DEF RequestInv, RequestTypeOK, Opened, WorkMoves
<1>13. SavedKnowingly' /\ StreamsOwned' /\ ChildrenFinish'
  BY <1>1, <1>5, <1>6 DEF SavedKnowingly, LeftNotSaved, SavesReported, StreamsOwned,
                          ChildrenFinish, WorkMoves
<1>14. QED
  BY <1>7, <1>8, <1>9, <1>10, <1>11, <1>12, <1>13 DEF RequestInv

\* A step of the work, whichever it is.
LEMMA RunWorkStep ==
  ASSUME RequestInv, RunWork
  PROVE  RequestInv'
<1> USE DEF Done, Ends
<1>1. /\ RequestTypeOK /\ Runs("work") /\ Raises("work")
      /\ UNCHANGED <<kind, requested, left, parentVars>>
      /\ kind \in {"turn", "reply", "stream"} /\ requested["work"] \in {0, 1}
      /\ saved \in BOOLEAN /\ warned \in BOOLEAN /\ left \in BOOLEAN
      /\ upstream \in {"open", "closed"}
  BY DEF RequestInv, RequestTypeOK, RunWork
<1>2. /\ saved => kind = "turn"
      /\ saved => ~warned
      /\ warned => left
      /\ must["work"] \/ pc["work"] = "cleaning" => requested["work"] = 1
  BY DEF RequestInv, Stored, Asked, SavedKnowingly, LeftNotSaved
<1> DEFINE Fresh == ~saved /\ pc["work"] \in {"new", "preparing", "inferring"}
<1>3. ASSUME Fails, pc["work"] \in {"new", "preparing", "inferring"}
      PROVE  RequestInv'
  <2>1. WorkEnds("failed") /\ upstream' = "closed" /\ saved' = saved /\ warned' = warned
    BY <1>3 DEF Fails
  <2>2. WorkMoves("failed")
    BY <1>1, <1>2, <2>1 DEF WorkMoves, WorkEnds
  <2>3. QED
    BY <1>1, <2>1, <2>2, WorkEndsStep
<1>4. ASSUME Answered, ~saved
      PROVE  RequestInv'
  <2>1. CASE kind = "turn"
    <3>1. /\ Goes("work", "resting") /\ Wakes("work", TRUE) /\ upstream' = "closed"
          /\ warned' = left /\ saved' = FALSE
      BY <1>1, <1>4, <2>1 DEF Answered
    <3>2. WorkMoves("resting")
      BY <1>1, <3>1 DEF WorkMoves
    <3>3. QED
      BY <1>1, <2>1, <3>1, <3>2, WorkSuspendsStep
  <2>2. CASE kind # "turn"
    <3>1. /\ WorkEnds("succeeded") /\ saved' = FALSE /\ warned' = warned
          /\ upstream' = IF kind = "stream" THEN "open" ELSE "closed"
      BY <1>1, <1>4, <2>2 DEF Answered
    <3>2. WorkMoves("succeeded")
      BY <1>1, <1>2, <3>1 DEF WorkMoves, WorkEnds
    <3>3. QED
      BY <1>1, <2>2, <3>1, <3>2, WorkEndsStep
  <2>3. QED
    BY <2>1, <2>2
<1>5. ASSUME Cleaned, requested["work"] = 1, ~saved
      PROVE  RequestInv'
  <2>1. WorkEnds("cancelled") /\ upstream' = "closed" /\ saved' = saved /\ warned' = warned
    BY <1>5 DEF Cleaned
  <2>2. WorkMoves("cancelled")
    BY <1>1, <1>2, <1>5, <2>1 DEF WorkMoves, WorkEnds
  <2>3. QED
    BY <1>1, <2>1, <2>2, WorkEndsStep
<1>6. ASSUME WorkEnds("cancelled"), Keeps, requested["work"] = 1, upstream = "closed"
      PROVE  RequestInv'
  <2>1. upstream' = "closed" /\ saved' = saved /\ warned' = warned
    BY <1>6 DEF Keeps
  <2>2. WorkMoves("cancelled")
    BY <1>1, <1>2, <1>6, <2>1 DEF WorkMoves, WorkEnds
  <2>3. QED
    BY <1>1, <1>6, <2>1, <2>2, WorkEndsStep
<1>7. CASE must["work"]
  <2>1. Interrupted /\ requested["work"] = 1 /\ pc["work"] # "cleaning"
    BY <1>2, <1>7 DEF RunWork, RequestInv, Asked
  <2>2. CASE pc["work"] = "inferring" /\ Unwinds
    <3>1. ~saved
      BY <2>2 DEF RequestInv, Stored
    <3>2. CASE Suspends("cleaning") /\ Keeps
      <4>1. Goes("work", "cleaning") /\ Rests /\ saved' = saved /\ warned' = warned
              /\ upstream' = upstream
        BY <3>2 DEF Suspends, Keeps
      <4>2. WorkMoves("cleaning")
        BY <1>1, <1>2, <2>1, <4>1 DEF WorkMoves
      <4>3. QED
        BY <1>1, <3>1, <4>1, <4>2, WorkSuspendsStep
    <3>3. QED
      BY <1>4, <1>5, <2>1, <2>2, <3>1, <3>2 DEF Unwinds
  <2>3. CASE pc["work"] \in {"new", "preparing", "resting"} /\ WorkEnds("cancelled") /\ Keeps
    <3>1. upstream = "closed"
      BY <2>3 DEF RequestInv, Opened
    <3>2. QED
      BY <1>6, <2>1, <2>3, <3>1
  <2>4. QED
    BY <2>1, <2>2, <2>3 DEF Interrupted
<1>8. CASE ~must["work"]
  <2>1. Continues
    BY <1>8 DEF RunWork
  <2>2. pc["work"] \in {"new", "preparing", "resting"} => upstream = "closed"
    BY DEF RequestInv, Opened
  <2>3. pc["work"] \in {"preparing", "inferring", "cleaning", "resting"} => ~saved
    BY DEF RequestInv, Stored
  <2>4. CASE pc["work"] = "new" /\ saved /\ Retries
    <3>1. WorkEnds("succeeded") /\ saved' = TRUE /\ warned' = warned /\ upstream' = "closed"
      BY <2>2, <2>4 DEF Retries, Keeps
    <3>2. WorkMoves("succeeded")
      BY <1>1, <1>2, <2>4, <3>1 DEF WorkMoves, WorkEnds
    <3>3. QED
      BY <1>1, <1>2, <2>4, <3>1, <3>2, WorkEndsStep
  <2>5. CASE pc["work"] = "new" /\ ~saved /\ Suspends("preparing") /\ Keeps
    <3>1. Goes("work", "preparing") /\ Rests /\ saved' = FALSE /\ warned' = warned
            /\ upstream' = "closed"
      BY <1>1, <2>2, <2>5 DEF Suspends, Keeps
    <3>2. WorkMoves("preparing")
      BY <1>1, <1>2, <3>1 DEF WorkMoves
    <3>3. QED
      BY <1>1, <3>1, <3>2, WorkSuspendsStep
  <2>6. CASE ~saved /\ Suspends("inferring") /\ upstream' = "open" /\ UNCHANGED <<saved, warned>>
    <3>1. Goes("work", "inferring") /\ Rests /\ saved' = FALSE /\ warned' = warned
      BY <1>1, <2>6 DEF Suspends
    <3>2. WorkMoves("inferring")
      BY <1>1, <1>2, <2>6, <3>1 DEF WorkMoves
    <3>3. QED
      BY <1>1, <3>1, <3>2, WorkSuspendsStep
  <2>7. CASE pc["work"] = "cleaning" /\ Cleaned
    BY <1>2, <1>5, <2>3, <2>7
  <2>8. CASE pc["work"] = "resting" /\ Saves
    <3>1. kind = "turn" /\ upstream = "closed" /\ ~saved
      BY <2>2, <2>3, <2>8 DEF RequestInv, Stored
    <3>2. requested["work"] = 0 => ~warned
      <4>1. ready # <<>> /\ Head(ready) = "work"
        BY <1>1 DEF Runs
      <4>2. ~Before(ready, "watcher", "work")
        BY <1>1, <4>1, TailQueue DEF RequestTypeOK, Queue
      <4>3. QED
        BY <2>8, <4>2 DEF RequestInv, Stored
    <3>3. CASE requested["work"] > 0 /\ WorkEnds("cancelled") /\ Keeps
      BY <1>1, <1>6, <3>1, <3>3
    <3>4. CASE requested["work"] = 0 /\ WorkEnds("succeeded") /\ saved' = TRUE
                 /\ UNCHANGED <<upstream, warned>>
      <4>1. WorkMoves("succeeded")
        BY <1>1, <1>2, <3>1, <3>2, <3>4 DEF WorkMoves, WorkEnds
      <4>2. QED
        BY <1>1, <3>1, <3>4, <4>1, WorkEndsStep
    <3>5. CASE requested["work"] = 0 /\ WorkEnds("failed") /\ saved' \in BOOLEAN
                 /\ UNCHANGED <<upstream, warned>>
      <4>1. WorkMoves("failed")
        BY <1>1, <1>2, <3>1, <3>2, <3>5 DEF WorkMoves, WorkEnds
      <4>2. QED
        BY <1>1, <3>1, <3>5, <4>1, WorkEndsStep
    <3>6. QED
      BY <2>8, <3>3, <3>4, <3>5 DEF Saves
  <2>9. QED
    BY <1>3, <1>4, <2>1, <2>3, <2>4, <2>5, <2>6, <2>7, <2>8 DEF Continues, Asks
<1>9. QED
  BY <1>7, <1>8

-----------------------------------------------------------------------------
\* Only the watcher moves.
LEMMA WatcherMovesTo ==
  ASSUME RequestTypeOK, NEW location \in {"receiving", "cleaning", "finished", "cancelled"},
         Goes("watcher", location)
  PROVE  /\ pc' \in Location
         /\ pc'["watcher"] = location
         /\ pc'["parent"] = pc["parent"] /\ pc'["work"] = pc["work"]
<1>1. pc' = [pc EXCEPT !["watcher"] = location]
  BY DEF Goes
<1>2. QED
  BY <1>1 DEF RequestTypeOK, Location

\* The watcher has seen the client leave.  It was not asked to stop, so the parent
\* still waits and nobody has cancelled the work before.
LEMMA ObservesStep ==
  ASSUME RequestInv, RunWatcher, Observes, ~must["watcher"], pc["watcher"] # "cleaning"
  PROVE  RequestInv'
<1>1. RequestTypeOK /\ Runs("watcher") /\ Queued("watcher") /\ ~Done("watcher")
  <2>1. RequestTypeOK /\ Runs("watcher")
    BY DEF RequestInv, RunWatcher
  <2>2. QED
    BY <2>1, QueuedHandle DEF RequestInv, WellQueued, Actor
<1>2. /\ pc' \in Location /\ pc'["watcher"] = "finished"
      /\ pc'["parent"] = pc["parent"] /\ pc'["work"] = pc["work"]
  BY <1>1, WatcherMovesTo DEF Observes
<1>3. pc["parent"] \in {"waiting", "joining"} /\ ~joined
  BY <1>1, ParentThere
<1> USE DEF Done, Ends
<1>4. /\ pc["watcher"] \in {"new", "receiving"}
      /\ requested["watcher"] = 0 /\ requested["work"] = 0 /\ pc["parent"] = "waiting"
  BY <1>1, <1>3 DEF RequestInv, RequestTypeOK, Location, Asked
<1>5. /\ must' \in [Actor -> BOOLEAN]
      /\ requested' \in [parent : 0 .. MaxCancels, work : 0 .. 1, watcher : 0 .. 1]
      /\ must'["work"] = (must["work"] \/ ~Done("work"))
      /\ must'["parent"] = must["parent"] /\ must'["watcher"] = must["watcher"]
      /\ requested'["work"] = (IF Done("work") THEN 0 ELSE 1)
      /\ requested'["parent"] = requested["parent"]
      /\ requested'["watcher"] = requested["watcher"]
  <2>1. /\ must' = [a \in Actor |-> must[a] \/ a \in Targets({"work"})]
        /\ requested' =
             [a \in Actor |-> IF a \in Targets({"work"}) THEN requested[a] + 1 ELSE requested[a]]
    BY DEF Observes, Cancels
  <2>2. \A a : a \in Targets({"work"}) <=> a = "work" /\ ~Done("work")
    BY DEF Targets
  <2>3. /\ must \in [Actor -> BOOLEAN]
        /\ requested \in [parent : 0 .. MaxCancels, work : 0 .. 1, watcher : 0 .. 1]
    BY DEF RequestInv, RequestTypeOK
  <2>4. QED
    BY <1>4, <2>1, <2>2, <2>3 DEF Actor
<1>6. /\ Queue(ready')
      /\ \A x : Queued(x)' <=> \/ Queued(x) /\ x # "watcher"
                               \/ x = "work" /\ ~Done("work")
                               \/ x = "child"
  <2> DEFINE q == Tail(ready)  p == Woken(q, "work", ~Done("work"))
  <2>1. ready' = Woken(p, "child", TRUE) /\ Queue(ready) /\ ready # <<>> /\ Head(ready) = "watcher"
    BY <1>1 DEF Observes, RequestTypeOK, Queue, Runs
  <2>2. Queue(q) /\ Range(q) = Range(ready) \ {"watcher"}
    BY <2>1, TailQueue
  <2> HIDE DEF q
  <2>3. "work" \in Handle /\ "child" \in Handle /\ TRUE \in BOOLEAN
    BY DEF Handle, Actor
  <2>4. Queue(p) /\ Range(p) = Range(q) \cup (IF ~Done("work") THEN {"work"} ELSE {})
    BY <2>2, <2>3, WokenQueue
  <2> HIDE DEF p
  <2>5. Queue(ready') /\ Range(ready') = Range(p) \cup {"child"}
    BY <2>1, <2>3, <2>4, WokenQueue
  <2>6. QED
    BY <2>2, <2>4, <2>5 DEF Queued
<1>7. /\ kind' = kind /\ left' = left /\ upstream' = upstream /\ saved' = saved
      /\ joined' = joined /\ resultReady' = resultReady /\ cancelled' = cancelled
      /\ warned' = warned /\ left
  BY DEF RunWatcher, Observes, parentVars
<1> USE DEF Actor
<1>8. RequestTypeOK'
  BY <1>2, <1>5, <1>6, <1>7 DEF RequestInv, RequestTypeOK, Queue
<1>9. WellQueued'
  BY <1>2, <1>5, <1>6, <1>7 DEF RequestInv, WellQueued
<1>10. Asked'
  BY <1>2, <1>4, <1>5, <1>7 DEF RequestInv, Asked
<1>11. Joined'
  BY <1>2, <1>3, <1>5, <1>7 DEF RequestInv, Joined
<1>12. Stored'
  BY <1>2, <1>5, <1>7 DEF RequestInv, Stored
<1>13. Opened'
  BY <1>2, <1>7 DEF RequestInv, Opened
<1>14. SavedKnowingly' /\ StreamsOwned' /\ ChildrenFinish'
  BY <1>2, <1>3, <1>7 DEF RequestInv, SavedKnowingly, LeftNotSaved, SavesReported,
                          StreamsOwned, ChildrenFinish
<1>15. QED
  BY <1>8, <1>9, <1>10, <1>11, <1>12, <1>13, <1>14 DEF RequestInv

\* The client is still there, so nothing has to be ordered in the queue.
LEMMA ReceivesStep ==
  ASSUME RequestInv, RunWatcher, Receives, ~must["watcher"], pc["watcher"] # "cleaning"
  PROVE  RequestInv'
<1>1. RequestTypeOK /\ Runs("watcher") /\ Queued("watcher") /\ ~Done("watcher")
  <2>1. RequestTypeOK /\ Runs("watcher")
    BY DEF RequestInv, RunWatcher
  <2>2. QED
    BY <2>1, QueuedHandle DEF RequestInv, WellQueued, Actor
<1>2. /\ pc' \in Location /\ pc'["watcher"] = "receiving"
      /\ pc'["parent"] = pc["parent"] /\ pc'["work"] = pc["work"]
  BY <1>1, WatcherMovesTo DEF Receives
<1>3. pc["parent"] \in {"waiting", "joining"} /\ ~joined
  BY <1>1, ParentThere
<1>4. /\ Queue(ready')
      /\ \A x : Queued(x)' <=> Queued(x) /\ x # "watcher"
  BY <1>1, RestsQueue DEF Receives
<1>5. /\ kind' = kind /\ left' = left /\ upstream' = upstream /\ saved' = saved
      /\ joined' = joined /\ resultReady' = resultReady /\ cancelled' = cancelled
      /\ warned' = warned /\ ~left /\ must' = must /\ requested' = requested
  BY DEF RunWatcher, Receives, parentVars
<1> USE DEF Actor, Done, Ends
<1>6. RequestTypeOK'
  BY <1>2, <1>4, <1>5 DEF RequestInv, RequestTypeOK, Queue
<1>7. WellQueued'
  BY <1>1, <1>2, <1>4, <1>5 DEF RequestInv, WellQueued
<1>8. Asked'
  BY <1>1, <1>2, <1>5 DEF RequestInv, Asked
<1>9. Joined'
  BY <1>1, <1>2, <1>3, <1>5 DEF RequestInv, Joined
<1>10. Stored' /\ Opened'
  BY <1>2, <1>5 DEF RequestInv, Stored, Opened
<1>11. SavedKnowingly' /\ StreamsOwned' /\ ChildrenFinish'
  BY <1>2, <1>3, <1>5 DEF RequestInv, SavedKnowingly, LeftNotSaved, SavesReported,
                          StreamsOwned, ChildrenFinish
<1>12. QED
  BY <1>6, <1>7, <1>8, <1>9, <1>10, <1>11 DEF RequestInv

\* The watcher is only ever cancelled by the parent, after its wait.
LEMMA DismissedStep ==
  ASSUME RequestInv, RunWatcher, Dismissed, must["watcher"] \/ pc["watcher"] = "cleaning"
  PROVE  RequestInv'
<1>1. RequestTypeOK /\ Runs("watcher") /\ Queued("watcher") /\ ~Done("watcher")
  <2>1. RequestTypeOK /\ Runs("watcher")
    BY DEF RequestInv, RunWatcher
  <2>2. QED
    BY <2>1, QueuedHandle DEF RequestInv, WellQueued, Actor
<1>2. \E location \in {"cleaning", "cancelled"} :
        /\ Goes("watcher", location)
        /\ IF location = "cleaning" THEN Rests ELSE Wakes("child", TRUE)
  BY DEF Dismissed
<1>3. PICK location \in {"cleaning", "cancelled"} :
        /\ Goes("watcher", location)
        /\ IF location = "cleaning" THEN Rests ELSE Wakes("child", TRUE)
  BY <1>2
<1>4. /\ pc' \in Location /\ pc'["watcher"] = location
      /\ pc'["parent"] = pc["parent"] /\ pc'["work"] = pc["work"]
  BY <1>1, <1>3, WatcherMovesTo
<1>5. pc["parent"] \in {"waiting", "joining"} /\ ~joined
  BY <1>1, ParentThere
<1>6. /\ Queue(ready')
      /\ \A x : Queued(x)' <=> (Queued(x) /\ x # "watcher") \/ (x = "child" /\ location # "cleaning")
  <2>1. CASE location = "cleaning"
    BY <1>1, <1>3, <2>1, RestsQueue
  <2>2. CASE location # "cleaning"
    <3>1. Wakes("child", TRUE) /\ "child" \in Handle
      BY <1>3, <2>2 DEF Handle
    <3>2. QED
      BY <1>1, <2>2, <3>1, WakesQueue
  <2>3. QED
    BY <2>1, <2>2
<1>7. /\ kind' = kind /\ left' = left /\ upstream' = upstream /\ saved' = saved
      /\ joined' = joined /\ resultReady' = resultReady /\ cancelled' = cancelled
      /\ warned' = warned /\ requested' = requested
  BY DEF RunWatcher, Dismissed, parentVars
<1> USE DEF Actor, Done, Ends
<1>8. /\ must' \in [Actor -> BOOLEAN] /\ must'["watcher"] = FALSE
      /\ must'["parent"] = must["parent"] /\ must'["work"] = must["work"]
  BY DEF RequestInv, RequestTypeOK, Dismissed, Raises
<1>9. /\ requested["watcher"] = 1 /\ pc["parent"] = "joining"
      /\ Done("work") \/ requested["work"] = 1
  BY <1>5 DEF RequestInv, Asked
<1>10. RequestTypeOK'
  BY <1>4, <1>6, <1>7, <1>8 DEF RequestInv, RequestTypeOK, Queue
<1>11. WellQueued'
  BY <1>4, <1>6, <1>7, <1>8 DEF RequestInv, WellQueued
<1>12. Asked'
  BY <1>4, <1>7, <1>8, <1>9 DEF RequestInv, Asked
<1>13. Joined'
  BY <1>1, <1>4, <1>5, <1>7 DEF RequestInv, Joined
<1>14. Stored' /\ Opened'
  BY <1>4, <1>7, <1>9 DEF RequestInv, Stored, Opened
<1>15. SavedKnowingly' /\ StreamsOwned' /\ ChildrenFinish'
  BY <1>4, <1>5, <1>7 DEF RequestInv, SavedKnowingly, LeftNotSaved, SavesReported,
                          StreamsOwned, ChildrenFinish
<1>16. QED
  BY <1>10, <1>11, <1>12, <1>13, <1>14, <1>15 DEF RequestInv

\* A step of the watcher, whichever it is.
LEMMA RunWatcherStep ==
  ASSUME RequestInv, RunWatcher
  PROVE  RequestInv'
<1>1. CASE must["watcher"] \/ pc["watcher"] = "cleaning"
  BY <1>1, DismissedStep DEF RunWatcher
<1>2. CASE ~(must["watcher"] \/ pc["watcher"] = "cleaning")
  BY <1>2, ObservesStep, ReceivesStep DEF RunWatcher
<1>3. QED
  BY <1>1, <1>2

-----------------------------------------------------------------------------
\* The callback of a child: it wakes the parent if that waits or joins.
LEMMA RunChildStep ==
  ASSUME RequestInv, RunChild
  PROVE  RequestInv'
<1>1. RequestTypeOK /\ Runs("child") /\ Queued("child")
  <2>1. RequestTypeOK /\ Runs("child")
    BY DEF RequestInv, RunChild
  <2>2. QED
    BY <2>1, QueuedHandle
<1> DEFINE cause == pc["parent"] = "waiting" \/ joined'
<1>2. /\ Queue(ready')
      /\ \A x : Queued(x)' <=> (Queued(x) /\ x # "child") \/ (cause /\ x = "parent")
      /\ \A a, b : Before(ready, a, b) /\ a # "child" => Before(ready', a, b)
  <2>1. Wakes("parent", cause) /\ "parent" \in Handle /\ cause \in BOOLEAN
    BY DEF RunChild, Handle, Actor
  <2> HIDE DEF cause
  <2>2. QED
    BY <1>1, <2>1, WakesQueue
<1>3. /\ kind' = kind /\ left' = left /\ upstream' = upstream /\ saved' = saved
      /\ pc' = pc /\ must' = must /\ requested' = requested
      /\ resultReady' = resultReady /\ cancelled' = cancelled /\ warned' = warned
      /\ joined' = (pc["parent"] = "joining" /\ Done("work") /\ Done("watcher"))
  BY DEF RunChild
<1>4. Done("work") \/ Done("watcher")
  BY <1>1 DEF RequestInv, WellQueued
<1> USE DEF Actor, Done, Ends
<1>5. RequestTypeOK'
  BY <1>2, <1>3 DEF RequestInv, RequestTypeOK, Queue
<1>6. WellQueued'
  <2>1. cause => ~Done("parent")
    BY <1>3
  <2> HIDE DEF cause
  <2>2. \A x : Queued(x)' => (Queued(x) /\ x # "child") \/ (cause /\ x = "parent")
    BY <1>2
  <2>3. \A x : Queued(x) /\ x # "child" => Queued(x)'
    BY <1>2
  <2>4. QED
    BY <1>3, <1>4, <2>1, <2>2, <2>3 DEF RequestInv, WellQueued
<1>7. Asked'
  BY <1>3 DEF RequestInv, Asked
<1>8. Joined'
  BY <1>3 DEF RequestInv, Joined
<1>9. Stored' /\ Opened'
  BY <1>2, <1>3 DEF RequestInv, Stored, Opened
<1>10. SavedKnowingly' /\ StreamsOwned' /\ ChildrenFinish'
  BY <1>3 DEF RequestInv, SavedKnowingly, LeftNotSaved, SavesReported,
              StreamsOwned, ChildrenFinish
<1>11. QED
  BY <1>5, <1>6, <1>7, <1>8, <1>9, <1>10 DEF RequestInv

-----------------------------------------------------------------------------
\* Only the parent moves.
LEMMA ParentMovesTo ==
  ASSUME RequestTypeOK, NEW location \in {"joining", "closing", "returned", "raised"},
         Goes("parent", location)
  PROVE  /\ pc' \in Location
         /\ pc'["parent"] = location
         /\ pc'["work"] = pc["work"] /\ pc'["watcher"] = pc["watcher"]
<1>1. pc' = [pc EXCEPT !["parent"] = location]
  BY DEF Goes
<1>2. QED
  BY <1>1 DEF RequestTypeOK, Location

\* The wait is over: the children that are not done are asked to stop, once.
LEMMA AfterWaitStep ==
  ASSUME RequestInv, RunParent, pc["parent"] = "waiting", AfterWait
  PROVE  RequestInv'
<1>1. RequestTypeOK /\ Runs("parent") /\ Queued("parent")
  <2>1. RequestTypeOK /\ Runs("parent")
    BY DEF RequestInv, RunParent
  <2>2. QED
    BY <2>1, QueuedHandle
<1>2. /\ pc' \in Location /\ pc'["parent"] = "joining"
      /\ pc'["work"] = pc["work"] /\ pc'["watcher"] = pc["watcher"]
  BY <1>1, ParentMovesTo DEF AfterWait
<1> DEFINE Due(a) == ~Done(a) /\ requested[a] = 0
<1>3. \A a : a \in Unasked <=> a \in {"work", "watcher"} /\ Due(a)
  BY DEF Unasked
<1>4. /\ Queue(ready')
      /\ \A x : Queued(x)' <=> \/ Queued(x) /\ x # "parent"
                               \/ x \in {"work", "watcher"} /\ Due(x)
                               \/ x = "child" /\ Done("work") /\ Done("watcher")
  <2> DEFINE q == Tail(ready)
             p == Woken(q, "work", "work" \in Unasked)
             r == Woken(p, "watcher", "watcher" \in Unasked)
  <2>1. /\ ready' = Woken(r, "child", Done("work") /\ Done("watcher"))
        /\ Queue(ready) /\ ready # <<>> /\ Head(ready) = "parent"
    BY <1>1 DEF AfterWait, RequestTypeOK, Queue, Runs
  <2>2. Queue(q) /\ Range(q) = Range(ready) \ {"parent"}
    BY <2>1, TailQueue
  <2> HIDE DEF q
  <2>3. "work" \in Handle /\ "watcher" \in Handle /\ "child" \in Handle
    BY DEF Handle, Actor
  <2>4. Queue(p) /\ Range(p) = Range(q) \cup (IF "work" \in Unasked THEN {"work"} ELSE {})
    <3>1. ("work" \in Unasked) \in BOOLEAN
      OBVIOUS
    <3>2. QED
      BY <2>2, <2>3, <3>1, WokenQueue
  <2> HIDE DEF p
  <2>5. Queue(r) /\ Range(r) = Range(p) \cup (IF "watcher" \in Unasked THEN {"watcher"} ELSE {})
    <3>1. ("watcher" \in Unasked) \in BOOLEAN
      OBVIOUS
    <3>2. QED
      BY <2>3, <2>4, <3>1, WokenQueue
  <2> HIDE DEF r
  <2>6. /\ Queue(ready')
        /\ Range(ready') = Range(r) \cup (IF Done("work") /\ Done("watcher") THEN {"child"} ELSE {})
    <3>1. (Done("work") /\ Done("watcher")) \in BOOLEAN
      BY DEF Done
    <3>2. QED
      BY <2>1, <2>3, <2>5, <3>1, WokenQueue
  <2>7. QED
    BY <1>3, <2>2, <2>4, <2>5, <2>6 DEF Queued
<1> USE DEF Actor, Done, Ends
<1>5. /\ must' \in [Actor -> BOOLEAN]
      /\ requested' \in [parent : 0 .. MaxCancels, work : 0 .. 1, watcher : 0 .. 1]
      /\ must'["parent"] = FALSE
      /\ must'["work"] = (must["work"] \/ Due("work"))
      /\ must'["watcher"] = (must["watcher"] \/ Due("watcher"))
      /\ requested'["parent"] = requested["parent"]
      /\ requested'["work"] = (IF Due("work") THEN 1 ELSE requested["work"])
      /\ requested'["watcher"] = (IF Due("watcher") THEN 1 ELSE requested["watcher"])
  <2>1. /\ must' = [a \in Actor |-> a # "parent" /\ (must[a] \/ a \in Unasked)]
        /\ requested' = [a \in Actor |-> IF a \in Unasked THEN requested[a] + 1 ELSE requested[a]]
    BY DEF AfterWait
  <2>2. /\ must \in [Actor -> BOOLEAN]
        /\ requested \in [parent : 0 .. MaxCancels, work : 0 .. 1, watcher : 0 .. 1]
    BY DEF RequestInv, RequestTypeOK
  <2> HIDE DEF Due
  <2>3. \A a \in {"work", "watcher"} : Due(a) => requested[a] = 0
    BY DEF Due
  <2>4. must'["parent"] = FALSE /\ must' \in [Actor -> BOOLEAN]
    BY <2>1, <2>2
  <2>5. \A a \in {"work", "watcher"} : must'[a] = (must[a] \/ Due(a))
    BY <1>3, <2>1, <2>2
  <2>6. \A a \in Actor : a \in Unasked => a # "parent" /\ requested[a] = 0
    BY <1>3, <2>3
  <2>7. \A a \in Actor : requested'[a] = IF a \in Unasked THEN requested[a] + 1 ELSE requested[a]
    BY <2>1
  <2>8. /\ requested'["parent"] = requested["parent"]
        /\ requested'["work"] = (IF Due("work") THEN 1 ELSE requested["work"])
        /\ requested'["watcher"] = (IF Due("watcher") THEN 1 ELSE requested["watcher"])
    BY <1>3, <2>6, <2>7
  <2>9. requested' \in [parent : 0 .. MaxCancels, work : 0 .. 1, watcher : 0 .. 1]
    BY <2>1, <2>2, <2>8
  <2>10. QED
    BY <2>4, <2>5, <2>8, <2>9
<1>6. /\ kind' = kind /\ left' = left /\ upstream' = upstream /\ saved' = saved
      /\ joined' = joined /\ cancelled' = cancelled /\ warned' = warned
      /\ resultReady' = (~must["parent"] /\ ~Done("watcher") /\ pc["work"] = "succeeded")
  BY DEF RunParent, AfterWait
<1>7. RequestTypeOK'
  BY <1>2, <1>4, <1>5, <1>6 DEF RequestInv, RequestTypeOK, Queue
<1>8. WellQueued'
  BY <1>2, <1>4, <1>5, <1>6 DEF RequestInv, WellQueued
<1>9. Asked'
  BY <1>2, <1>5, <1>6 DEF RequestInv, RequestTypeOK, Asked
<1>10. Joined'
  <2>1. Done("work") \/ Done("watcher") \/ must["parent"]
    BY <1>1 DEF RequestInv, WellQueued
  <2>2. ~resultReady' => left \/ requested["parent"] > 0 \/ pc["work"] = "failed"
    BY <1>6, <2>1 DEF RequestInv, Asked
  <2>3. QED
    BY <1>2, <1>5, <1>6, <2>2 DEF RequestInv, Joined
<1>11. Stored'
  BY <1>2, <1>5, <1>6 DEF RequestInv, RequestTypeOK, Stored
<1>12. Opened'
  BY <1>2, <1>6 DEF RequestInv, Opened
<1>13. SavedKnowingly' /\ StreamsOwned' /\ ChildrenFinish'
  BY <1>2, <1>6 DEF RequestInv, SavedKnowingly, LeftNotSaved, SavesReported,
              StreamsOwned, ChildrenFinish
<1>14. QED
  BY <1>7, <1>8, <1>9, <1>10, <1>11, <1>12, <1>13 DEF RequestInv

\* The parent comes to its end, or goes on waiting, with both children done or not.
LEMMA ParentEndsStep ==
  ASSUME RequestInv, RunParent, pc["parent"] \in {"joining", "closing"},
         Joins \/ Closes,
         NEW location \in {"joining", "closing", "returned", "raised"},
         pc'["parent"] = location, pc' \in Location,
         pc'["work"] = pc["work"], pc'["watcher"] = pc["watcher"],
         location = "joining" => pc["parent"] = "joining",
         location # "joining" => Done("work") /\ Done("watcher"),
         location = "closing" =>
           pc["work"] = "succeeded" /\ kind = "stream" /\ (~resultReady \/ cancelled'),
         location \in {"returned", "raised"} =>
           /\ location = "returned" <=> resultReady /\ ~cancelled'
           /\ upstream = "open" <=> location = "returned" /\ kind = "stream"
  PROVE  RequestInv'
<1>1. RequestTypeOK /\ Runs("parent") /\ Rests
  BY DEF RequestInv, RunParent, Joins, Closes
<1>2. /\ Queue(ready')
      /\ \A x : Queued(x)' <=> Queued(x) /\ x # "parent"
      /\ \A a, b : Before(ready, a, b) /\ a # "parent" => Before(ready', a, b)
  BY <1>1, RestsQueue
<1>3. /\ kind' = kind /\ left' = left /\ upstream' = upstream /\ saved' = saved
      /\ requested' = requested /\ joined' = joined /\ resultReady' = resultReady
      /\ warned' = warned /\ cancelled' = (cancelled \/ must["parent"])
  BY DEF RunParent, Joins, Closes
<1> USE DEF Actor, Done, Ends
<1>4. /\ must' \in [Actor -> BOOLEAN] /\ must'["parent"] = FALSE
      /\ must'["work"] = must["work"] /\ must'["watcher"] = must["watcher"]
  <2>1. must' = [must EXCEPT !["parent"] = FALSE]
    BY DEF Joins, Closes, Raises
  <2>2. QED
    BY <2>1 DEF RequestInv, RequestTypeOK
<1>5. RequestTypeOK'
  BY <1>2, <1>3, <1>4 DEF RequestInv, RequestTypeOK, Queue
<1>6. WellQueued'
  BY <1>2, <1>3, <1>4 DEF RequestInv, WellQueued
<1>7. Asked'
  BY <1>3, <1>4 DEF RequestInv, Asked
<1>8. Joined'
  BY <1>3, <1>4 DEF RequestInv, Joined
<1>9. Stored'
  BY <1>2, <1>3 DEF RequestInv, Stored
<1>10. Opened'
  BY <1>3 DEF RequestInv, Opened
<1>11. SavedKnowingly'
  <2>1. cancelled' => requested["parent"] > 0
    BY <1>3 DEF RequestInv, Asked
  <2>2. QED
    BY <1>3, <2>1 DEF RequestInv, Joined, Stored, SavedKnowingly, LeftNotSaved, SavesReported
<1>12. StreamsOwned' /\ ChildrenFinish'
  BY <1>3 DEF RequestInv, StreamsOwned, ChildrenFinish
<1>13. QED
  BY <1>5, <1>6, <1>7, <1>8, <1>9, <1>10, <1>11, <1>12 DEF RequestInv

\* A step of the parent, whichever it is.
LEMMA RunParentStep ==
  ASSUME RequestInv, RunParent
  PROVE  RequestInv'
<1>1. CASE pc["parent"] = "waiting" /\ AfterWait
  BY <1>1, AfterWaitStep
<1>2. CASE pc["parent"] = "joining" /\ Joins
  <2>1. CASE ~joined
    <3>1. pc' = pc
      BY <1>2, <2>1 DEF Joins
    <3>2. pc \in Location
      BY DEF RequestInv, RequestTypeOK
    <3>3. QED
      BY <1>2, <3>1, <3>2, ParentEndsStep
  <2>2. CASE joined
    <3>1. Done("work") /\ Done("watcher") /\ pc["work"] \in {"succeeded", "failed", "cancelled"}
      BY <2>2 DEF RequestInv, Joined, Done, Ends
    <3>2. cancelled' \in BOOLEAN /\ resultReady \in BOOLEAN
      BY <1>2 DEF Joins, RequestInv, RequestTypeOK, Actor
    <3>3. CASE Abandoned
      <4>1. Goes("parent", "closing")
        BY <1>2, <2>2, <3>3 DEF Joins
      <4>2. /\ pc' \in Location /\ pc'["parent"] = "closing"
            /\ pc'["work"] = pc["work"] /\ pc'["watcher"] = pc["watcher"]
        BY <4>1, ParentMovesTo DEF RequestInv
      <4>3. QED
        BY <1>2, <3>1, <3>3, <4>2, ParentEndsStep DEF Abandoned
    <3>4. CASE ~Abandoned
      <4> DEFINE location == IF resultReady /\ ~cancelled' THEN "returned" ELSE "raised"
      <4>1. Goes("parent", location)
        BY <1>2, <2>2, <3>4 DEF Joins, Finishes
      <4>2. /\ location \in {"returned", "raised"}
            /\ location = "returned" <=> resultReady /\ ~cancelled'
        OBVIOUS
      <4>3. upstream = "open" <=> location = "returned" /\ kind = "stream"
        BY <1>2, <3>1, <3>2, <3>4, <4>2
           DEF Abandoned, RequestInv, RequestTypeOK, Joined, Opened, Done, Ends
      <4> HIDE DEF location
      <4>4. /\ pc' \in Location /\ pc'["parent"] = location
            /\ pc'["work"] = pc["work"] /\ pc'["watcher"] = pc["watcher"]
        BY <4>1, <4>2, ParentMovesTo DEF RequestInv
      <4>5. QED
        BY <1>2, <3>1, <4>2, <4>3, <4>4, ParentEndsStep
    <3>5. QED
      BY <3>3, <3>4
  <2>3. QED
    BY <2>1, <2>2
<1>3. CASE pc["parent"] = "closing" /\ Closes
  <2>1. /\ Done("work") /\ Done("watcher") /\ pc["work"] = "succeeded" /\ kind = "stream"
        /\ ~resultReady \/ cancelled'
    BY <1>3 DEF RequestInv, Joined, Closes
  <2>2. CASE upstream = "closed"
    <3>1. Goes("parent", "raised")
      BY <1>3, <2>1, <2>2 DEF Closes, Finishes
    <3>2. /\ pc' \in Location /\ pc'["parent"] = "raised"
          /\ pc'["work"] = pc["work"] /\ pc'["watcher"] = pc["watcher"]
      BY <3>1, ParentMovesTo DEF RequestInv
    <3>3. QED
      BY <1>3, <2>1, <2>2, <3>2, ParentEndsStep
  <2>3. CASE upstream # "closed"
    <3>1. pc' = pc /\ pc \in Location
      BY <1>3, <2>3 DEF Closes, RequestInv, RequestTypeOK
    <3>2. QED
      BY <1>3, <2>1, <3>1, ParentEndsStep
  <2>4. QED
    BY <2>2, <2>3
<1>4. QED
  BY <1>1, <1>2, <1>3 DEF RunParent

-----------------------------------------------------------------------------
\* What a child awaits is over.
LEMMA ReadyStep ==
  ASSUME RequestInv, NEW a \in {"work", "watcher"}, Ready(a)
  PROVE  RequestInv'
<1>1. a \in Handle /\ Wakeup(a) /\ RequestTypeOK
  BY DEF Ready, Handle, Actor, RequestInv
<1>2. /\ Queue(ready')
      /\ \A x : Queued(x)' <=> Queued(x) \/ x = a
      /\ \A c, b : Before(ready, c, b) => Before(ready', c, b)
  BY <1>1, WakeupQueue
<1>3. /\ kind' = kind /\ left' = left /\ upstream' = upstream /\ saved' = saved
      /\ pc' = pc /\ must' = must /\ requested' = requested /\ joined' = joined
      /\ resultReady' = resultReady /\ cancelled' = cancelled /\ warned' = warned
  BY DEF Ready, parentVars
<1> USE DEF Actor, Done, Ends
<1>4. RequestTypeOK'
  BY <1>2, <1>3 DEF RequestInv, RequestTypeOK, Queue
<1>5. WellQueued'
  BY <1>2, <1>3 DEF RequestInv, WellQueued, Ready
<1>6. Asked' /\ Joined'
  BY <1>3 DEF RequestInv, Asked, Joined
<1>7. Stored' /\ Opened'
  BY <1>2, <1>3 DEF RequestInv, Stored, Opened
<1>8. SavedKnowingly' /\ StreamsOwned' /\ ChildrenFinish'
  BY <1>3 DEF RequestInv, SavedKnowingly, LeftNotSaved, SavesReported,
              StreamsOwned, ChildrenFinish
<1>9. QED
  BY <1>4, <1>5, <1>6, <1>7, <1>8 DEF RequestInv

\* The client leaves: a watcher that receives is woken at once.
LEMMA LeaveStep ==
  ASSUME RequestInv, Leave
  PROVE  RequestInv'
<1>1. "watcher" \in Handle /\ RequestTypeOK
  BY DEF Handle, Actor, RequestInv
<1>2. /\ Queue(ready')
      /\ \A x : Queued(x)' <=> Queued(x) \/ (x = "watcher" /\ pc["watcher"] = "receiving")
      /\ \A a, b : Before(ready, a, b) => Before(ready', a, b)
  <2>1. CASE pc["watcher"] = "receiving"
    <3>1. Wakeup("watcher")
      BY <2>1 DEF Leave
    <3>2. QED
      BY <1>1, <2>1, <3>1, WakeupQueue
  <2>2. CASE pc["watcher"] # "receiving"
    BY <1>1, <2>2 DEF Leave, RequestTypeOK, Queue, Queued
  <2>3. QED
    BY <2>1, <2>2
<1>3. /\ kind' = kind /\ left' = TRUE /\ upstream' = upstream /\ saved' = saved
      /\ pc' = pc /\ must' = must /\ requested' = requested /\ joined' = joined
      /\ resultReady' = resultReady /\ cancelled' = cancelled /\ warned' = warned
  BY DEF Leave, parentVars
<1> USE DEF Actor, Done, Ends
<1>4. RequestTypeOK'
  BY <1>2, <1>3 DEF RequestInv, RequestTypeOK, Queue
<1>5. WellQueued'
  BY <1>2, <1>3 DEF RequestInv, WellQueued
<1>6. Asked' /\ Joined'
  BY <1>3 DEF RequestInv, Asked, Joined
<1>7. Stored' /\ Opened'
  BY <1>2, <1>3 DEF RequestInv, Stored, Opened
<1>8. SavedKnowingly' /\ StreamsOwned' /\ ChildrenFinish'
  BY <1>3 DEF RequestInv, SavedKnowingly, LeftNotSaved, SavesReported,
              StreamsOwned, ChildrenFinish
<1>9. QED
  BY <1>4, <1>5, <1>6, <1>7, <1>8 DEF RequestInv

\* The server cancels the request: the parent is woken and will find the CancelledError.
LEMMA CancelParentStep ==
  ASSUME RequestInv, CancelParent
  PROVE  RequestInv'
<1>1. "parent" \in Handle /\ RequestTypeOK /\ Wakeup("parent")
  BY DEF Handle, Actor, RequestInv, CancelParent
<1>2. /\ Queue(ready')
      /\ \A x : Queued(x)' <=> Queued(x) \/ x = "parent"
      /\ \A a, b : Before(ready, a, b) => Before(ready', a, b)
  BY <1>1, WakeupQueue
<1>3. /\ kind' = kind /\ left' = left /\ upstream' = upstream /\ saved' = saved
      /\ pc' = pc /\ joined' = joined /\ resultReady' = resultReady
      /\ cancelled' = cancelled /\ warned' = warned
  BY DEF CancelParent, parentVars
<1>4. /\ must' \in [Actor -> BOOLEAN]
      /\ requested' \in [parent : 0 .. MaxCancels, work : 0 .. 1, watcher : 0 .. 1]
      /\ must'["parent"] = TRUE
      /\ must'["work"] = must["work"] /\ must'["watcher"] = must["watcher"]
      /\ requested'["parent"] = requested["parent"] + 1 /\ requested["parent"] \in Nat
      /\ requested'["work"] = requested["work"]
      /\ requested'["watcher"] = requested["watcher"]
  <2>1. /\ must' = [a \in Actor |-> must[a] \/ a \in Targets({"parent"})]
        /\ requested' =
             [a \in Actor |-> IF a \in Targets({"parent"}) THEN requested[a] + 1 ELSE requested[a]]
        /\ requested["parent"] < MaxCancels
    BY DEF CancelParent, Cancels
  <2>2. \A a : a \in Targets({"parent"}) <=> a = "parent"
    BY DEF Targets, CancelParent
  <2>3. /\ must \in [Actor -> BOOLEAN]
        /\ requested \in [parent : 0 .. MaxCancels, work : 0 .. 1, watcher : 0 .. 1]
    BY <1>1 DEF RequestTypeOK
  <2>4. /\ must' \in [Actor -> BOOLEAN] /\ must'["parent"] = TRUE
        /\ must'["work"] = must["work"] /\ must'["watcher"] = must["watcher"]
    BY <2>1, <2>2, <2>3 DEF Actor
  <2>5. QED
    BY <2>1, <2>2, <2>3, <2>4, MaxCancelsAssumption DEF Actor
<1> USE DEF Actor, Done, Ends
<1>5. RequestTypeOK'
  BY <1>2, <1>3, <1>4 DEF RequestInv, RequestTypeOK, Queue
<1>6. WellQueued'
  BY <1>2, <1>3, <1>4 DEF RequestInv, WellQueued, CancelParent
<1>7. Asked' /\ Joined'
  BY <1>3, <1>4 DEF RequestInv, Asked, Joined
<1>8. Stored' /\ Opened'
  BY <1>2, <1>3, <1>4 DEF RequestInv, Stored, Opened
<1>9. SavedKnowingly' /\ StreamsOwned' /\ ChildrenFinish'
  BY <1>3, <1>4 DEF RequestInv, SavedKnowingly, LeftNotSaved, SavesReported,
              StreamsOwned, ChildrenFinish
<1>10. QED
  BY <1>5, <1>6, <1>7, <1>8, <1>9 DEF RequestInv

\* The stream that nobody consumes is closed.
LEMMA ClosedStep ==
  ASSUME RequestInv, Closed
  PROVE  RequestInv'
<1>1. "parent" \in Handle /\ RequestTypeOK /\ Wakeup("parent") /\ pc["parent"] = "closing"
  BY DEF Handle, Actor, RequestInv, Closed
<1>2. /\ Queue(ready')
      /\ \A x : Queued(x)' <=> Queued(x) \/ x = "parent"
      /\ \A a, b : Before(ready, a, b) => Before(ready', a, b)
  BY <1>1, WakeupQueue
<1>3. /\ kind' = kind /\ left' = left /\ upstream' = "closed" /\ saved' = saved
      /\ pc' = pc /\ must' = must /\ requested' = requested /\ joined' = joined
      /\ resultReady' = resultReady /\ cancelled' = cancelled /\ warned' = warned
  BY DEF Closed, parentVars
<1> USE DEF Actor, Done, Ends
<1>4. RequestTypeOK'
  BY <1>2, <1>3 DEF RequestInv, RequestTypeOK, Queue
<1>5. WellQueued'
  BY <1>1, <1>2, <1>3 DEF RequestInv, WellQueued
<1>6. Asked' /\ Joined'
  BY <1>3 DEF RequestInv, Asked, Joined
<1>7. Stored' /\ Opened'
  BY <1>1, <1>2, <1>3 DEF RequestInv, Stored, Opened
<1>8. SavedKnowingly' /\ StreamsOwned' /\ ChildrenFinish'
  BY <1>1, <1>3 DEF RequestInv, SavedKnowingly, LeftNotSaved, SavesReported,
              StreamsOwned, ChildrenFinish
<1>9. QED
  BY <1>4, <1>5, <1>6, <1>7, <1>8 DEF RequestInv

-----------------------------------------------------------------------------
\* A request begins with both children in the queue and nobody asked to stop.
LEMMA RequestInvInit == Init => RequestInv
<1> SUFFICES ASSUME Init PROVE RequestInv
  OBVIOUS
<1> USE DEF Init, Actor, Done, Ends
<1>0. /\ pc["work"] = "new" /\ pc["watcher"] = "new" /\ pc["parent"] = "waiting"
      /\ \A a \in Actor : ~must[a] /\ requested[a] = 0
  OBVIOUS
<1>1. ready \in Seq(Handle) /\ IsInjective(ready)
  <2>1. ready \in Seq(Handle) /\ Len(ready) = 2
    BY DEF Handle
  <2>2. DOMAIN ready = 1 .. 2 /\ ready[1] = "work" /\ ready[2] = "watcher"
    BY <2>1
  <2>3. QED
    BY <2>1, <2>2 DEF IsInjective
<1>2. /\ pc \in Location /\ must \in [Actor -> BOOLEAN]
      /\ requested \in [parent : 0 .. MaxCancels, work : 0 .. 1, watcher : 0 .. 1]
  BY MaxCancelsAssumption DEF Location
<1>3. RequestTypeOK
  BY <1>1, <1>2 DEF RequestTypeOK
<1>4. \A x : Queued(x) <=> x \in {"work", "watcher"}
  <2>1. DOMAIN ready = {1, 2} /\ ready[1] = "work" /\ ready[2] = "watcher"
    OBVIOUS
  <2>2. QED
    BY <2>1 DEF Queued, Range
<1>5. WellQueued
  BY <1>0, <1>4 DEF WellQueued
<1>6. Asked
  BY <1>0 DEF Asked
<1>7. Joined /\ Stored /\ Opened
  BY <1>0 DEF Joined, Stored, Opened
<1>8. SavedKnowingly /\ StreamsOwned /\ ChildrenFinish
  BY DEF SavedKnowingly, LeftNotSaved, SavesReported, StreamsOwned, ChildrenFinish
<1>9. QED
  BY <1>3, <1>5, <1>6, <1>7, <1>8 DEF RequestInv

\* Every step of the event loop and every event from outside preserves the invariant.
LEMMA RequestInvStep == RequestInv /\ [Next]_vars => RequestInv'
<1> SUFFICES ASSUME RequestInv, [Next]_vars PROVE RequestInv'
  OBVIOUS
<1>1. CASE UNCHANGED vars
  <2>1. UNCHANGED ready
    BY <1>1 DEF vars
  <2>2. RequestTypeOK' /\ WellQueued' /\ Asked' /\ Joined' /\ Stored' /\ Opened'
    BY <1>1 DEF vars, parentVars, RequestInv, RequestTypeOK, WellQueued, Asked, Joined, Stored,
                Opened, Queued, Done
  <2>3. SavedKnowingly' /\ StreamsOwned' /\ ChildrenFinish'
    BY <1>1 DEF vars, parentVars, RequestInv, SavedKnowingly, LeftNotSaved, SavesReported,
                StreamsOwned, ChildrenFinish, Done
  <2>4. QED
    BY <2>2, <2>3 DEF RequestInv
<1>2. QED
  BY <1>1, RunWorkStep, RunWatcherStep, RunChildStep, RunParentStep, ReadyStep, LeaveStep,
     CancelParentStep, ClosedStep DEF Next, Loop

\* The invariant holds of every request, whatever its kind and however often the
\* server cancels it.
THEOREM RequestSafe == Spec => []RequestInv
BY RequestInvInit, RequestInvStep, PTL DEF Spec

\* Above all, no child is asked to stop twice and the queue holds no handle twice.
THEOREM RequestTyped == Spec => []RequestTypeOK
<1>1. RequestInv => RequestTypeOK
  BY DEF RequestInv
<1>2. QED
  BY <1>1, RequestSafe, PTL

\* No turn is saved for a client that had left when the provider answered, and none
\* that was saved is lost on the way to a client that stays.
THEOREM TurnsSavedKnowingly == Spec => []SavedKnowingly
<1>1. RequestInv => SavedKnowingly
  BY DEF RequestInv
<1>2. QED
  BY <1>1, RequestSafe, PTL

\* A stream of the provider is open after the request only if it was handed over.
THEOREM StreamsAreOwned == Spec => []StreamsOwned
<1>1. RequestInv => StreamsOwned
  BY DEF RequestInv
<1>2. QED
  BY <1>1, RequestSafe, PTL

\* No finalizer of a child is cut short, and no child outlives the request.
THEOREM ChildrenDoFinish == Spec => []ChildrenFinish
<1>1. RequestInv => ChildrenFinish
  BY DEF RequestInv
<1>2. QED
  BY <1>1, RequestSafe, PTL
=============================================================================
