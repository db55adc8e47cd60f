------------------------------ MODULE Disconnect ------------------------------
(***************************************************************************)
(* One request at the HTTP boundary (api.py, until_disconnect): a parent   *)
(* task runs the operation in a work task, next to a watcher task that     *)
(* waits for the client to leave.                                          *)
(*                                                                         *)
(* The event loop is a queue of handles, run to their next await one at a  *)
(* time, first in first out.  An event from outside appends a handle.      *)
(* Task.cancel() makes the task's next run begin with a CancelledError.    *)
(*                                                                         *)
(* The operation is a turn, which saves its result, a reply, which saves   *)
(* nothing, or a stream, which hands the provider's open stream to its     *)
(* response.                                                               *)
(***************************************************************************)
EXTENDS Naturals, Sequences, Functions

CONSTANT MaxCancels  \* how often the server may cancel the request's own task

ASSUME MaxCancelsAssumption == MaxCancels \in Nat

Actor == {"parent", "work", "watcher"}
Handle == Actor \cup {"child"}  \* child: the done callback of a child task

VARIABLES
  kind,       \* "turn", "reply" or "stream"
  ready,      \* the handles the event loop is about to run
  pc,         \* where each task is
  must,       \* a task's next run begins with a CancelledError
  requested,  \* Task.cancelling(): how often a task was asked to cancel
  left,       \* the client has left: receive() returns http.disconnect
  upstream,   \* the provider's stream: "open" or "closed"
  saved,      \* the turn is stored, by this request or by one that it retries
  joined,     \* gather(work, watcher) is done
  resultReady, cancelled,  \* the parent's local variables
  (*------------------------ observability variable -----------------------*)
  warned      \* the client had left before the work came to its last rest

parentVars == <<joined, resultReady, cancelled>>
vars == <<kind, ready, pc, must, requested, left, upstream, saved, parentVars, warned>>

Ends ==
  [work |-> {"succeeded", "failed", "cancelled"},
   watcher |-> {"finished", "cancelled"},
   parent |-> {"returned", "raised"}]

Done(a) == pc[a] \in Ends[a]

\* The queue q with the handle h behind the others, if there is a cause and it is not
\* among them yet.
Woken(q, h, cause) == IF cause /\ h \notin Range(q) THEN Append(q, h) ELSE q

Queued(h) == h \in Range(ready)

Runs(h) == ready # <<>> /\ Head(ready) = h

\* The head of the queue runs, and wakes nobody or h.
Rests == ready' = Tail(ready)
Wakes(h, cause) == ready' = Woken(Tail(ready), h, cause)

Goes(a, location) == pc' = [pc EXCEPT ![a] = location]

\* The tasks of S that Task.cancel() would reach; for the others it does nothing.
Targets(S) == {a \in S : ~Done(a)}

\* Task.cancel() on every task of S: each must be woken as well.
Cancels(S) ==
  /\ must' = [a \in Actor |-> must[a] \/ a \in Targets(S)]
  /\ requested' =
       [a \in Actor |-> IF a \in Targets(S) THEN requested[a] + 1 ELSE requested[a]]

\* The CancelledError is raised, once.
Raises(a) == must' = [must EXCEPT ![a] = FALSE]

Init ==
  /\ kind \in {"turn", "reply", "stream"}
  /\ ready = <<"work", "watcher">>
  /\ pc = [parent |-> "waiting", work |-> "new", watcher |-> "new"]
  /\ must = [a \in Actor |-> FALSE]
  /\ requested = [a \in Actor |-> 0]
  /\ left = FALSE
  /\ upstream = "closed"
  /\ saved \in IF kind = "turn" THEN BOOLEAN ELSE {FALSE}
  /\ joined = FALSE
  /\ resultReady = FALSE
  /\ cancelled = FALSE
  /\ warned = FALSE

-----------------------------------------------------------------------------
(***************************************************************************)
(* The work: complete() for a turn, run() for the others.  An await that   *)
(* is over at once does not suspend the task.                              *)
(***************************************************************************)
WorkEnds(location) == Goes("work", location) /\ Wakes("child", TRUE)

Suspends(location) == Goes("work", location) /\ Rests

Keeps == UNCHANGED <<upstream, saved, warned>>

\* The provider has answered.  A turn has consumed its stream and rests once,
\* with sleep(0); a reply is the result, and so is a stream that was begun.
Answered ==
  /\ UNCHANGED saved
  /\ \/ /\ kind = "turn"
        /\ Goes("work", "resting")
        /\ Wakes("work", TRUE)
        /\ upstream' = "closed"
        /\ warned' = left
     \/ /\ kind = "stream"
        /\ WorkEnds("succeeded")
        /\ upstream' = "open"
        /\ UNCHANGED warned
     \/ /\ kind = "reply"
        /\ WorkEnds("succeeded")
        /\ upstream' = "closed"
        /\ UNCHANGED warned

\* A turn that is stored already: its receipt is the result, with no await.
Retries == WorkEnds("succeeded") /\ Keeps

\* The call of the provider, which may answer, fail or take its time.
Asks ==
  \/ Suspends("inferring") /\ upstream' = "open" /\ UNCHANGED <<saved, warned>>
  \/ Answered

\* An error ends the operation; whatever it had opened is closed.
Fails == WorkEnds("failed") /\ upstream' = "closed" /\ UNCHANGED <<saved, warned>>

\* complete() from sleep(0) to its end has no await, and looks first whether it was
\* cancelled.  It may fail before the turn is stored, or after: the connection is lost
\* as it commits, or the policy no longer lets the receipt be read.
Saves ==
  \/ /\ requested["work"] > 0
     /\ WorkEnds("cancelled")
     /\ Keeps
  \/ /\ requested["work"] = 0
     /\ WorkEnds("succeeded")
     /\ saved' = TRUE
     /\ UNCHANGED <<upstream, warned>>
  \/ /\ requested["work"] = 0
     /\ WorkEnds("failed")
     /\ saved' \in BOOLEAN
     /\ UNCHANGED <<upstream, warned>>

\* The finalizers have closed what was open.
Cleaned == WorkEnds("cancelled") /\ upstream' = "closed" /\ UNCHANGED <<saved, warned>>

\* A CancelledError in the middle of the provider call: finalizers close what is
\* open, at once or after an await of their own; or a library swallows it.
Unwinds ==
  \/ Suspends("cleaning") /\ Keeps
  \/ Cleaned
  \/ Answered

Continues ==
  \/ pc["work"] = "new" /\ saved /\ (Retries \/ Fails)
  \/ pc["work"] = "new" /\ ~saved /\ Suspends("preparing") /\ Keeps
  \/ pc["work"] \in {"new", "preparing"} /\ ~saved /\ (Asks \/ Fails)
  \/ pc["work"] = "inferring" /\ (Answered \/ Fails)
  \/ pc["work"] = "cleaning" /\ Cleaned
  \/ pc["work"] = "resting" /\ Saves

\* A CancelledError while cleaning leaves the finalizers half done.
Interrupted ==
  \/ pc["work"] = "inferring" /\ Unwinds
  \/ pc["work"] \in {"new", "preparing", "cleaning", "resting"} /\ WorkEnds("cancelled") /\ Keeps

RunWork ==
  /\ Runs("work")
  /\ Raises("work")
  /\ IF must["work"] THEN Interrupted ELSE Continues
  /\ UNCHANGED <<kind, requested, left, parentVars>>

-----------------------------------------------------------------------------
\* Mutant: the watcher leaves it to the parent to cancel the work.
ObservesQuietly ==
  /\ left
  /\ Goes("watcher", "finished")
  /\ Wakes("child", TRUE)
  /\ UNCHANGED <<must, requested>>

\* disconnected(): the watcher cancels the work itself and does not leave it to the
\* parent.
Observes ==
  /\ left
  /\ Goes("watcher", "finished")
  /\ Cancels({"work"})
  /\ ready' = Woken(Woken(Tail(ready), "work", ~Done("work")), "child", TRUE)

\* request.receive() has nothing yet.
Receives ==
  /\ ~left
  /\ Goes("watcher", "receiving")
  /\ Rests
  /\ UNCHANGED <<must, requested>>

\* A CancelledError ends the watcher, maybe after finalizers of receive().
Dismissed ==
  /\ Raises("watcher")
  /\ \/ /\ pc["watcher"] = "receiving"
        /\ Goes("watcher", "cleaning")
        /\ Rests
     \/ /\ Goes("watcher", "cancelled")
        /\ Wakes("child", TRUE)
  /\ UNCHANGED requested

RunWatcher ==
  /\ Runs("watcher")
  /\ IF must["watcher"] \/ pc["watcher"] = "cleaning"
     THEN Dismissed
     ELSE Observes \/ Receives
  /\ UNCHANGED <<kind, left, upstream, saved, parentVars, warned>>

-----------------------------------------------------------------------------
(***************************************************************************)
(* The parent: until_disconnect from its wait to its end.                  *)
(***************************************************************************)
\* A child has ended: wait() and gather() are told.  The callbacks between the end
\* of the last child and that of gather are taken as one.
RunChild ==
  /\ Runs("child")
  /\ joined' = (pc["parent"] = "joining" /\ Done("work") /\ Done("watcher"))
  /\ Wakes("parent", pc["parent"] = "waiting" \/ joined')
  /\ UNCHANGED <<kind, pc, must, requested, left, upstream, saved,
                 resultReady, cancelled, warned>>

\* Mutant: a child that was asked already is cancelled again.
UnaskedTwice == {a \in {"work", "watcher"} : ~Done(a)}

\* Mutant: the watcher is left waiting.
UnaskedWork == {a \in {"work"} : ~Done(a) /\ requested[a] = 0}

\* The children that the finally clause cancels, none of them twice.
Unasked == {a \in {"work", "watcher"} : ~Done(a) /\ requested[a] = 0}

\* After wait(), with a result or an exception: cancel the children and join them.
AfterWait ==
  /\ resultReady' = (~must["parent"] /\ ~Done("watcher") /\ pc["work"] = "succeeded")
  /\ Goes("parent", "joining")
  /\ must' = [a \in Actor |-> a # "parent" /\ (must[a] \/ a \in Unasked)]
  /\ requested' = [a \in Actor |-> IF a \in Unasked THEN requested[a] + 1 ELSE requested[a]]
  /\ LET asked == Woken(Woken(Tail(ready), "work", "work" \in Unasked),
                        "watcher", "watcher" \in Unasked)
     IN ready' = Woken(asked, "child", Done("work") /\ Done("watcher"))
  /\ UNCHANGED <<upstream, joined, cancelled>>

\* Mutant: whether the watcher is done is looked at after it was cancelled.
FinishesLate ==
  Goes("parent", IF resultReady /\ ~cancelled' /\ ~Done("watcher")
                 THEN "returned" ELSE "raised")

\* The parent's end: no await after it, so a result is the caller's at once.
Finishes ==
  Goes("parent", IF resultReady /\ ~cancelled' THEN "returned" ELSE "raised")

\* Mutant: a cancellation during the cleanup is forgotten here.
AbandonedEarly ==
  /\ ~resultReady
  /\ pc["work"] = "succeeded"
  /\ kind = "stream"

\* The work left a stream that nobody will consume.
Abandoned ==
  /\ ~resultReady \/ cancelled'
  /\ pc["work"] = "succeeded"
  /\ kind = "stream"

\* Mutant: a CancelledError ends the wait.
JoinsOnce ==
  /\ Raises("parent")
  /\ cancelled' = (cancelled \/ must["parent"])
  /\ IF ~joined /\ ~cancelled'
     THEN UNCHANGED pc
     ELSE IF Abandoned THEN Goes("parent", "closing") ELSE Finishes
  /\ Rests
  /\ UNCHANGED <<requested, upstream, joined, resultReady>>

\* finish_owned: a CancelledError is noted, and the wait goes on until gather ends.
Joins ==
  /\ Raises("parent")
  /\ cancelled' = (cancelled \/ must["parent"])
  /\ IF ~joined
     THEN UNCHANGED pc
     ELSE IF Abandoned THEN Goes("parent", "closing") ELSE Finishes
  /\ Rests
  /\ UNCHANGED <<requested, upstream, joined, resultReady>>

\* finish_owned once more, on the aclose() of the abandoned stream.
Closes ==
  /\ Raises("parent")
  /\ cancelled' = (cancelled \/ must["parent"])
  /\ IF upstream = "closed" THEN Finishes ELSE UNCHANGED pc
  /\ Rests
  /\ UNCHANGED <<requested, upstream, joined, resultReady>>

RunParent ==
  /\ Runs("parent")
  /\ \/ pc["parent"] = "waiting" /\ AfterWait
     \/ pc["parent"] = "joining" /\ Joins
     \/ pc["parent"] = "closing" /\ Closes
  /\ UNCHANGED <<kind, left, saved, warned>>

-----------------------------------------------------------------------------
(***************************************************************************)
(* What comes from outside, between two handles.                           *)
(***************************************************************************)
Wakeup(h) == ready' = Woken(ready, h, TRUE)

\* What a child awaits is over: a reply, an error, the end of a finalizer.
Ready(a) ==
  /\ pc[a] \in {"preparing", "inferring", "cleaning"}
  /\ ~Queued(a)
  /\ Wakeup(a)
  /\ UNCHANGED <<kind, pc, must, requested, left, upstream, saved, parentVars, warned>>

\* The server is told that the client has left.
Leave ==
  /\ ~left
  /\ left' = TRUE
  /\ IF pc["watcher"] = "receiving" THEN Wakeup("watcher") ELSE UNCHANGED ready
  /\ UNCHANGED <<kind, pc, must, requested, upstream, saved, parentVars, warned>>

\* The server cancels the request's own task.
CancelParent ==
  /\ requested["parent"] < MaxCancels
  /\ ~Done("parent")
  /\ Cancels({"parent"})
  /\ Wakeup("parent")
  /\ UNCHANGED <<kind, pc, left, upstream, saved, parentVars, warned>>

\* The aclose() task of an abandoned stream ends.
Closed ==
  /\ pc["parent"] = "closing"
  /\ upstream = "open"
  /\ upstream' = "closed"
  /\ Wakeup("parent")
  /\ UNCHANGED <<kind, pc, must, requested, left, saved, parentVars, warned>>

Loop == RunWork \/ RunWatcher \/ RunParent \/ RunChild

Next ==
  \/ Loop
  \/ \E a \in {"work", "watcher"} : Ready(a)
  \/ Leave
  \/ CancelParent
  \/ Closed

\* The event loop runs what is ready; the awaits of the work have timeouts, and
\* finalizers end.
Spec ==
  /\ Init
  /\ [][Next]_vars
  /\ WF_vars(Loop)
  /\ WF_vars(Ready("work"))
  /\ WF_vars(Ready("watcher"))
  /\ WF_vars(Closed)

-----------------------------------------------------------------------------
Location ==
  [parent : {"waiting", "joining", "closing", "returned", "raised"},
   work : {"new", "preparing", "inferring", "resting", "cleaning",
           "succeeded", "failed", "cancelled"},
   watcher : {"new", "receiving", "cleaning", "finished", "cancelled"}]

\* Above all: no child is asked to cancel twice, and the queue holds no handle twice.
RequestTypeOK ==
  /\ kind \in {"turn", "reply", "stream"}
  /\ ready \in Seq(Handle)
  /\ IsInjective(ready)
  /\ pc \in Location
  /\ must \in [Actor -> BOOLEAN]
  /\ requested \in [parent : 0 .. MaxCancels, work : 0 .. 1, watcher : 0 .. 1]
  /\ left \in BOOLEAN
  /\ upstream \in {"open", "closed"}
  /\ saved \in BOOLEAN
  /\ joined \in BOOLEAN
  /\ resultReady \in BOOLEAN
  /\ cancelled \in BOOLEAN
  /\ warned \in BOOLEAN

\* A turn is not saved for a client that was known to have left when the provider
\* had answered, even if the notice was still in the queue, and even if a library
\* swallowed the cancellation.  (A retried turn does not get there.)
LeftNotSaved == warned => ~saved

\* When the request is over, a stream is open only if it was returned, and then
\* it is: nothing is left open and nothing is closed under its consumer.
StreamsOwned ==
  Done("parent") =>
    (upstream = "open" <=> pc["parent"] = "returned" /\ kind = "stream")

\* What the caller is told was stored is stored, and a turn that was stored is told
\* unless the work failed, the client left or the server cancelled the request.
SavesReported ==
  Done("parent") /\ kind = "turn" =>
    /\ pc["parent"] = "returned" => saved
    /\ saved /\ pc["parent"] = "raised" =>
         left \/ requested["parent"] > 0 \/ pc["work"] = "failed"

\* Both ways: nothing is saved behind the back of a client that left, and nothing that
\* was saved is lost on the way to one that did not.
SavedKnowingly == LeftNotSaved /\ SavesReported

\* No finalizer of a child is cut short by another cancellation, however often the
\* request itself is cancelled, and no child outlives the request.
ChildrenFinish ==
  /\ pc["work"] = "cancelled" => upstream # "open"
  /\ Done("parent") => Done("work") /\ Done("watcher")

\* The request ends, whether the client leaves, stays, or is cancelled.
RequestEnds == <>Done("parent")
=============================================================================
