----------------------------- MODULE Streaming -----------------------------
(***************************************************************************)
(* The task of one turn while the provider answers: what _stream of        *)
(* conversations.py assembles within its byte budget, and how stream and   *)
(* complete of provider.py and the client of local_sdk.py are unwound at   *)
(* the end, on an error and on every Task.cancel() in between.             *)
(*                                                                         *)
(* A fragment of text is its code points and its bytes as JSON; a message  *)
(* is the bytes of its text and of the strings of each of its calls.       *)
(***************************************************************************)
EXTENDS Naturals, Integers, Sequences, FiniteSets, SequencesExt

\* A code point takes one byte of JSON or more.
Fragments == {fragment \in [chars : Nat, bytes : Nat] : fragment.chars <= fragment.bytes}

Parts == [index : Int, type : {"function", "other"}, fragment : Fragments]

Chunks ==
  [choices : Nat, role : {"assistant", "other"}, fragment : Fragments, parts : Seq(Parts),
   finish : {"none", "stop", "tool_calls", "length"}]

CONSTANTS
  Chunk,      \* the chunks a provider may send
  MaxBytes,   \* 1024 * 1024
  MaxChunks,  \* bound on the chunks of one answer
  MaxCancels  \* bound on the cancellations of one task

ASSUME StreamAssumption ==
  /\ Chunk \subseteq Chunks
  /\ MaxBytes \in Nat /\ MaxBytes >= 8  \* the empty message: ["", {}]
  /\ MaxChunks \in Nat
  /\ MaxCancels \in Nat

VARIABLES
  streamed,  \* the request asks for a stream
  pc,        \* where the task awaits
  message,   \* what has been assembled, with the budget spent and the verdict on it
  received,  \* the chunks so far
  transport, \* the SDK's stream
  client,    \* the local HTTP client, "absent" on the other routes
  closing,   \* local_http_client was cancelled as it closed
  raising,   \* the exception on its way
  must,      \* Task.cancel() was called and not yet raised
  cancels,   \* cancellations so far
  delivered, \* a cancellation was raised in the task
  outcome    \* how it ended

vars == <<streamed, pc, message, received, transport, client, closing, raising, must,
          cancels, delivered, outcome>>

-----------------------------------------------------------------------------
(***************************************************************************)
(* The budget.                                                             *)
(***************************************************************************)
\* The decimal digits of the index of a call; 1 MiB does not hold a million of them.
Digits(index) == 1 + Cardinality({power \in {10, 100, 1000, 10000, 100000} : power <= index})

\* '"0": {"id": "", "type": "function", "function": {"name": "", "arguments": ""}}'
EmptyCall(index) == 77 + Digits(index)

\* Mutant: the comma between two calls is forgotten.
EntryAlone(calls) == EmptyCall(Len(calls))

\* What a new call adds to the object of the calls.
Entry(calls) == EmptyCall(Len(calls)) + (IF calls = <<>> THEN 0 ELSE 2)

Empty == [text |-> 0, calls |-> <<>>, size |-> 8, finish |-> "none", verdict |-> "none"]

\* _StreamBudget.add.
Add(m, bytes) ==
  [m EXCEPT !.size = @ + bytes, !.verdict = IF m.size + bytes > MaxBytes THEN "limit" ELSE @]

\* _StreamBudget.write: a fragment of too many code points is not even encoded.
Write(m, fragment) ==
  IF fragment.bytes = 0 THEN m
  ELSE IF fragment.chars > MaxBytes - m.size THEN [m EXCEPT !.verdict = "limit"]
  ELSE Add(m, fragment.bytes)

WriteText(m, fragment) ==
  IF m.verdict # "none" THEN m ELSE [Write(m, fragment) EXCEPT !.text = @ + fragment.bytes]

Extended(m, call) ==
  IF call <= Len(m.calls) \/ m.verdict # "none" THEN m
  ELSE [Add(m, Entry(m.calls)) EXCEPT !.calls = Append(@, 0)]

\* One tool-call delta; calls are numbered from 1 here.
WritePart(m, part) ==
  LET call == part.index + 1
      opened == Extended(m, call)
  IN IF m.verdict # "none" THEN m
     ELSE IF part.index \notin 0 .. Len(m.calls) THEN [m EXCEPT !.verdict = "invalid"]
     ELSE IF opened.verdict # "none" THEN opened
     ELSE IF part.type # "function" THEN [opened EXCEPT !.verdict = "invalid"]
     ELSE [Write(opened, part.fragment) EXCEPT !.calls[call] = @ + part.fragment.bytes]

\* The body of the loop over the chunks; a chunk without a choice is usage only.
Assembled(m, chunk) ==
  IF chunk.choices = 0 THEN m
  ELSE IF m.finish # "none" \/ chunk.choices > 1 \/ chunk.role # "assistant"
    THEN [m EXCEPT !.verdict = "invalid"]
  ELSE LET written == FoldLeft(WritePart, WriteText(m, chunk.fragment), chunk.parts)
       IN [written EXCEPT !.finish = IF written.verdict = "none" THEN chunk.finish ELSE @]

\* The call at place i of the object, without the comma.
EntrySizes(calls) == [i \in DOMAIN calls |-> EmptyCall(i - 1) + calls[i]]

Total(sizes) == FoldLeft(LAMBDA sum, bytes : sum + bytes, 0, sizes)

\* The bytes of json.dumps([content, calls]).
Serialized(m) ==
  8 + m.text + Total(EntrySizes(m.calls))
    + (IF m.calls = <<>> THEN 0 ELSE 2 * (Len(m.calls) - 1))

\* After the loop: the exact check, then the content, refused by _visible or
\* _validate_result for what this model does not tell apart as well.
Concluded(m, refused) ==
  IF m.finish = "none" THEN "invalid"
  ELSE IF Serialized(m) > MaxBytes THEN "limit"
  ELSE IF m.finish \notin {"stop", "tool_calls"} \/ (m.finish = "tool_calls") # (m.calls # <<>>)
            \/ refused
    THEN "invalid"
  ELSE "answered"

-----------------------------------------------------------------------------
(***************************************************************************)
(* The task.  An action is what it does from one await to the next.        *)
(***************************************************************************)
Init ==
  /\ streamed \in BOOLEAN
  /\ client \in {"absent", "open"}
  /\ pc = "calling"
  /\ message = Empty
  /\ received = 0
  /\ transport = "none"
  /\ closing = FALSE
  /\ raising = "none"
  /\ must = FALSE /\ cancels = 0 /\ delivered = FALSE
  /\ outcome = "none"

\* A reply that is not streamed is judged after complete(), a stream after its loop.
Ends(exception) ==
  /\ pc' = "over"
  /\ raising' = exception
  /\ IF exception # "none" THEN outcome' = exception
     ELSE \E refused \in BOOLEAN :
            outcome' = IF streamed THEN Concluded(message, refused)
                       ELSE IF refused THEN "invalid" ELSE "answered"

\* Out of _stream and into the finalizer of the client, where there is one.
LeavesProvider(exception) ==
  IF client = "absent"
    THEN Ends(exception) /\ UNCHANGED client
    ELSE /\ pc' = "closing_client"
         /\ client' = "closing"
         /\ raising' = exception
         /\ UNCHANGED outcome

\* Out of the loop over the SDK's stream and into its finalizer.
LeavesStream(exception) ==
  /\ pc' = "closing_stream"
  /\ raising' = exception
  /\ UNCHANGED <<client, outcome>>

Idle == ~must /\ UNCHANGED <<streamed, must, cancels, delivered>>

\* _call answers: a stream is read, a completion is the result.
Called ==
  /\ pc = "calling" /\ Idle
  /\ IF streamed
       THEN /\ pc' = "reading" /\ transport' = "open"
            /\ UNCHANGED <<client, raising, outcome>>
       ELSE LeavesProvider("none") /\ UNCHANGED transport
  /\ UNCHANGED <<message, received, closing>>

\* _call refuses the route, or the provider fails: nothing was opened.
CallFails ==
  /\ pc = "calling" /\ Idle
  /\ LeavesProvider("error")
  /\ UNCHANGED <<message, received, transport, closing>>

Receive ==
  /\ pc = "reading" /\ received < MaxChunks /\ Idle
  /\ \E chunk \in Chunk :
       LET next == Assembled(message, chunk) IN
       /\ message' = next
       /\ IF next.verdict = "none"
            THEN UNCHANGED <<pc, raising, client, outcome>>
            ELSE LeavesStream(next.verdict)
  /\ received' = received + 1
  /\ UNCHANGED <<transport, closing>>

\* The stream ends, or breaks off.
StreamEnds ==
  /\ pc = "reading" /\ Idle
  /\ \/ LeavesStream("none")
     \/ LeavesStream("error")
  /\ UNCHANGED <<message, received, transport, closing>>

\* close() of the SDK's stream: a failure takes the place of what was raised.
CloseStream ==
  /\ pc = "closing_stream" /\ Idle
  /\ \/ transport' = "closed" /\ LeavesProvider(raising)
     \/ transport' = "failed" /\ LeavesProvider("error")
  /\ UNCHANGED <<message, received, closing>>

\* The task of http.aclose(), which the shield keeps from being cancelled.
ClientCloses ==
  /\ client = "closing"
  /\ client' \in {"closed", "failed"}
  /\ UNCHANGED <<streamed, pc, message, received, transport, closing, raising, must,
                 cancels, delivered, outcome>>

\* await asyncio.shield(closing) returns.
ClientClosed ==
  /\ pc = "closing_client" /\ client # "closing" /\ Idle
  /\ Ends(IF client = "failed" THEN "error" ELSE IF closing THEN "cancelled" ELSE raising)
  /\ UNCHANGED <<message, received, transport, client, closing>>

Cancel ==
  /\ pc # "over" /\ cancels < MaxCancels
  /\ must' = TRUE
  /\ cancels' = cancels + 1
  /\ UNCHANGED <<streamed, pc, message, received, transport, client, closing, raising,
                 delivered, outcome>>

Raised ==
  /\ must /\ must' = FALSE
  /\ delivered' = TRUE
  /\ UNCHANGED <<streamed, message, received, cancels>>

\* The CancelledError is raised in _call, in the loop, or in the finalizer of the
\* stream, which is then left as it is.
Interrupted ==
  /\ Raised
  /\ UNCHANGED closing
  /\ \/ pc = "calling" /\ LeavesProvider("cancelled") /\ UNCHANGED transport
     \/ pc = "reading" /\ LeavesStream("cancelled") /\ UNCHANGED transport
     \/ pc = "closing_stream" /\ LeavesProvider("cancelled") /\ transport' = "abandoned"

\* Mutant: the finalizer of the client is left like any other.
InterruptedOnce ==
  /\ Raised
  /\ pc = "closing_client"
  /\ Ends("cancelled")
  /\ UNCHANGED <<transport, client, closing>>

\* It is raised in the finalizer of the client, which goes on.
InterruptedClosing ==
  /\ Raised
  /\ pc = "closing_client"
  /\ closing' = TRUE
  /\ UNCHANGED <<pc, transport, client, raising, outcome>>

Step ==
  \/ Called \/ CallFails \/ Receive \/ StreamEnds \/ CloseStream \/ ClientClosed
  \/ Interrupted \/ InterruptedClosing

Next == Step \/ ClientCloses \/ Cancel

(***************************************************************************)
(* The event loop runs what is ready, every call and read has a timeout,   *)
(* closing a socket ends, and an answer has an end (MaxChunks): a provider *)
(* that sends usage chunks for ever would be read for ever.  Nobody has to *)
(* cancel.                                                                 *)
(***************************************************************************)
Spec == Init /\ [][Next]_vars /\ WF_vars(Step) /\ WF_vars(ClientCloses)

-----------------------------------------------------------------------------
\* A stream is refused for its size as soon as, and only if, what was received is too
\* long to be stored: the bytes counted fragment by fragment are those of the whole,
\* and the exact check at the end never has to refuse anything (conversations.py, "Exact
\* final check, independent of incremental accounting").
BudgetExact ==
  /\ message.verdict = "none" =>
       message.size = Serialized(message) /\ Serialized(message) <= MaxBytes
  /\ message.verdict = "limit" => Serialized(message) > MaxBytes

\* The task is over when the stream was closed, or its closing was cut short, and the
\* client is closed, however often it was cancelled.
Released ==
  pc = "over" => client \in {"absent", "closed", "failed"} /\ transport # "open"

\* A cancellation ends the task as such, unless closing itself failed.
Honored ==
  pc = "over" /\ delivered => outcome = "cancelled" \/ "failed" \in {client, transport}

\* The task comes to its end, and by then everything is released and no cancellation
\* is lost (local_sdk.py, "cleanup completes on cancellation").
EndsReleased == <>(pc = "over") /\ [](Released /\ Honored)
=============================================================================
