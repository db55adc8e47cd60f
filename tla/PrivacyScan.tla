---------------------------- MODULE PrivacyScan ----------------------------
(***************************************************************************)
(* scan of privacy_scan.py and the semantic classifier in front of which   *)
(* it stands, privacy_classifier.py.  A text stands for what the patterns  *)
(* find in it once it is normalized; everything about how texts are nested *)
(* in each other, as lists, objects or JSON in strings, is kept.           *)
(***************************************************************************)
EXTENDS Naturals, Sequences, SequencesExt

CONSTANTS
  MaxDepth,   \* 12 levels
  MaxVisited, \* 8192 values
  MaxBytes    \* 1024 * 1024 bytes

(***************************************************************************)
(* The values.  A text is "plain", "empty", "secret", "no_history",        *)
(* "no_memory", or "broken": it begins like JSON and is not, or is JSON    *)
(* that repeats a field or holds a constant that is no number.  A number   *)
(* has the class of its digits, written out, or is "endless": not finite,  *)
(* or too long.  A large one is a binary float from which digits may have  *)
(* been lost; in a JSON text every digit is there.  A key is a text, or    *)
(* "naming" when it is the name of a secret; the loose keys are the places *)
(* of those that are no strings, which JSON writes as strings.             *)
(*                                                                         *)
(* Encoded(value) is the string that json.dumps makes of a value; fields   *)
(* of one object have different names in it.                               *)
(***************************************************************************)
Text(class) == [kind |-> "text", class |-> class]
Number(class) == [kind |-> "number", class |-> class, large |-> FALSE]
Large(class) == [kind |-> "number", class |-> class, large |-> TRUE]
Literal(class) == [kind |-> "literal", class |-> class]
List(items) == [kind |-> "list", items |-> items]
Object(keys, loose, items) ==
  [kind |-> "object", keys |-> keys, loose |-> loose, items |-> items]
Encoded(value) == [kind |-> "encoded", value |-> value]

\* child not in (None, "", [], {})
Holds(value) ==
  CASE value.kind = "text" -> value.class # "empty"
    [] value.kind = "literal" -> value.class # "null"
    [] value.kind \in {"list", "object"} -> value.items # <<>>
    [] OTHER -> TRUE

NamesSecret(value) ==
  value.kind = "object" /\
    \E i \in DOMAIN value.keys :
      value.keys[i] \in {"naming", "secret"} /\ Holds(value.items[i])

\* What JSON has no form for: it writes a string in place of a key that is none, and
\* a float by its digits.
Native(value) ==
  CASE value.kind = "object" -> value.loose # {}
    [] value.kind = "number" -> value.large
    [] OTHER -> FALSE

\* What is refused.  A value that json.loads has read, with Decimal for every float, is
\* no native one: its keys are strings and its numbers exact.
Unreadable(value, read) ==
  \/ ~read /\ Native(value)
  \/ value.kind = "number" /\ value.class = "endless"
  \/ value.kind = "text" /\ value.class = "broken"

\* What the loop appends to texts: of a string that is JSON only what it holds, and
\* "null", which holds nothing, matches no pattern.
OwnTexts(value) ==
  CASE value.kind = "object" -> {value.keys[i] : i \in DOMAIN value.keys}
    [] value.kind \in {"text", "number"} -> {value.class}
    [] OTHER -> {}

\* Mutant: a string that is JSON is screened as the string it is.
NestedOnce(value) ==
  IF value.kind \in {"list", "object"} THEN value.items ELSE <<>>

\* What the loop pushes for later; json.loads makes None of "null".
Nested(value) ==
  CASE value.kind \in {"list", "object"} -> value.items
    [] value.kind = "encoded" ->
         IF value.value = Literal("null") THEN <<>> ELSE <<value.value>>
    [] OTHER -> <<>>

ScanFailed == [failed |-> TRUE, secret |-> FALSE, noHistory |-> FALSE, noMemory |-> FALSE]

Found(texts, keyed) ==
  [failed |-> FALSE,
   secret |-> keyed \/ "secret" \in texts,
   noHistory |-> "no_history" \in texts,
   noMemory |-> "no_history" \in texts \/ "no_memory" \in texts]

\* What is pushed for a value, with its depth and whether it was read from JSON.
Pushed(item) ==
  [i \in DOMAIN Nested(item.value) |->
    [value |-> Nested(item.value)[i], depth |-> item.depth + 1,
     read |-> item.read \/ item.value.kind = "encoded"]]

\* One turn of the while loop; pending is the stack of such values.
Visit(state) ==
  LET item == Last(state.pending) IN
  IF item.depth > MaxDepth \/ state.visited + 1 > MaxVisited
       \/ Unreadable(item.value, item.read)
  THEN [state EXCEPT !.failed = TRUE, !.pending = <<>>]
  ELSE [failed |-> FALSE,
        pending |-> Front(state.pending) \o Pushed(item),
        visited |-> state.visited + 1,
        texts |-> state.texts \cup OwnTexts(item.value),
        keyed |-> state.keyed \/ NamesSecret(item.value)]

\* The while loop: it has ended once one value too many would be visited.
Walk(value) ==
  LET after[n \in 0 .. MaxVisited + 1] ==
        IF n = 0 THEN [failed |-> FALSE,
                       pending |-> <<[value |-> value, depth |-> 0, read |-> FALSE]>>,
                       visited |-> 0, texts |-> {}, keyed |-> FALSE]
        ELSE LET before == after[n - 1]
             IN IF before.pending = <<>> THEN before ELSE Visit(before)
  IN after[MaxVisited + 1]

Scan(value, bytes) ==
  LET end == Walk(value)
  IN IF bytes > MaxBytes \/ end.failed THEN ScanFailed ELSE Found(end.texts, end.keyed)

(***************************************************************************)
(* The classifier.  An assessment is read strictly: an unknown field, a    *)
(* repeated one or a contradiction is no assessment.                       *)
(***************************************************************************)
Consistent(a) ==
  CASE a.classification = "NOT_SENSITIVE" -> a.category = "NONE" /\ a.subject # "UNKNOWN"
    [] a.classification = "SENSITIVE" ->
         a.category \notin {"NONE", "UNKNOWN"} /\ a.subject # "UNKNOWN"
    [] OTHER -> a.category = "UNKNOWN" /\ a.subject = "UNKNOWN"

Unassessed(failure) == [failure |-> failure, assessment |-> [classification |-> "none"]]
Assessed(a) == [failure |-> "none", assessment |-> a]

Read(content) ==
  CASE content.form \in {"malformed", "repeated"} -> Unassessed("invalid_json")
    [] content.form = "json" ->
         IF content.extra = FALSE /\ content.version = "current" /\ Consistent(content.assessment)
           THEN Assessed(content.assessment)
           ELSE Unassessed("invalid_assessment")

\* One choice, the first, complete, of the assistant and without tool calls.
WellFormed(reply) ==
  /\ reply.choices = 1 /\ reply.index = 0 /\ reply.finish = "stop"
  /\ reply.role = "assistant" /\ ~reply.tools
  /\ reply.content.form # "none"

\* LocalClassifier.assess.
Assess(value, bytes, current, reply) ==
  LET checked == Scan(value, bytes) IN
  CASE checked.failed \/ checked.secret -> Unassessed("scan_refused")
    [] ~checked.failed /\ ~checked.secret /\ ~current -> Unassessed("policy_mismatch")
    [] OTHER ->
         CASE reply.outcome = "timeout" -> Unassessed("timeout")
           [] reply.outcome = "raised" -> Unassessed("provider_exception")
           [] reply.outcome = "answered" ->
                IF WellFormed(reply) THEN Read(reply.content) ELSE Unassessed("invalid_response")
=============================================================================
