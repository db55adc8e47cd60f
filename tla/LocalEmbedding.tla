-------------------------- MODULE LocalEmbedding --------------------------
(***************************************************************************)
(* The adapter of the local embedding server, local_embedding.py: one call *)
(* of embed.  A text stands for its class, its size and the vector the     *)
(* model has for it; the server answers with rows in an order of its own.  *)
(***************************************************************************)
EXTENDS Naturals, Sequences, FiniteSets, SequencesExt

CONSTANTS
  MaxTexts,  \* 1001 texts
  MaxSize    \* 263168 bytes

Answered(vectors) == [status |-> 200, vectors |-> vectors]
Failed == [status |-> 502, vectors |-> <<>>]
TimedOut == [status |-> 504, vectors |-> <<>>]

(***************************************************************************)
(* A vector is its direction and its length; length 0 is the zero vector.  *)
(* One of another type, dimension or with a number that is not finite is   *)
(* not a vector.                                                           *)
(***************************************************************************)
Misshapen == [direction |-> 0, length |-> 0, shaped |-> FALSE]
Vector(direction, length) ==
  [direction |-> direction, length |-> length, shaped |-> TRUE]

Usable(vector) == vector.shaped /\ vector.length > 0

Listed(items) == items \in Seq({items[i] : i \in DOMAIN items})

\* What the rows of an answer are once it is parsed.
Rows(rows) ==
  Listed(rows) /\ \A i \in DOMAIN rows : rows[i].index \in Int /\ rows[i].vector.direction \in Int

\* What is checked before anything is sent.
Sendable(profile, texts) ==
  /\ Len(texts) <= MaxTexts
  /\ profile.enabled
  /\ \A i \in DOMAIN texts : texts[i].class # "blank"
  /\ FoldLeft(LAMBDA total, text : total + text.size, 0, texts) <= MaxSize
  /\ \A i \in DOMAIN texts : texts[i].class # "secret"

\* Every index once, below the count, with a vector of the model's space.
RowsAccepted(rows, count) ==
  /\ Len(rows) = count
  /\ \A i \in DOMAIN rows :
       /\ rows[i].index \in 0 .. (count - 1)
       /\ \A j \in 1 .. (i - 1) : rows[j].index # rows[i].index
       /\ Usable(rows[i].vector)

\* indexed[index]: the last row of that index.
RowOf(rows, index) ==
  CHOOSE i \in DOMAIN rows :
    /\ rows[i].index = index
    /\ \A j \in (i + 1) .. Len(rows) : rows[j].index # index

\* The vectors in the order of the texts.
Indexed(rows, count) ==
  [i \in 1 .. count |->
    IF \E j \in DOMAIN rows : rows[j].index = i - 1
      THEN rows[RowOf(rows, i - 1)].vector
      ELSE Misshapen]

Embed(profile, texts, reply) ==
  CASE texts = <<>> -> Answered(<<>>)
    [] texts # <<>> /\ ~Sendable(profile, texts) -> Failed
    [] texts # <<>> /\ Sendable(profile, texts) /\ reply.outcome = "timeout" -> TimedOut
    [] OTHER ->
         IF /\ reply.outcome = "answered"
            /\ reply.sameSpace
            /\ reply.model = profile.model
            /\ RowsAccepted(reply.rows, Len(texts))
         THEN Answered(Indexed(reply.rows, Len(texts)))
         ELSE Failed
=============================================================================
