---------------------------- MODULE SourceLedger ----------------------------
(***************************************************************************)
(* What the history promises whoever derives memories from it, and nothing *)
(* about how: the life of a source, that is of one stored message, named   *)
(* by the revision of its turn and its position in the turn.               *)
(*                                                                         *)
(*     open    it may be used while its conversation is not hidden         *)
(*     held    it waits for the user's answer                              *)
(*     barred  it may never be used                                        *)
(*     erased  it is gone                                                  *)
(*                                                                         *)
(* A held source opens only by the user's refusal of private mode for it,  *)
(* a barred one never opens, an erased one never returns, and a name is    *)
(* never given twice.                                                      *)
(***************************************************************************)
EXTENDS Naturals

CONSTANT Conversation

VARIABLES
  open, held, barred, erased,  \* per conversation, sets of <<revision, position>>
  hidden                       \* per conversation, private mode

vars == <<open, held, barred, erased, hidden>>

Known(c) == open[c] \cup held[c] \cup barred[c] \cup erased[c]

Usable(c) == IF hidden[c] THEN {} ELSE open[c]

Init ==
  /\ open = [c \in Conversation |-> {}]
  /\ held = [c \in Conversation |-> {}]
  /\ barred = [c \in Conversation |-> {}]
  /\ erased = [c \in Conversation |-> {}]
  /\ hidden = [c \in Conversation |-> FALSE]

\* Only the conversation c changes.
Elsewhere(c) ==
  \A d \in Conversation \ {c} :
    /\ open'[d] = open[d]
    /\ held'[d] = held[d]
    /\ barred'[d] = barred[d]
    /\ erased'[d] = erased[d]
    /\ hidden'[d] = hidden[d]

\* The sources of one new turn, under a revision later than any known one.
Save(c) ==
  LET new == Known(c)' \ Known(c) IN
  /\ \A x, y \in new : x[1] = y[1]
  /\ \A x \in new, y \in Known(c) : y[1] < x[1]
  /\ open[c] = open'[c] \ new
  /\ held[c] = held'[c] \ new
  /\ barred[c] = barred'[c] \ new
  /\ erased'[c] = erased[c]
  /\ hidden'[c] = hidden[c]

\* The user hides the conversation or shows it again.
Hide(c) ==
  /\ open'[c] = open[c]
  /\ held'[c] = held[c]
  /\ barred'[c] = barred[c]
  /\ erased'[c] = erased[c]

\* The user refuses private mode for one held source.
Release(c) ==
  /\ \E s \in held[c] :
       /\ held'[c] = held[c] \ {s}
       /\ open'[c] = open[c] \cup {s}
  /\ barred'[c] = barred[c]
  /\ erased'[c] = erased[c]
  /\ hidden'[c] = hidden[c]

\* The user accepts private mode for one held source.
Bar(c) ==
  /\ \E s \in held[c] :
       /\ held'[c] = held[c] \ {s}
       /\ barred'[c] = barred[c] \cup {s}
  /\ open'[c] = open[c]
  /\ erased'[c] = erased[c]
  /\ hidden'[c]

\* Some sources go for good; a deleted conversation keeps none.
Erase(c) ==
  LET lost == erased'[c] \ erased[c] IN
  /\ erased[c] \subseteq erased'[c]
  /\ lost \subseteq Known(c)
  /\ open'[c] = open[c] \ lost
  /\ held'[c] = held[c] \ lost
  /\ barred'[c] = barred[c] \ lost
  /\ \/ hidden'[c] = hidden[c]
     \/ erased'[c] = Known(c)

Next ==
  \E c \in Conversation :
    /\ Elsewhere(c)
    /\ Save(c) \/ Hide(c) \/ Release(c) \/ Bar(c) \/ Erase(c)

Spec == Init /\ [][Next]_vars
=============================================================================
