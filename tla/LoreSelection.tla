--------------------------- MODULE LoreSelection ---------------------------
(***************************************************************************)
(* select_lore of character_book.py: which entries of a character's book   *)
(* are shown with a request.  A text stands for the keys it contains once  *)
(* normalized: those in "exact" as they are written, those in "folded"     *)
(* when case is ignored.  A key that is blank once normalized matches      *)
(* nothing.                                                                *)
(***************************************************************************)
EXTENDS Naturals, Integers, Sequences, FiniteSets, Ordering

CONSTANTS
  Blank,   \* a key that is empty once normalized
  Unset    \* a setting the card leaves out

Contents == {"plain", "empty_content", "unsupported_decorator", "unsupported_regex"}

\* CharacterBook and its entries: whole numbers, the budget not negative; what a
\* counter answers is a number, negative if it fails.
Book(book) ==
  /\ IsFiniteSet(DOMAIN book.entries) /\ DOMAIN book.entries \subseteq Nat
  /\ \A i \in DOMAIN book.entries :
       LET entry == book.entries[i] IN
       entry.content \in Contents /\ entry.order \in Int /\ entry.priority \in Int \cup {Unset}
  /\ book.budget \in Nat \cup {Unset}
  /\ \A S \in SUBSET DOMAIN book.entries : book.cost[S] \in Int

\* The newest first: the current message, then the conversation's own.
Scanned(book, current, history) ==
  LET spoken == SelectSeq(history, LAMBDA m : m.role \in {"user", "assistant"})
      messages == <<current>> \o [i \in DOMAIN spoken |-> spoken[Len(spoken) + 1 - i].text]
      depth == IF book.depth = Unset THEN 1 ELSE book.depth
  IN SubSeq(messages, 1, IF Len(messages) < depth THEN Len(messages) ELSE depth)

Matches(keys, messages, sensitive) ==
  \E key \in keys \ {Blank} : \E i \in DOMAIN messages :
    key \in (IF sensitive THEN messages[i].exact ELSE messages[i].folded)

\* content: "plain", or the first reason for which the entry is not looked at.
Reason(entry, messages) ==
  LET found(keys) == Matches(keys, messages, entry.sensitive) IN
  CASE ~entry.enabled -> "disabled"
    [] entry.enabled /\ entry.content # "plain" -> entry.content
    [] entry.enabled /\ entry.content = "plain" /\ entry.constant -> "selected_constant"
    [] OTHER ->
         IF ~found(entry.keys) THEN "primary_key_miss"
         ELSE IF ~entry.selective THEN "selected_primary"
         ELSE IF found(entry.secondary) THEN "selected_selective"
         ELSE "secondary_key_miss"

IsSelected(reason) ==
  reason \in {"selected_constant", "selected_selective", "selected_primary"}

Priority(entry) == IF entry.priority = Unset THEN entry.order ELSE entry.priority

\* position, insertion order, source index.
Shown(entries, i, j) ==
  LET late(k) == entries[k].position # "before_char" IN
  \/ ~late(i) /\ late(j)
  \/ /\ late(i) <=> late(j)
     /\ \/ entries[i].order < entries[j].order
        \/ entries[i].order = entries[j].order /\ i < j

ShownOrder(entries) ==
  {p \in (DOMAIN entries) \X (DOMAIN entries) : Shown(entries, p[1], p[2])}

\* Mutant: of equal priority the later entry of the book goes first.
RemovedLatest(entries, i, j) ==
  \/ Priority(entries[i]) < Priority(entries[j])
  \/ Priority(entries[i]) = Priority(entries[j]) /\ i > j

\* removal_key: priority, insertion order, source index.
RemovedBefore(entries, i, j) ==
  \/ Priority(entries[i]) < Priority(entries[j])
  \/ /\ Priority(entries[i]) = Priority(entries[j])
     /\ \/ entries[i].order < entries[j].order
        \/ entries[i].order = entries[j].order /\ i < j

OverBudget(budget, tokens) == budget # Unset /\ (budget = 0 \/ tokens > budget)

\* count() of no entry asks nobody.
Tokens(cost, selected) == IF selected = {} THEN 0 ELSE cost[selected]

\* min(selected, key=removal_key).
First(entries, selected) ==
  CHOOSE i \in selected : \A j \in selected \ {i} : RemovedBefore(entries, i, j)

\* The condition of the while loop; a counter that fails ends it.
Exceeds(book, selected) ==
  LET tokens == Tokens(book.cost, selected)
  IN selected # {} /\ tokens >= 0 /\ OverBudget(book.budget, tokens)

\* The while loop, turn by turn: each turn removes one entry, so that there are no
\* more turns than entries.
Remaining(book, selected) ==
  LET after[n \in 0 .. Cardinality(selected)] ==
        IF n = 0 THEN selected
        ELSE LET before == after[n - 1]
             IN IF Exceeds(book, before) THEN before \ {First(book.entries, before)} ELSE before
  IN after[Cardinality(selected)]

\* What is left once the budget holds, or a failure of the counter.
Fitted(book, selected) ==
  LET remaining == Remaining(book, selected)
      tokens == Tokens(book.cost, remaining)
  IN IF tokens < 0 THEN [failed |-> TRUE, selected |-> {}, tokens |-> 0]
     ELSE [failed |-> FALSE, selected |-> remaining, tokens |-> tokens]

\* The entries in the order they are shown, one diagnostic for each entry of the
\* book, and the tokens of what is shown.
SelectLore(book, current, history) ==
  LET messages == Scanned(book, current, history)
      reasons == [i \in DOMAIN book.entries |-> Reason(book.entries[i], messages)]
      selected == {i \in DOMAIN reasons : IsSelected(reasons[i])}
      fitted == Fitted(book, selected)
  IN [failed |-> fitted.failed,
      entries |-> Sorted(fitted.selected, ShownOrder(book.entries)),
      diagnostics |->
        [i \in DOMAIN reasons |->
          IF i \in selected \ fitted.selected THEN "omitted_by_lore_budget" ELSE reasons[i]],
      tokens |-> fitted.tokens]
=============================================================================
