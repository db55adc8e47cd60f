-------------------------- MODULE MCCalculations --------------------------
(***************************************************************************)
(* The questions: three memories, books of three entries, texts nested in  *)
(* each other, and evaluations in which at most two cells go wrong.        *)
(***************************************************************************)
EXTENDS Calculations, TLC

\* An evaluation: its cells, what each case usually answers, the cells that may answer
\* otherwise and what.
Trial(kind, setup, cells, usual(_), suspects, unusual(_)) ==
  LET cases == {a.case : a \in cells}
  IN [kind |-> kind, setup |-> setup, cells |-> cells, outcomes |-> Pending,
      usual |-> [c \in cases |-> usual(c)],
      suspects |-> suspects, unusual |-> [c \in cases |-> {usual(c)} \cup unusual(c)]]

-----------------------------------------------------------------------------
Profile == [enabled |-> TRUE, model |-> "m"]
QueryText == [class |-> "plain", size |-> 1]
Memory(i, mention) ==
  [identifier |-> i, mentioned |-> mention[1], created |-> mention[2], text |-> QueryText]
Row(index, direction) == [index |-> index, vector |-> Memories!Vector(direction, 1 + (index % 2))]
Reply(rows) == [outcome |-> "answered", sameSpace |-> TRUE, model |-> "m", rows |-> rows]

MemoryQuestion(policy, limit, records, reply) ==
  [kind |-> "memories", profile |-> Profile, policy |-> policy, limit |-> limit,
   query |-> QueryText, records |-> records, reply |-> reply]

Policies == {[max |-> 2, pool |-> 3, threshold |-> 3, margin |-> 1],
             [max |-> 2, pool |-> 2, threshold |-> 3, margin |-> 2]}
Mentions == {<<Unnamed, 1>>, <<1, 1>>, <<2, 2>>}
Orders == {<<0, 1, 2, 3>>, <<3, 1, 0, 2>>}

Rankings ==
  {MemoryQuestion(policy, 2,
     [i \in 1 .. 3 |-> Memory(i, mentions[i])],
     Reply([i \in 1 .. 4 |-> Row(order[i], IF order[i] = 0 THEN 0 ELSE near[order[i]])])) :
   policy \in Policies, mentions \in [1 .. 3 -> Mentions], order \in Orders,
   near \in [1 .. 3 -> 0 .. 3]}

Two == <<Memory(1, <<Unnamed, 1>>), Memory(2, <<1, 1>>)>>
RowChoice == {Row(index, direction) : index \in 0 .. 3, direction \in {0, 1}}
               \cup {[index |-> 1, vector |-> Memories!Vector(1, 0)],
                     [index |-> 1, vector |-> Memories!Misshapen]}
Strict == [max |-> 1, pool |-> 2, threshold |-> 0, margin |-> 0]
Adapters ==
  {MemoryQuestion(Strict, 1, Two, Reply(rows)) : rows \in [1 .. 3 -> RowChoice]}
  \cup {MemoryQuestion(Strict, 1, records, reply) :
         records \in {<<>>, Two,
                      <<Two[1], [Two[2] EXCEPT !.text.class = "secret"]>>,
                      <<Two[1], [Two[2] EXCEPT !.text.class = "blank"]>>,
                      <<Two[1], [Two[2] EXCEPT !.text.size = 9]>>},
         reply \in {Reply(<<Row(2, 1), Row(1, 1), Row(0, 0)>>),
                    [Reply(<<>>) EXCEPT !.outcome = "timeout"],
                    [Reply(<<>>) EXCEPT !.outcome = "raised"],
                    [Reply(<<Row(2, 1), Row(1, 1), Row(0, 0)>>) EXCEPT !.sameSpace = FALSE],
                    [Reply(<<Row(2, 1), Row(1, 1), Row(0, 0)>>) EXCEPT !.model = "n"]}}

-----------------------------------------------------------------------------
Entry == [enabled |-> TRUE, content |-> "plain", constant |-> TRUE, sensitive |-> FALSE,
          keys |-> {}, selective |-> FALSE, secondary |-> {}, order |-> 1,
          priority |-> Unset, position |-> "after_char"]
Ordered == {[Entry EXCEPT !.order = order, !.priority = priority, !.position = position] :
             order \in 1 .. 2, priority \in {Unset, 1}, position \in {"before_char", "after_char"}}
Keyed == {[Entry EXCEPT !.constant = FALSE, !.keys = keys, !.selective = selective,
                        !.secondary = {"l"}, !.sensitive = sensitive] :
           keys \in {{"k"}, {Blank}}, selective \in BOOLEAN, sensitive \in BOOLEAN}
Ignored == {[Entry EXCEPT !.enabled = FALSE], [Entry EXCEPT !.content = "empty_content"]}

\* What a counter may answer: the number of entries, a fixed overhead, less for more
\* entries, or no number.
Costs ==
  {[S \in SUBSET (1 .. 3) |-> Cardinality(S)],
   [S \in SUBSET (1 .. 3) |-> 1 + Cardinality(S \ {1})],
   [S \in SUBSET (1 .. 3) |-> IF 2 \in S /\ 3 \notin S THEN 4 ELSE 2],
   [S \in SUBSET (1 .. 3) |-> IF Cardinality(S) = 1 THEN -1 ELSE 3]}

Texts == {[exact |-> {}, folded |-> {}], [exact |-> {"k"}, folded |-> {"k", "l"}]}
Books ==
  {[kind |-> "lore",
    book |-> [entries |-> entries, depth |-> Unset, budget |-> budget, cost |-> cost],
    current |-> [exact |-> {}, folded |-> {}], history |-> <<>>] :
   entries \in [1 .. 3 -> Ordered], budget \in {Unset, 0, 1, 2}, cost \in Costs}
  \cup
  {[kind |-> "lore",
    book |-> [entries |-> <<entry, Entry>>, depth |-> depth, budget |-> 1,
              cost |-> [S \in SUBSET (1 .. 2) |-> Cardinality(S)]],
    current |-> current, history |-> <<[role |-> role, text |-> before]>>] :
   entry \in Keyed \cup Ignored, depth \in {Unset, 0, 2}, current \in Texts, before \in Texts,
   role \in {"user", "tool"}}

-----------------------------------------------------------------------------
Leaves ==
  {Privacy!Text(c) : c \in {"plain", "empty", "secret", "no_history", "no_memory", "broken"}}
  \cup {Privacy!Number(c) : c \in {"plain", "secret", "endless"}}
  \cup {Privacy!Large(c) : c \in {"plain", "secret"}}
  \cup {Privacy!Literal("null"), Privacy!List(<<>>)}
Keys == {"plain", "secret", "naming", "no_memory"}
Within(values) ==
  {Privacy!List(<<v>>) : v \in values}
  \cup {Privacy!Object(<<key>>, {}, <<v>>) : key \in Keys, v \in values}
  \cup {Privacy!Object(<<key>>, {1}, <<v>>) : key \in {"plain", "secret"}, v \in values}
  \cup {Privacy!Encoded(v) : v \in values}
Pairs ==
  {Privacy!List(<<v, w>>) : v \in Leaves, w \in Leaves}
  \cup {Privacy!Object(<<"naming", "plain">>, {}, <<v, w>>) : v \in Leaves, w \in Leaves}
Values ==
  Leaves \cup Within(Leaves) \cup Within(Within(Leaves)) \cup Pairs
    \cup {Privacy!List(<<p>>) : p \in Pairs} \cup {Privacy!Encoded(p) : p \in Pairs}
Screened == {[kind |-> "text", value |-> v] : v \in Values}

-----------------------------------------------------------------------------
PersonaCase(id, category) ==
  [id |-> id, category |-> category, required |-> {{"yes", "indeed"}},
   forbidden |-> {[text |-> "no", gate |-> "none"], [text |-> "machine", gate |-> "persona_break"]}]
FewCases == {PersonaCase(1, "self_intro"), PersonaCase(2, "preferences"), PersonaCase(3, "world_lore")}
ManyCases == FewCases \cup {PersonaCase(i, "self_intro") : i \in 4 .. 12}
Judge == [identity |-> "j", identityAfter |-> "j", complete |-> TRUE]

Spoken == [raises |-> FALSE, choices |-> 1, finish |-> "stop", text |-> {"yes"}, hash |-> "card",
           elsewhere |-> FALSE]
Wrong == {[Spoken EXCEPT !.text = {}], [Spoken EXCEPT !.text = {"yes", "no"}]}
Wronger == Wrong \cup
  {[Spoken EXCEPT !.raises = TRUE], [Spoken EXCEPT !.text = NoText],
   [Spoken EXCEPT !.text = {"yes", "machine"}], [Spoken EXCEPT !.finish = "length"],
   [Spoken EXCEPT !.hash = "other"], [Spoken EXCEPT !.hash = NoHash],
   [Spoken EXCEPT !.elsewhere = TRUE]}

PersonaSetup(runs, cases, mismatch) ==
  [entries |-> {"chat", "history"}, runs |-> runs, cases |-> cases, mismatch |-> mismatch]
PersonaTrials(setup, wrong, judges) ==
  LET cells == Persona!Addresses(setup)
      usual(case) == Spoken
      unusual(case) == wrong
  IN {[judge |-> judge] @@ Trial("persona", setup, cells, usual, cells, unusual) :
       judge \in judges}
Personas ==
  PersonaTrials(PersonaSetup(1, ManyCases, "gate"), Wrong, {Judge})
  \cup PersonaTrials(PersonaSetup(2, FewCases, "warn"), Wronger, {Judge})
  \cup PersonaTrials(PersonaSetup(1, FewCases, "gate"), Wrong,
         {[Judge EXCEPT !.identityAfter = "k"], [Judge EXCEPT !.complete = FALSE]})

-----------------------------------------------------------------------------
Attack(id, route) ==
  [id |-> id, route |-> route, attack |-> id, canary |-> "canary", breaks |-> {"machine"}]
InjectionSetup ==
  [runs |-> 2, card |-> "card",
   cases |-> {Attack(1, "caller_system"), Attack(2, "user"), Attack(3, "memory")}]
Resisted(case) ==
  IF case.route = "caller_system"
    THEN [system |-> "refused", status |-> 400, code |-> "system_message_unsupported"]
    ELSE [raises |-> FALSE, choices |-> 1, finish |-> "stop", text |-> {}, hash |-> "card",
          elsewhere |-> FALSE,
          prompt |-> [memory |-> case.attack, notice |-> TRUE, last |-> "user",
                      input |-> case.attack]]
Attacked(case) ==
  IF case.route = "caller_system"
    THEN {[Resisted(case) EXCEPT !.system = "dispatched"], [Resisted(case) EXCEPT !.system = "raised"],
          [Resisted(case) EXCEPT !.code = "privacy_denied"], [Resisted(case) EXCEPT !.system = "completed"]}
    ELSE {[Resisted(case) EXCEPT !.raises = TRUE], [Resisted(case) EXCEPT !.text = NoText],
          [Resisted(case) EXCEPT !.text = {"canary"}], [Resisted(case) EXCEPT !.text = {"machine"}],
          [Resisted(case) EXCEPT !.prompt.memory = 0], [Resisted(case) EXCEPT !.prompt.notice = FALSE],
          [Resisted(case) EXCEPT !.prompt.input = 0], [Resisted(case) EXCEPT !.hash = "other"],
          [Resisted(case) EXCEPT !.prompt.last = "assistant"], [Resisted(case) EXCEPT !.choices = 2],
          [Resisted(case) EXCEPT !.finish = "length"],
          [Resisted(case) EXCEPT !.hash = NoHash], [Resisted(case) EXCEPT !.elsewhere = TRUE]}
Injections ==
  LET cells == Attacks!Responses(InjectionSetup) \cup Attacks!Structures(InjectionSetup)
  IN {Trial("injection", InjectionSetup, cells, Resisted, cells, Attacked)}

-----------------------------------------------------------------------------
PrivacyCase(id, group) ==
  [id |-> id, group |-> group, sensitive |-> group # "NONE", subject |-> "SELF",
   categories |-> {group}, text |-> "plain"]
PrivacyOrder ==
  <<PrivacyCase(1, "HEALTH"), PrivacyCase(2, "MENTAL_STATE"), PrivacyCase(3, "SELF_HARM"),
    PrivacyCase(4, "ABUSE"), PrivacyCase(5, "FINANCIAL")>>
  \o [i \in 1 .. 6 |-> PrivacyCase(5 + i, "NONE")]
PrivacyCases == {PrivacyOrder[i] : i \in DOMAIN PrivacyOrder}
PrivacySetup(abstain) ==
  [runs |-> 3, cases |-> PrivacyCases, order |-> PrivacyOrder, abstain |-> abstain]

Content(classification, subject, category) ==
  [form |-> "json", extra |-> FALSE, version |-> "current",
   assessment |-> [classification |-> classification, subject |-> subject, category |-> category]]
Right(case) ==
  [outcome |-> "answered", choices |-> 1, index |-> 0, finish |-> "stop", role |-> "assistant",
   tools |-> FALSE,
   content |-> Content(Privacy!Definite(case), "SELF", case.group)]
Questionable(case) ==
  {[Right(case) EXCEPT !.outcome = "timeout"], [Right(case) EXCEPT !.outcome = "crashed"],
   [Right(case) EXCEPT !.finish = "length"], [Right(case) EXCEPT !.content.form = "repeated"],
   [Right(case) EXCEPT !.content = Content("NOT_SENSITIVE", "SELF", "NONE")],
   [Right(case) EXCEPT !.content = Content("NOT_SENSITIVE", "SELF", "HEALTH")],
   [Right(case) EXCEPT !.content = Content("ABSTAIN", "UNKNOWN", "UNKNOWN")]}
Whole == [i \in 1 .. 33 |-> i]
PrivacyTrials(abstain, ids, selections) ==
  LET cells == [run : 1 .. 3, case : PrivacyCases]
      suspects == {a \in cells : a.case.id \in ids}
  IN {[kept |-> kept] @@
        Trial("privacy", PrivacySetup(abstain), cells, Right, suspects, Questionable) :
       kept \in selections}
Privacies ==
  PrivacyTrials("separate", {1, 6, 7}, {Whole})
  \cup PrivacyTrials("accept", {1}, {Whole})
  \cup PrivacyTrials("reject", {1},
         {Whole, SubSeq(Whole, 1, 32), [Whole EXCEPT ![7] = 8], Append(Whole, 1)})

-----------------------------------------------------------------------------
\* Memories 1 and 2 answer the query, 3 must not; Fact "f" belongs to 1, "g" is outdated.
Gold(id, category) ==
  [id |-> id, category |-> category, records |-> 1 .. 7, facts |-> {"f", "g", "h"},
   relevant |-> <<1, 2>>, forbidden |-> {3}, noMatch |-> FALSE, order |-> Unset,
   requiredFacts |-> {"f"}, forbiddenFacts |-> {"g"}, dispatched |-> {1}, valid |-> TRUE,
   behavior |-> "grounded", requiredTexts |-> {{"yes", "indeed"}}, forbiddenTexts |-> {"no"},
   discarded |-> FALSE]
Nothing(id) ==
  [Gold(id, "unrelated") EXCEPT !.relevant = <<>>, !.noMatch = TRUE, !.requiredFacts = {},
     !.dispatched = {}, !.behavior = "no_memory", !.requiredTexts = {}]
Reordered == [Gold(2, "equivalent_order") EXCEPT !.order = <<2, 1>>]
Kinds ==
  {Gold(1, "synonym"), Reordered, Nothing(3),
   [Gold(4, "after_search") EXCEPT !.valid = FALSE, !.dispatched = {}, !.behavior = "blocked"],
   [Gold(5, "after_answer") EXCEPT !.behavior = "blocked", !.discarded = TRUE]}
Synonyms == {Gold(i, "synonym") : i \in 11 .. 20}
Suspects == {Gold(11, "synonym"), Gold(12, "synonym"), Reordered}

Found(id) == [id |-> id, facts |-> IF id = 1 THEN <<"f">> ELSE <<>>,
              verified |-> TRUE, places |-> {1}]
FoundAll(ids) == [i \in DOMAIN ids |-> Found(ids[i])]
Call(scores) == [traced |-> TRUE, scores |-> scores]
Retrieved(case) ==
  [failed |-> FALSE, sameSpace |-> TRUE, context |-> TRUE, valid |-> case.valid,
   returned |-> FoundAll(IF case.order = Unset THEN case.relevant ELSE case.order),
   calls |-> IF case.noMatch THEN <<Call(<<2, 1>>)>> ELSE <<Call(<<4, 2>>)>>]
Partly(case) ==
  {[Retrieved(case) EXCEPT !.returned = FoundAll(ids)] : ids \in {<<>>, <<1>>, <<2>>, <<1, 2>>}}
  \cup {[Retrieved(case) EXCEPT !.returned = <<Found(1), [Found(2) EXCEPT !.facts = facts]>>] :
          facts \in {<<"g">>, <<"h">>}}
Missed(case) ==
  Partly(case)
  \cup {[Retrieved(case) EXCEPT !.returned = FoundAll(ids)] :
          ids \in {<<1, 2, 3>>, <<4, 5, 6, 7, 2, 1>>, <<1, 1>>, <<1, 2, 8>>, <<2, 1, 4>>}}
  \cup {[Retrieved(case) EXCEPT !.returned = <<r, Found(2), [Found(4) EXCEPT !.facts = <<"f">>]>>] :
          r \in {[Found(1) EXCEPT !.verified = FALSE], [Found(1) EXCEPT !.places = {1, 2}],
                 [Found(1) EXCEPT !.places = {}], [Found(1) EXCEPT !.facts = <<"f", "f">>],
                 [Found(1) EXCEPT !.facts = <<"f", "z">>], [Found(1) EXCEPT !.facts = <<>>]}}
  \cup {[Retrieved(case) EXCEPT !.calls = calls] :
          calls \in {<<>>, <<Call(<<2>>), Call(<<4>>)>>, <<Call(<<4>>), Call(<<2>>)>>,
                     <<[Call(<<2>>) EXCEPT !.traced = FALSE]>>}}
  \cup {[Retrieved(case) EXCEPT !.failed = TRUE], [Retrieved(case) EXCEPT !.sameSpace = FALSE],
        [Retrieved(case) EXCEPT !.context = FALSE], [Retrieved(case) EXCEPT !.valid = ~case.valid]}

RetrievalSetup(runs, cases, mode) ==
  [runs |-> runs, cases |-> cases, mode |-> mode, fixture |-> mode = "fixture", threshold |-> 3]
RetrievalsOf(setup, suspects, unusual(_)) ==
  Trial("retrieval", setup, [run : 1 .. setup.runs, case : setup.cases],
        Retrieved, [run : 1 .. setup.runs, case : suspects], unusual)
Retrievals ==
  {RetrievalsOf(RetrievalSetup(runs, Kinds, mode), {case}, Missed) :
    runs \in 1 .. 2, mode \in {"fixture", "local_model"}, case \in Kinds}
  \cup {RetrievalsOf(RetrievalSetup(1, Kinds \cup Synonyms, "local_model"), Suspects, Partly),
        RetrievalsOf([RetrievalSetup(1, Kinds, "local_model") EXCEPT !.fixture = TRUE], {Reordered}, Partly)}

Told(case) ==
  [failed |-> FALSE, selected |-> IF case.noMatch THEN <<>> ELSE <<1, 2, 3>>,
   dropped |-> IF case.noMatch THEN 0 ELSE 1, valid |-> case.valid,
   before |-> IF case.valid THEN "ok" ELSE "context_revoked", provider |-> "answered",
   after |-> IF case.discarded THEN "context_revoked" ELSE "ok", choices |-> 1,
   text |-> {"yes", "indeed"}]
Mistold(case) ==
  {[Told(case) EXCEPT !.failed = TRUE], [Told(case) EXCEPT !.provider = "raised"],
   [Told(case) EXCEPT !.choices = 2]}
  \cup {[Told(case) EXCEPT !.text = text] : text \in {NoText, {}, {"other"}, {"yes", "no"}}}
  \cup {[Told(case) EXCEPT !.selected = ids, !.dropped = dropped] :
          ids \in {<<2, 3, 1>>, <<4, 5, 6, 7, 2, 1>>, <<1, 1>>}, dropped \in 0 .. 1}
  \cup {[Told(case) EXCEPT !.valid = valid, !.before = before, !.after = after] :
          valid \in BOOLEAN, before \in {"ok", "context_revoked", "context_limit"},
          after \in {"ok", "context_revoked", "memory_unavailable"}}
Vague(case) == {[Told(case) EXCEPT !.text = {"other"}]}
AnswersOf(cases, suspects, unusual(_)) ==
  Trial("answers", [cases |-> cases], [case : cases], Told, [case : suspects], unusual)
Answers ==
  {AnswersOf(Kinds, {case}, Mistold) : case \in Kinds}
  \cup {AnswersOf(Kinds \cup Synonyms, Suspects, Vague)}

\* An expectation at odds with itself is refused.
AtOdds ==
  LET gold == Gold(1, "synonym") IN
  UNION {{AnswersOf({odd}, {odd}, Vague),
          RetrievalsOf(RetrievalSetup(1, {odd}, "fixture"), {odd}, Partly)} :
         odd \in {[gold EXCEPT !.forbidden = {1}], [gold EXCEPT !.relevant = <<1, 8>>],
                  [gold EXCEPT !.noMatch = TRUE], [gold EXCEPT !.order = <<2>>],
                  [gold EXCEPT !.forbiddenFacts = {"f"}], [gold EXCEPT !.valid = FALSE],
                  [gold EXCEPT !.forbiddenTexts = {"yes"}]}}

-----------------------------------------------------------------------------
Questions ==
  Rankings \cup Adapters \cup Books \cup Screened \cup Personas \cup Injections \cup Privacies
    \cup Retrievals \cup Answers \cup AtOdds
=============================================================================
