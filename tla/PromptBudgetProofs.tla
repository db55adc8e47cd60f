-------------------------- MODULE PromptBudgetProofs --------------------------
(***************************************************************************)
(* For every history, every budget and every counter: the protected turn   *)
(* is never lost, a prompt is refused only if what is required does not    *)
(* fit, and units are dropped in the order of their priority.              *)
(***************************************************************************)
EXTENDS PromptBudget, FiniteSetTheorems, TLAPS

\* The turns stay in their order, and the protected one stays where it is looked for.
Kept ==
  /\ \A i, j \in 1 .. Len(history) : i < j => history[i] < history[j]
  /\ protected = 0 => protectedIndex = 0 /\ completed = {}
  /\ protected # 0 =>
       /\ protected \in completed
       /\ protectedIndex \in 1 .. Len(history)
       /\ history[protectedIndex] = protected

\* What is counted is what was counted for the same messages.
Counted ==
  /\ Consistent(usage)
  /\ required["memory"] = 0 /\ required["lore"] = 0 /\ required["post_history"] = 0

\* A stage is over when its region fits, or nothing more may go; the last stage of a
\* region settles the region, and every stage bears on the whole as long as shorter
\* prompts cost no more.
Settled ==
  \A s \in 1 .. 7 : s < stage =>
    /\ s >= 4 => usage[StageRegion[s]] <= Budget[StageRegion[s]] \/ AtFloor(s)
    /\ rose \/ usage["total"] <= Budget["total"] \/ AtFloor(s)

Refused ==
  /\ outcome # "building" => stage \in {0, 8}
  /\ outcome = "refused" =>
       \/ Exceeded(required)
       \/ stage = 8 /\ Exceeded(usage)

PromptInv == PromptTypeOK /\ Kept /\ Counted /\ Settled /\ Refused /\ DropsInOrder

-----------------------------------------------------------------------------
LEMMA LengthType ==
  ASSUME PromptTypeOK
  PROVE  /\ Len(history) \in Nat /\ DOMAIN history = 1 .. Len(history)
         /\ \A i \in 1 .. Len(history) : history[i] \in 1 .. MaxTurns
BY BoundsAssumption DEF PromptTypeOK

LEMMA LeftFinite ==
  ASSUME PromptTypeOK
  PROVE  IsFiniteSet(CompletedLeft) /\ Cardinality(CompletedLeft) \in Nat
<1>1. IsFiniteSet(1 .. MaxTurns)
  BY BoundsAssumption, FS_Interval
<1>2. CompletedLeft \subseteq 1 .. MaxTurns
  BY DEF PromptTypeOK, CompletedLeft
<1>3. QED
  BY <1>1, <1>2, FS_Subset, FS_CardinalityType

\* What may go at the last floor of the history is all but the protected turn.
LEMMA LastFloorBare ==
  ASSUME PromptTypeOK, Kept
  PROVE  Removable(IF protected = 0 THEN 0 ELSE 1) = {} <=> Bare
<1> USE LengthType
<1>1. CASE protected = 0
  <2>1. protectedIndex = 0 /\ completed = {}
    BY <1>1 DEF Kept
  <2>2. Removable(0) = 1 .. Len(history)
    BY <2>1 DEF Removable
  <2>3. 1 .. Len(history) = {} <=> Len(history) = 0
    OBVIOUS
  <2>4. QED
    BY <1>1, <2>2, <2>3 DEF Bare
<1>2. CASE protected # 0
  <2>1. protected \in completed /\ protectedIndex \in 1 .. Len(history)
          /\ history[protectedIndex] = protected
    BY <1>2 DEF Kept
  <2>2. ASSUME Len(history) = 1
        PROVE  Removable(1) = {}
    BY <2>1, <2>2 DEF Removable
  <2>3. ASSUME Removable(1) = {}, Len(history) # 1
        PROVE  FALSE
    <3>1. PICK i \in 1 .. Len(history) : i # protectedIndex
      BY <2>1, <2>3
    <3>2. history[i] \in completed /\ ~(Cardinality(CompletedLeft) > 1)
      BY <2>3, <3>1 DEF Removable
    <3>3. history[i] # protected
      BY <2>1, <3>1 DEF Kept
    <3>4. protected \in CompletedLeft /\ history[i] \in CompletedLeft
      BY <2>1, <3>1, <3>2 DEF CompletedLeft
    <3>5. Cardinality({protected}) = 1 /\ {protected} \in SUBSET CompletedLeft
      BY <3>4, FS_Singleton
    <3>6. {protected} # CompletedLeft
      BY <3>3, <3>4
    <3>7. 1 <= Cardinality(CompletedLeft) /\ Cardinality(CompletedLeft) # 1
      BY <3>5, <3>6, LeftFinite, FS_Subset
    <3>8. QED
      BY <3>2, <3>7, LeftFinite
  <2>4. QED
    BY <1>2, <2>2, <2>3 DEF Bare
<1>3. QED
  BY <1>1, <1>2

LEMMA Floors ==
  ASSUME PromptTypeOK
  PROVE  /\ (AtFloor(1) <=> memory <= MemoryFloor)
         /\ (AtFloor(2) <=> memory <= 1)
         /\ (AtFloor(3) <=> Removable(HistoryFloor) = {})
         /\ (AtFloor(4) <=> memory = 0)
         /\ (AtFloor(5) <=> Removable(IF protected = 0 THEN 0 ELSE 1) = {})
         /\ (AtFloor(6) <=> lore = {})
         /\ (AtFloor(7) <=> ~post)
<1>1. /\ StageRegion[1] = "memory" /\ StageRegion[2] = "memory"
      /\ StageRegion[3] = "history" /\ StageRegion[4] = "memory"
      /\ StageRegion[5] = "history" /\ StageRegion[6] = "lore"
      /\ StageRegion[7] = "post_history"
  BY DEF StageRegion
<1>2. /\ StageFloor[1] = MemoryFloor /\ StageFloor[2] = 1 /\ StageFloor[3] = HistoryFloor
      /\ StageFloor[4] = 0 /\ StageFloor[5] = (IF protected = 0 THEN 0 ELSE 1)
  BY DEF StageFloor
<1>3. memory <= 0 <=> memory = 0
  BY BoundsAssumption DEF PromptTypeOK
<1>4. (AtFloor(1) <=> memory <= MemoryFloor) /\ (AtFloor(2) <=> memory <= 1)
        /\ (AtFloor(4) <=> memory <= 0)
  BY <1>1, <1>2 DEF AtFloor
<1>5. /\ (AtFloor(3) <=> Removable(HistoryFloor) = {})
      /\ (AtFloor(5) <=> Removable(IF protected = 0 THEN 0 ELSE 1) = {})
  BY <1>1, <1>2 DEF AtFloor
<1>6. (AtFloor(6) <=> lore = {}) /\ (AtFloor(7) <=> ~post)
  BY <1>1 DEF AtFloor, PromptTypeOK
<1>7. QED
  BY <1>3, <1>4, <1>5, <1>6

-----------------------------------------------------------------------------
LEMMA InitInv == Init => PromptInv
<1> SUFFICES ASSUME Init PROVE PromptInv
  OBVIOUS
<1> USE DEF Init
<1>0. PICK n \in 0 .. MaxTurns :
        history = [i \in 1 .. n |-> i] /\ completed \in SUBSET (1 .. n)
  OBVIOUS
<1>1. history \in Seq(1 .. MaxTurns) /\ Len(history) = n
  BY <1>0, BoundsAssumption
<1>2. protected \in 0 .. n /\ completed \in SUBSET (1 .. MaxTurns)
  <2>1. protected \in 0 .. n
    <3>1. n \in Nat
      BY BoundsAssumption
    <3>2. CASE protected = 0
      BY <3>1, <3>2
    <3>3. CASE protected \in completed
      BY <1>0, <3>1, <3>3
    <3>4. QED
      BY <3>2, <3>3
  <2>2. 1 .. n \subseteq 1 .. MaxTurns
    BY BoundsAssumption
  <2>3. QED
    BY <1>0, <2>1, <2>2
<1>3. PromptTypeOK
  <2>1. protected \in 0 .. MaxTurns /\ protectedIndex \in 0 .. Len(history)
    BY <1>1, <1>2, BoundsAssumption
  <2>2. dropped \in [Optional -> Nat]
    OBVIOUS
  <2>3. /\ forced \in SUBSET Optional /\ rose \in BOOLEAN
        /\ outcome \in {"building", "built", "refused"}
    OBVIOUS
  <2>4. stage \in 0 .. 8
    OBVIOUS
  <2>5. required \in Cost /\ usage \in Cost
    OBVIOUS
  <2>6. memory \in 0 .. MaxMemory /\ lore \in SUBSET LoreKeys /\ post \in BOOLEAN
    OBVIOUS
  <2>7. QED
    BY <1>1, <1>2, <2>1, <2>2, <2>3, <2>4, <2>5, <2>6 DEF PromptTypeOK
<1>4. Kept
  BY <1>0, <1>1, <1>2, BoundsAssumption DEF Kept
<1>5. Counted /\ Settled /\ Refused
  BY DEF Counted, Settled, Refused
<1>6. DropsInOrder
  BY DEF DropsInOrder, Optional
<1>7. QED
  BY <1>3, <1>4, <1>5, <1>6 DEF PromptInv

-----------------------------------------------------------------------------
\* A turn that may go leaves the protected one, the order and the floors as they are.
LEMMA WithoutTells ==
  ASSUME PromptTypeOK, Kept, NEW i \in 1 .. Len(history), i # protectedIndex,
         history' = Without(history, i), UNCHANGED <<completed, protected>>,
         protectedIndex' = IF i < protectedIndex THEN protectedIndex - 1 ELSE protectedIndex
  PROVE  /\ history' \in Seq(1 .. MaxTurns) /\ protectedIndex' \in 0 .. Len(history')
         /\ Kept'
         /\ \A f \in Nat : Removable(f) = {} => Removable(f)' = {}
<1> DEFINE n == Len(history)
<1>0. /\ n \in Nat /\ DOMAIN history = 1 .. n
      /\ \A j \in 1 .. n : history[j] \in 1 .. MaxTurns
  BY LengthType
<1>1. history' = [j \in 1 .. n - 1 |-> IF j < i THEN history[j] ELSE history[j + 1]]
  BY DEF Without
<1>2. \A j \in 1 .. n - 1 :
        history'[j] = IF j < i THEN history[j] ELSE history[j + 1]
  BY <1>1
<1>3. \A j \in 1 .. n - 1 : history'[j] \in 1 .. MaxTurns
  BY <1>0, <1>2
<1>4. history' \in Seq(1 .. MaxTurns) /\ Len(history') = n - 1 /\ DOMAIN history' = 1 .. n - 1
  <2>1. n - 1 \in Nat
    BY <1>0
  <2>2. Len(history') = n - 1 /\ DOMAIN history' = 1 .. n - 1
    BY <1>1, <2>1
  <2>3. history' \in Seq(1 .. MaxTurns)
    BY <1>1, <1>2, <1>3, <2>1
  <2>4. QED
    BY <2>2, <2>3
<1>5. protectedIndex \in 0 .. n
  BY DEF PromptTypeOK
<1>6. protectedIndex' \in 0 .. Len(history')
  BY <1>0, <1>4, <1>5
<1>7. Kept'
  <2>1. \A j, k \in 1 .. n - 1 : j < k => history'[j] < history'[k]
    BY <1>0, <1>2 DEF Kept
  <2>2. protected = 0 => protectedIndex' = 0 /\ completed = {}
    BY <1>0 DEF Kept
  <2>3. ASSUME protected # 0
        PROVE  /\ protected \in completed /\ protectedIndex' \in 1 .. n - 1
               /\ history'[protectedIndex'] = protected
    <3>1. /\ protected \in completed /\ protectedIndex \in 1 .. n
          /\ history[protectedIndex] = protected
      BY <2>3 DEF Kept
    <3>2. CASE i < protectedIndex
      BY <1>0, <1>2, <3>1, <3>2
    <3>3. CASE ~(i < protectedIndex)
      BY <1>0, <1>2, <3>1, <3>3
    <3>4. QED
      BY <3>2, <3>3, <3>1
  <2>4. QED
    BY <1>4, <2>1, <2>2, <2>3 DEF Kept
<1>8. CompletedLeft' \subseteq CompletedLeft
  <2>1. ASSUME NEW j \in 1 .. n - 1
        PROVE  \E k \in 1 .. n : history[k] = history'[j]
    <3>1. j \in 1 .. n /\ j + 1 \in 1 .. n
      BY <1>0
    <3>2. QED
      BY <1>2, <3>1
  <2>2. QED
    BY <1>0, <1>4, <2>1 DEF CompletedLeft
<1>9. Cardinality(CompletedLeft') <= Cardinality(CompletedLeft)
        /\ Cardinality(CompletedLeft') \in Nat
  BY <1>8, LeftFinite, FS_Subset, FS_CardinalityType
<1>10. ASSUME NEW f \in Nat, Removable(f) = {}
       PROVE  Removable(f)' = {}
  <2>1. \A j \in 1 .. n : j # protectedIndex =>
          history[j] \in completed /\ ~(Cardinality(CompletedLeft) > f)
    BY <1>0, <1>10 DEF Removable
  <2>2. ASSUME NEW j \in 1 .. n - 1, j # protectedIndex'
        PROVE  history'[j] \in completed /\ ~(Cardinality(CompletedLeft') > f)
    <3>1. PICK k \in 1 .. n : k # protectedIndex /\ history'[j] = history[k]
      <4>1. CASE j < i
        BY <1>0, <1>2, <1>5, <2>2, <4>1
      <4>2. CASE ~(j < i)
        <5>1. j + 1 # protectedIndex
          BY <1>0, <1>5, <2>2, <4>2
        <5>2. QED
          BY <1>0, <1>2, <4>2, <5>1
      <4>3. QED
        BY <4>1, <4>2
    <3>2. QED
      BY <1>9, <2>1, <3>1, LeftFinite
  <2>3. QED
    BY <1>4, <2>2 DEF Removable
<1>11. QED
  BY <1>4, <1>6, <1>7, <1>10

-----------------------------------------------------------------------------
LEMMA RecountTells ==
  ASSUME PromptInv, stage \in 1 .. 7, NEW region \in Optional, Recount(region)
  PROVE  /\ usage' \in Cost /\ dropped' \in [Optional -> Nat]
         /\ forced' \in SUBSET Optional /\ rose' \in BOOLEAN
         /\ \A r \in Region \ {region} : usage'[r] = usage[r]
         /\ \A r \in Optional \ {region} : dropped'[r] = dropped[r]
         /\ rose => rose'
         /\ rose' \/ usage'["total"] <= usage["total"]
         /\ forced \subseteq forced'
         /\ region \notin forced' => ~(usage[region] > Budget[region])
         /\ Counted' /\ Refused'
<1> USE DEF Recount
<1>1. usage \in Cost /\ dropped \in [Optional -> Nat] /\ forced \in SUBSET Optional
        /\ rose \in BOOLEAN
  BY DEF PromptInv, PromptTypeOK
<1>2. PICK count, total \in Tokens :
        usage' = [usage EXCEPT ![region] = count, !["total"] = total]
  OBVIOUS
<1>3. usage' \in Cost
  BY <1>1, <1>2 DEF Cost
<1>4. \A r \in Region \ {region} : usage'[r] = usage[r]
  BY <1>1, <1>2 DEF Cost, Region, Optional
<1>5. usage["total"] \in Nat /\ usage'["total"] \in Nat
  BY <1>1, <1>3, BoundsAssumption DEF Cost, Tokens
<1>6. dropped' \in [Optional -> Nat] /\ \A r \in Optional \ {region} : dropped'[r] = dropped[r]
  BY <1>1
<1>7. Counted'
  BY DEF PromptInv, Counted, fixed
<1>8. Refused'
  BY DEF PromptInv, Refused, Exceeded, fixed
<1>9. /\ forced' \in SUBSET Optional /\ forced \subseteq forced'
      /\ region \notin forced' => ~(usage[region] > Budget[region])
  BY <1>1
<1>10. rose' \in BOOLEAN /\ (rose => rose')
  BY <1>1
<1>11. rose' \/ usage'["total"] <= usage["total"]
  <2>1. usage'["total"] > usage["total"] => rose'
    OBVIOUS
  <2>2. QED
    BY <1>5, <2>1
<1>12. QED
  BY <1>3, <1>4, <1>6, <1>7, <1>8, <1>9, <1>10, <1>11

\* A unit of the region of this stage is dropped: what earlier stages have settled stays.
LEMMA SettledStays ==
  ASSUME PromptInv, stage \in 1 .. 7, UNCHANGED stage,
         usage' \in Cost,
         \A r \in Region \ {StageRegion[stage]} : usage'[r] = usage[r],
         rose => rose', rose' \/ usage'["total"] <= usage["total"],
         \A s \in 1 .. 7 : AtFloor(s) => AtFloor(s)'
  PROVE  Settled'
<1> SUFFICES ASSUME NEW s \in 1 .. 7, s < stage
             PROVE  /\ s >= 4 => usage'[StageRegion[s]] <= Budget[StageRegion[s]] \/ AtFloor(s)'
                    /\ rose' \/ usage'["total"] <= Budget["total"] \/ AtFloor(s)'
  BY DEF Settled, StageRegion
<1>1. ASSUME s >= 4
      PROVE  usage'[StageRegion[s]] <= Budget[StageRegion[s]] \/ AtFloor(s)'
  <2>1. StageRegion[s] \in Region /\ StageRegion[s] # StageRegion[stage]
    BY <1>1 DEF StageRegion, Region, Optional
  <2>2. usage'[StageRegion[s]] = usage[StageRegion[s]]
    BY <2>1
  <2>3. QED
    BY <1>1, <2>2 DEF PromptInv, Settled
<1>2. rose' \/ usage'["total"] <= Budget["total"] \/ AtFloor(s)'
  <2>1. rose \/ usage["total"] <= Budget["total"] \/ AtFloor(s)
    BY DEF PromptInv, Settled
  <2>2. usage["total"] \in Nat /\ usage'["total"] \in Nat /\ Budget["total"] \in Nat
    BY BoundsAssumption, BudgetAssumption DEF PromptInv, PromptTypeOK, Cost, Tokens
  <2>3. CASE rose'
    BY <2>3
  <2>4. CASE AtFloor(s)
    BY <2>4
  <2>5. CASE usage["total"] <= Budget["total"] /\ usage'["total"] <= usage["total"]
    BY <2>2, <2>5
  <2>6. QED
    BY <2>1, <2>3, <2>4, <2>5
<1>3. QED
  BY <1>1, <1>2

\* Where the region itself fits, it is the whole that is over its budget: every earlier
\* stage has dropped what it may.
LEMMA CutTells ==
  ASSUME PromptInv, NEW region \in Optional, Cuts(region), Recount(region), ~rose',
         region \notin forced'
  PROVE  \A s \in 1 .. 7 : s < stage => AtFloor(s)
<1>1. stage \in 1 .. 7 /\ Over(region)
  BY DEF Cuts
<1>2. ~rose /\ ~(usage[region] > Budget[region])
  BY <1>1, RecountTells
<1>3. usage["total"] > Budget["total"]
  BY <1>1, <1>2 DEF Over
<1>4. usage["total"] \in Nat /\ Budget["total"] \in Nat
  BY BoundsAssumption, BudgetAssumption DEF PromptInv, PromptTypeOK, Cost, Tokens
<1>5. ~(usage["total"] <= Budget["total"])
  BY <1>3, <1>4
<1>6. QED
  BY <1>2, <1>5 DEF PromptInv, Settled

-----------------------------------------------------------------------------
LEMMA DropMemoryInv == PromptInv /\ DropMemory => PromptInv'
<1> SUFFICES ASSUME PromptInv, DropMemory PROVE PromptInv'
  OBVIOUS
<1>1. /\ Cuts("memory") /\ Recount("memory") /\ memory' = memory - 1
      /\ UNCHANGED <<history, lore, post, protectedIndex, fixed, stage, outcome>>
  BY DEF DropMemory, Recount
<1>2. stage \in 1 .. 7 /\ StageRegion[stage] = "memory" /\ ~AtFloor(stage)
  BY <1>1 DEF Cuts
<1>3. PromptTypeOK /\ Kept /\ Counted /\ DropsInOrder
  BY DEF PromptInv
<1>4. stage \in {1, 2, 4}
  BY <1>2 DEF StageRegion
<1>5. memory \in 0 .. MaxMemory /\ memory # 0 /\ (stage \in {1, 2} => memory > 1)
  BY <1>2, <1>3, <1>4, Floors, FloorsAssumption, BoundsAssumption DEF PromptTypeOK
<1>6. memory' \in 0 .. MaxMemory /\ memory' <= memory /\ (stage \in {1, 2} => memory' # 0)
  BY <1>1, <1>5, BoundsAssumption
<1>7. "memory" \in Optional
  BY DEF Optional
<1>8. PromptTypeOK'
  <2>1. usage' \in Cost /\ dropped' \in [Optional -> Nat]
          /\ forced' \in SUBSET Optional /\ rose' \in BOOLEAN
    BY <1>1, <1>2, <1>7, RecountTells
  <2>2. QED
    BY <1>1, <1>3, <1>6, <2>1 DEF PromptTypeOK, fixed
<1>9. Kept'
  BY <1>1, <1>3 DEF Kept, fixed
<1>10. Counted' /\ Refused'
  BY <1>1, <1>2, <1>7, RecountTells
<1>11. \A f : Removable(f)' = Removable(f)
  BY <1>1 DEF Removable, CompletedLeft, fixed
<1>12. \A s \in 1 .. 7 : AtFloor(s) => AtFloor(s)'
  <2>1. \A s \in 1 .. 7 : StageFloor[s]' = StageFloor[s] /\ StageRegion[s]' = StageRegion[s]
    BY <1>1 DEF StageFloor, StageRegion, fixed
  <2>2. \A s \in 1 .. 7 : StageFloor[s] \in Nat
    BY FloorsAssumption DEF StageFloor
  <2>3. QED
    BY <1>1, <1>5, <1>6, <1>11, <2>1, <2>2 DEF AtFloor
<1>13. Settled'
  BY <1>1, <1>2, <1>7, <1>12, RecountTells, SettledStays
<1>14. DropsInOrder'
  <2> SUFFICES ASSUME ~rose'
               PROVE  DropsInOrder'
    BY DEF DropsInOrder
  <2>1. ~rose /\ forced \subseteq forced'
          /\ \A r \in Optional \ {"memory"} : dropped'[r] = dropped[r]
    BY <1>1, <1>2, <1>7, RecountTells
  <2>2. ASSUME memory' = 0, "memory" \notin forced'
        PROVE  Removable(HistoryFloor) = {}
    <3>1. stage = 4
      BY <1>4, <1>6, <2>2
    <3>2. AtFloor(3)
      BY <1>1, <1>7, <2>2, <3>1, CutTells
    <3>3. QED
      BY <1>3, <3>2, Floors
  <2>3. QED
    BY <1>1, <1>3, <1>5, <1>6, <1>11, <2>1, <2>2 DEF DropsInOrder, Bare, Optional, fixed
<1>15. QED
  BY <1>8, <1>9, <1>10, <1>13, <1>14 DEF PromptInv

LEMMA DropTurnInv == PromptInv /\ DropTurn => PromptInv'
<1> SUFFICES ASSUME PromptInv, DropTurn PROVE PromptInv'
  OBVIOUS
<1>1. /\ Cuts("history") /\ Recount("history")
      /\ UNCHANGED <<memory, lore, post, fixed, stage, outcome>>
  BY DEF DropTurn, Recount
<1>2. stage \in 1 .. 7 /\ StageRegion[stage] = "history"
  BY <1>1 DEF Cuts
<1>3. PromptTypeOK /\ Kept /\ Counted /\ DropsInOrder
  BY DEF PromptInv
<1>4. stage \in {3, 5} /\ "history" \in Optional
  BY <1>2 DEF StageRegion, Optional
<1>5. PICK i \in Removable(StageFloor[stage]) :
        /\ history' = Without(history, i)
        /\ protectedIndex' = IF i < protectedIndex THEN protectedIndex - 1 ELSE protectedIndex
  BY DEF DropTurn
<1>6. i \in 1 .. Len(history) /\ i # protectedIndex
  BY <1>3, LengthType DEF Removable
<1>7. /\ history' \in Seq(1 .. MaxTurns) /\ protectedIndex' \in 0 .. Len(history')
      /\ Kept'
      /\ \A f \in Nat : Removable(f) = {} => Removable(f)' = {}
  BY <1>1, <1>3, <1>5, <1>6, WithoutTells DEF fixed
<1>8. PromptTypeOK'
  <2>1. usage' \in Cost /\ dropped' \in [Optional -> Nat]
          /\ forced' \in SUBSET Optional /\ rose' \in BOOLEAN
    BY <1>1, <1>2, <1>4, RecountTells
  <2>2. QED
    BY <1>1, <1>3, <1>7, <2>1 DEF PromptTypeOK, fixed
<1>9. Counted' /\ Refused'
  BY <1>1, <1>2, <1>4, RecountTells
<1>10. \A s \in 1 .. 7 : AtFloor(s) => AtFloor(s)'
  <2>1. \A s \in 1 .. 7 : StageFloor[s]' = StageFloor[s] /\ StageRegion[s]' = StageRegion[s]
    BY <1>1 DEF StageFloor, StageRegion, fixed
  <2>2. \A s \in 1 .. 7 : StageFloor[s] \in Nat
    BY FloorsAssumption DEF StageFloor
  <2>3. QED
    BY <1>1, <1>7, <2>1, <2>2 DEF AtFloor
<1>11. Settled'
  BY <1>1, <1>2, <1>4, <1>10, RecountTells, SettledStays
<1>12. ~Bare
  BY <1>3, <1>6, LengthType DEF Bare, Kept
<1>13. DropsInOrder'
  <2> SUFFICES ASSUME ~rose'
               PROVE  DropsInOrder'
    BY DEF DropsInOrder
  <2>1. ~rose /\ forced \subseteq forced'
          /\ \A r \in Optional \ {"history"} : dropped'[r] = dropped[r]
    BY <1>1, <1>2, <1>4, RecountTells
  <2>2. ASSUME "history" \notin forced'
        PROVE  memory <= 1
    <3>1. AtFloor(2)
      BY <1>1, <1>4, <2>2, CutTells
    <3>2. QED
      BY <1>3, <3>1, Floors
  <2>3. Removable(HistoryFloor) = {} => Removable(HistoryFloor)' = {}
    BY <1>7, FloorsAssumption
  <2>4. QED
    BY <1>1, <1>3, <1>12, <2>1, <2>2, <2>3 DEF DropsInOrder, Optional
<1>14. QED
  BY <1>7, <1>8, <1>9, <1>11, <1>13 DEF PromptInv

LEMMA DropLoreInv == PromptInv /\ DropLore => PromptInv'
<1> SUFFICES ASSUME PromptInv, DropLore PROVE PromptInv'
  OBVIOUS
<1>1. /\ Cuts("lore") /\ Recount("lore") /\ lore' \subseteq lore
      /\ UNCHANGED <<memory, history, post, protectedIndex, fixed, stage, outcome>>
  BY DEF DropLore, Recount
<1>2. stage = 6 /\ stage \in 1 .. 7 /\ ~AtFloor(6) /\ "lore" \in Optional
  BY <1>1 DEF Cuts, StageRegion, Optional
<1>3. PromptTypeOK /\ Kept /\ Counted /\ DropsInOrder
  BY DEF PromptInv
<1>4. lore # {} /\ StageRegion[stage] = "lore"
  BY <1>1, <1>2, <1>3, Floors DEF Cuts
<1>5. PromptTypeOK'
  <2>1. usage' \in Cost /\ dropped' \in [Optional -> Nat]
          /\ forced' \in SUBSET Optional /\ rose' \in BOOLEAN
    BY <1>1, <1>2, RecountTells
  <2>2. QED
    BY <1>1, <1>3, <2>1 DEF PromptTypeOK, fixed
<1>6. Kept'
  BY <1>1, <1>3 DEF Kept, fixed
<1>7. Counted' /\ Refused'
  BY <1>1, <1>2, RecountTells
<1>8. \A f : Removable(f)' = Removable(f)
  BY <1>1 DEF Removable, CompletedLeft, fixed
<1>9. \A s \in 1 .. 7 : AtFloor(s) => AtFloor(s)'
  <2>1. \A s \in 1 .. 7 : StageFloor[s]' = StageFloor[s] /\ StageRegion[s]' = StageRegion[s]
    BY <1>1 DEF StageFloor, StageRegion, fixed
  <2>2. QED
    BY <1>1, <1>8, <2>1 DEF AtFloor
<1>10. Settled'
  BY <1>1, <1>2, <1>4, <1>9, RecountTells, SettledStays
<1>11. DropsInOrder'
  <2> SUFFICES ASSUME ~rose'
               PROVE  DropsInOrder'
    BY DEF DropsInOrder
  <2>1. ~rose /\ forced \subseteq forced'
          /\ \A r \in Optional \ {"lore"} : dropped'[r] = dropped[r]
    BY <1>1, <1>2, RecountTells
  <2>2. ASSUME "lore" \notin forced'
        PROVE  memory = 0 /\ Bare
    <3>1. AtFloor(4) /\ AtFloor(5)
      BY <1>1, <1>2, <2>2, CutTells
    <3>2. QED
      BY <1>3, <3>1, Floors, LastFloorBare
  <2>3. QED
    BY <1>1, <1>3, <1>4, <1>8, <2>1, <2>2 DEF DropsInOrder, Bare, Optional, fixed
<1>12. QED
  BY <1>5, <1>6, <1>7, <1>10, <1>11 DEF PromptInv

LEMMA DropPostHistoryInv == PromptInv /\ DropPostHistory => PromptInv'
<1> SUFFICES ASSUME PromptInv, DropPostHistory PROVE PromptInv'
  OBVIOUS
<1>1. /\ Cuts("post_history") /\ Recount("post_history") /\ post' = FALSE
      /\ UNCHANGED <<memory, history, lore, protectedIndex, fixed, stage, outcome>>
  BY DEF DropPostHistory, Recount
<1>2. /\ stage = 7 /\ stage \in 1 .. 7 /\ StageRegion[stage] = "post_history"
      /\ "post_history" \in Optional
  BY <1>1 DEF Cuts, StageRegion, Optional
<1>3. PromptTypeOK /\ Kept /\ Counted /\ DropsInOrder
  BY DEF PromptInv
<1>4. PromptTypeOK'
  <2>1. usage' \in Cost /\ dropped' \in [Optional -> Nat]
          /\ forced' \in SUBSET Optional /\ rose' \in BOOLEAN
    BY <1>1, <1>2, RecountTells
  <2>2. QED
    BY <1>1, <1>3, <2>1 DEF PromptTypeOK, fixed
<1>5. Kept'
  BY <1>1, <1>3 DEF Kept, fixed
<1>6. Counted' /\ Refused'
  BY <1>1, <1>2, RecountTells
<1>7. \A f : Removable(f)' = Removable(f)
  BY <1>1 DEF Removable, CompletedLeft, fixed
<1>8. \A s \in 1 .. 7 : AtFloor(s) => AtFloor(s)'
  <2>1. \A s \in 1 .. 7 : StageFloor[s]' = StageFloor[s] /\ StageRegion[s]' = StageRegion[s]
    BY <1>1 DEF StageFloor, StageRegion, fixed
  <2>2. QED
    BY <1>1, <1>7, <2>1 DEF AtFloor
<1>9. Settled'
  BY <1>1, <1>2, <1>8, RecountTells, SettledStays
<1>10. DropsInOrder'
  <2> SUFFICES ASSUME ~rose'
               PROVE  DropsInOrder'
    BY DEF DropsInOrder
  <2>1. ~rose /\ forced \subseteq forced'
          /\ \A r \in Optional \ {"post_history"} : dropped'[r] = dropped[r]
    BY <1>1, <1>2, RecountTells
  <2>2. ASSUME "post_history" \notin forced'
        PROVE  memory = 0 /\ Bare /\ lore = {}
    <3>1. AtFloor(4) /\ AtFloor(5) /\ AtFloor(6)
      BY <1>1, <1>2, <2>2, CutTells
    <3>2. QED
      BY <1>3, <3>1, Floors, LastFloorBare
  <2>3. QED
    BY <1>1, <1>3, <1>7, <2>1, <2>2 DEF DropsInOrder, Bare, Optional, fixed
<1>11. QED
  BY <1>4, <1>5, <1>6, <1>9, <1>10 DEF PromptInv

-----------------------------------------------------------------------------
\* Nothing but the stage or the outcome changes.
LEMMA AdvanceInv ==
  ASSUME PromptInv,
         UNCHANGED <<items, fixed, protectedIndex, usage, dropped, forced, rose>>
  PROVE  /\ Kept' /\ Counted' /\ DropsInOrder'
         /\ \A s \in 1 .. 7 : AtFloor(s)' = AtFloor(s)
         /\ Exceeded(usage)' = Exceeded(usage) /\ Exceeded(required)' = Exceeded(required)
<1> USE DEF items, fixed
<1>1. \A f : Removable(f)' = Removable(f)
  BY DEF Removable, CompletedLeft
<1>2. \A s \in 1 .. 7 : AtFloor(s)' = AtFloor(s)
  <2>1. \A s \in 1 .. 7 : StageFloor[s]' = StageFloor[s] /\ StageRegion[s]' = StageRegion[s]
    BY DEF StageFloor, StageRegion
  <2>2. QED
    BY <1>1, <2>1 DEF AtFloor
<1>3. Kept' /\ Counted'
  BY DEF PromptInv, Kept, Counted, Consistent, Bare
<1>4. DropsInOrder'
  BY <1>1 DEF PromptInv, DropsInOrder, Bare
<1>5. Exceeded(usage)' = Exceeded(usage) /\ Exceeded(required)' = Exceeded(required)
  BY DEF Exceeded
<1>6. QED
  BY <1>2, <1>3, <1>4, <1>5

LEMMA ControlInv ==
  PromptInv /\ (CheckRequired \/ NextStage \/ Finish \/ UNCHANGED vars) => PromptInv'
<1> SUFFICES ASSUME PromptInv, CheckRequired \/ NextStage \/ Finish \/ UNCHANGED vars
             PROVE  PromptInv'
  OBVIOUS
<1>1. UNCHANGED <<items, fixed, protectedIndex, usage, dropped, forced, rose>>
  BY DEF CheckRequired, NextStage, Finish, vars
<1>2. /\ Kept' /\ Counted' /\ DropsInOrder'
      /\ \A s \in 1 .. 7 : AtFloor(s)' = AtFloor(s)
      /\ Exceeded(usage)' = Exceeded(usage) /\ Exceeded(required)' = Exceeded(required)
  BY <1>1, AdvanceInv
<1>3. PromptTypeOK /\ Settled /\ Refused
  BY DEF PromptInv
<1>4. stage' \in 0 .. 8 /\ outcome' \in {"building", "built", "refused"}
  BY <1>3 DEF PromptTypeOK, CheckRequired, NextStage, Finish, vars
<1>5. PromptTypeOK'
  BY <1>1, <1>3, <1>4 DEF PromptTypeOK, items, fixed
<1>6. Settled'
  <2>1. CASE NextStage
    <3>1. stage \in 1 .. 7 /\ stage' = stage + 1
            /\ (~Over(StageRegion[stage]) \/ AtFloor(stage))
      BY <2>1 DEF NextStage
    <3>2. StageRegion[stage] \in Optional
      BY <3>1 DEF StageRegion, Optional
    <3>3. usage[StageRegion[stage]] \in Nat /\ Budget[StageRegion[stage]] \in Nat
            /\ usage["total"] \in Nat /\ Budget["total"] \in Nat
      BY <1>3, <3>2, BudgetAssumption, BoundsAssumption
      DEF PromptTypeOK, Cost, Tokens, Region
    <3>4. \/ /\ usage[StageRegion[stage]] <= Budget[StageRegion[stage]]
             /\ usage["total"] <= Budget["total"]
          \/ AtFloor(stage)
      BY <3>1, <3>3 DEF Over
    <3>5. \A s \in 1 .. 7 : StageRegion[s]' = StageRegion[s]
      BY DEF StageRegion
    <3>6. \A s \in 1 .. 7 : s < stage' => s < stage \/ s = stage
      BY <3>1
    <3>7. usage' = usage /\ rose' = rose
      BY <1>1
    <3>8. QED
      BY <1>2, <1>3, <3>4, <3>5, <3>6, <3>7 DEF Settled
  <2>2. CASE CheckRequired
    <3>1. \A s \in 1 .. 7 : ~(s < stage')
      BY <2>2 DEF CheckRequired
    <3>2. QED
      BY <3>1 DEF Settled
  <2>3. CASE stage' = stage
    BY <1>1, <1>2, <1>3, <2>3 DEF Settled, StageRegion
  <2>4. QED
    BY <2>1, <2>2, <2>3 DEF Finish, vars
<1>7. Refused'
  BY <1>2, <1>3 DEF Refused, CheckRequired, NextStage, Finish, vars
<1>8. QED
  BY <1>2, <1>5, <1>6, <1>7 DEF PromptInv

LEMMA AlwaysInv == Spec => []PromptInv
<1>1. PromptInv /\ [Next]_vars => PromptInv'
  BY DropMemoryInv, DropTurnInv, DropLoreInv, DropPostHistoryInv, ControlInv DEF Next
<1>2. QED
  BY <1>1, InitInv, PTL DEF Spec

-----------------------------------------------------------------------------
\* When every stage is over, what exceeds a budget is required, or the counter has
\* charged more for less.
LEMMA RefusalTells == PromptInv => RefusesOnlyRequired
<1> SUFFICES ASSUME PromptInv, outcome = "refused", ~Exceeded(required), ~rose
             PROVE  FALSE
  BY DEF RefusesOnlyRequired
<1>1. PromptTypeOK /\ Kept /\ Counted /\ Settled /\ stage = 8
  BY DEF PromptInv, Refused
<1>2. PICK r \in Region \cup {"total"} : usage[r] > Budget[r]
  BY DEF PromptInv, Refused, Exceeded
<1>3. ~(required[r] > Budget[r])
  BY DEF Exceeded
<1>4. usage[r] \in Nat /\ Budget[r] \in Nat /\ required[r] \in Nat
  BY <1>1, BudgetAssumption, BoundsAssumption DEF PromptTypeOK, Cost, Tokens
<1>5. usage[r] # required[r] /\ usage[r] # 0 /\ ~(usage[r] <= Budget[r])
  BY <1>2, <1>3, <1>4
<1>6. \A s \in 4 .. 7 : r \in {"total", StageRegion[s]} => AtFloor(s)
  BY <1>1, <1>5 DEF Settled
<1>7. CASE r = "fixed"
  BY <1>1, <1>5, <1>7 DEF Counted, Consistent
<1>8. CASE r = "memory"
  <2>1. memory = 0
    BY <1>1, <1>6, <1>8, Floors DEF StageRegion
  <2>2. QED
    BY <1>1, <1>5, <1>8, <2>1 DEF Counted, Consistent
<1>9. CASE r = "history"
  <2>1. Bare
    BY <1>1, <1>6, <1>9, Floors, LastFloorBare DEF StageRegion
  <2>2. QED
    BY <1>1, <1>5, <1>9, <2>1 DEF Counted, Consistent
<1>10. CASE r = "lore"
  <2>1. lore = {}
    BY <1>1, <1>6, <1>10, Floors DEF StageRegion
  <2>2. QED
    BY <1>1, <1>5, <1>10, <2>1 DEF Counted, Consistent
<1>11. CASE r = "post_history"
  <2>1. ~post
    BY <1>1, <1>6, <1>11, Floors DEF StageRegion
  <2>2. QED
    BY <1>1, <1>5, <1>11, <2>1 DEF Counted, Consistent
<1>12. CASE r = "total"
  <2>1. memory = 0 /\ Bare /\ lore = {} /\ ~post
    BY <1>1, <1>6, <1>12, Floors, LastFloorBare
  <2>2. QED
    BY <1>1, <1>5, <1>12, <2>1 DEF Counted, Consistent
<1>13. QED
  BY <1>7, <1>8, <1>9, <1>10, <1>11, <1>12 DEF Region, Optional

\* For every history: the last completed turn is where build looks for it, however many
\* turns are dropped before and after it.
THEOREM ProtectedKept == Spec => []ProtectedStays
<1>1. PromptInv => ProtectedStays
  BY LengthType DEF PromptInv, Kept, ProtectedStays
<1>2. QED
  BY <1>1, AlwaysInv, PTL

\* For every budget and every counter: a prompt is refused only if what is required does
\* not fit, or the counter has charged more for a shorter prompt.
THEOREM RefusalsNeeded == Spec => []RefusesOnlyRequired
  BY RefusalTells, AlwaysInv, PTL

\* Units are dropped in the order of their priority: memories to one, turns to the
\* history floor, the last memories, the other turns, lore, the closing instructions.
THEOREM DropsOrdered == Spec => []DropsInOrder
<1>1. PromptInv => DropsInOrder
  BY DEF PromptInv
<1>2. QED
  BY <1>1, AlwaysInv, PTL
===============================================================================
