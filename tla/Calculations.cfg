CONSTANTS
  Question <- Questions
  MaxTexts = 4
  MaxSize = 8
  Top = 5
  Unnamed = Unnamed
  Blank = Blank
  Unset = Unset
  MaxDepth = 4
  MaxVisited = 6
  MaxBytes = 1
  Value <- Values
  NoText = NoText
  NoHash = NoHash
SPECIFICATION Spec
INVARIANTS RankingSound LoreSound NothingHidden VerdictsEarned
CHECK_DEADLOCK FALSE
