CONSTANTS
  MaxMemory = 3
  MaxTurns = 3
  LoreKeys = {1, 2}
  MaxTokens = 1
  MemoryFloor = 2
  HistoryFloor = 2
  Budget <- NothingMore
SPECIFICATION Spec
CHECK_DEADLOCK FALSE
INVARIANTS ProtectedStays RefusesOnlyRequired DropsInOrder
