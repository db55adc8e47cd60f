CONSTANTS
  Tables <- MCTables
  Scopes <- MCScopes
SPECIFICATION LoopSpec
INVARIANT ReturnsLeastWhole
PROPERTY LoopEnds
CHECK_DEADLOCK FALSE
