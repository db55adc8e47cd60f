CONSTANTS
  Chunk <- ChunksSent
  MaxBytes <- Limit
  MaxChunks = 3
  MaxCancels = 3
SPECIFICATION Spec
INVARIANT BudgetExact
PROPERTY EndsReleased
CHECK_DEADLOCK FALSE
