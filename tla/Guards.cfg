CONSTANTS
  Policy = {p1, p2}
  Classifier = {k1}
  Embedding = {e1}
  Retrieval = {r1, r2}
  Store = {s1}
  Context = {x1}
  Memory = {m1, m2}
  None = None
  Grants <- Levels
  MaxChanges = 2
  MaxCounts = 2
SPECIFICATION Spec
SYMMETRY Symmetry
INVARIANTS SentSafely RefusedForCause
CHECK_DEADLOCK FALSE
