CONSTANTS
  Conversation = {c1}
  Request = {q1, q2, q3}
  Fingerprint <- Tools
  Answer = {a1}
  Tool = {k1, k2}
  Submission <- Submissions
  MaxRevision = 4
  Task = {p1}
  Grants <- AllGranted
SPECIFICATION CompletionSpec
SYMMETRY Symmetry
INVARIANTS HistoryStaysValid
PROPERTIES ToolPairsWhole
CHECK_DEADLOCK FALSE
