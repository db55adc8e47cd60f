CONSTANTS
  Conversation = {c1}
  Request = {q1, q2}
  Fingerprint <- Plain
  Answer = {a1, a2}
  Tool = {}
  Submission <- Submissions
  MaxRevision = 3
  Task = {p1, p2}
  Grants <- AnyGrants
SPECIFICATION CompletionSpec
SYMMETRY Symmetry
INVARIANTS SnapshotNamesHistory NoSecondInference AnswersAgree
PROPERTIES ConsentGoverns
CHECK_DEADLOCK FALSE
