CONSTANTS
  c = c1
  i = r1
  j = r2
  Conversation = {c1}
  Request = {q1, q2, q3}
  Fingerprint = {f1}
  Answer = {a1}
  Tool = {}
  Submission <- Submissions
  MaxRevision = 4
  RecordId = {r1, r2}
  Formation = {"v1"}
  Part = {1, 2}
  Batch <- Batches
SPECIFICATION RecordsSpec
INVARIANTS ActiveIsGrounded VersionsAgree DigestsForgotten RetriesAnswered SuspensionsListed ActiveIsRetrieved
PROPERTIES NeverRevived
CHECK_DEADLOCK FALSE
