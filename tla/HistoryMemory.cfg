CONSTANTS
  Conversation = {c1}
  Request = {q1, q2, q3}
  Fingerprint = {f1, f2}
  Answer = {a1}
  Tool = {k1}
  Submission <- Memories
  MaxRevision = 5
SPECIFICATION Spec
SYMMETRY Symmetry
INVARIANTS NoEchoedSource TurnIdentity ReceiptsFinal NoticesCoverErased
PROPERTIES EveryWithdrawalRevokes KeepsLedger
CHECK_DEADLOCK FALSE
