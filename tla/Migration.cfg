CONSTANTS
  Client = {c1, c2}
  Found <- AnyFound
  None = None
  MaxFaults = 2
SPECIFICATION Spec
INVARIANTS UpOnCurrent SupportedAccepted
PROPERTIES OnlyToCurrent EveryStoreComesUp
CHECK_DEADLOCK FALSE
