CONSTANT
  MaxCancels = 3
SPECIFICATION Spec
INVARIANTS SavedKnowingly StreamsOwned ChildrenFinish
PROPERTY RequestEnds
CHECK_DEADLOCK FALSE
