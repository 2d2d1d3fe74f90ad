SPECIFICATION FairSpec
CONSTANT MaxRequests = 4
INVARIANTS
  HeldUntilResult
  OwnResponse
  AssertionsHold
PROPERTIES
  ClosingEnds
  ImplementsContract
CHECK_DEADLOCK FALSE
