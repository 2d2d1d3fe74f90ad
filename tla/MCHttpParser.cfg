SPECIFICATION Spec
CONSTANTS
  RequestWires <- MCRequests
  ResponseWires <- MCResponses
INVARIANTS
  SplitInvariant
CHECK_DEADLOCK FALSE
