SPECIFICATION FairSpec
CONSTANT MaxRequests = 4
INVARIANTS
  TypeOK
  ResponsesInRequestOrder
  NoReadyResponseStranded
  LastOneOutDeletes
  CallbacksFindConnectionAlive
  AssertionsHold
PROPERTIES
  ImplementsContract
  EveryRequestAnswered
  ImplementsPipeline
CHECK_DEADLOCK FALSE
