SPECIFICATION FairSpec
CONSTANTS
  Works = {w1, w2, w3}
  Futures = {f1, f2}
  Threads = 2
  WaitsInCallbacks = TRUE
INVARIANTS
  RefsExact
  AssertionsHold
PROPERTIES
  WaitMeansDone
  WaitEnds
CHECK_DEADLOCK FALSE
