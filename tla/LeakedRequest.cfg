SPECIFICATION Spec
CONSTANT MaxRequests = 2
INVARIANTS NoRequestLeaked
CHECK_DEADLOCK FALSE
