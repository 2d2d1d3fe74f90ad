SPECIFICATION Spec
CONSTANTS
  Groups = {g1}
  Connections = {c1}
  MaxRequests = 2
INVARIANTS ConnectFindsCallbacks
CHECK_DEADLOCK FALSE
