SPECIFICATION FairSpec
CONSTANTS
  Groups = {g1, g2}
  Connections = {c1, c2}
  MaxRequests = 3
INVARIANTS
  CountersExact
  DeletedWhenUnused
  WaitersAreServed
  PatientConnects
PROPERTIES
  ReleasedEnds
CHECK_DEADLOCK FALSE
