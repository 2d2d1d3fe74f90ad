SPECIFICATION FairSpec
CONSTANTS
  Connections = {c1, c2, c3}
  Transactions = {t1, t2}
INVARIANTS
  CountersExact
  ConnectionsInTheirLists
  DeletedWhenUnused
PROPERTIES
  OnDestroyNeverLost
  ShellGoneEndsInDeletion
CHECK_DEADLOCK FALSE
