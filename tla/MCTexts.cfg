SPECIFICATION TextsSpec
CONSTANTS
  Contents <- MCContents
  MaxUnsigned = 255
  MaxSigned = 127
  Numbers <- MCNumbers
  Queries <- MCQueries
  Documents <- MCDocuments
INVARIANTS
  ReadsBack
  IntegersAreExact
  DoublesMeanTheirText
  QueryReadsBack
  LocationByPieces
CHECK_DEADLOCK FALSE
