SPECIFICATION Spec
CONSTANTS
  Rank <- MCRank
  MaxUnsigned = 31
  MaxSigned = 15
  MaxUint32 = 7
  MaxInt32 = 3
  Precision = 3
  Doubles <- MCDoubles
  MaxUlps = 1
  Numerals <- MCNumerals
  Descriptors <- MCDescriptors
  EnumValues <- MCEnumValues
  Pools <- MCPools
  JsonValues <- MCJsonValues
  NormalForm <- Normalized
  Rewritten <- Reread
  MeaningOf <- Meaning
INVARIANT EqualityIsSymmetric
CHECK_DEADLOCK FALSE
