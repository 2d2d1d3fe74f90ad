SPECIFICATION RoundTripSpec
CONSTANTS
  Rank <- MCRank
  Scalars = {"0"}
  MaxDepth = 9
  Roots <- MCRoots
  Inputs <- MCInputs
  Indents = {0, 2}
INVARIANTS
  ReadsExactlyJson
  RoundTrip
CHECK_DEADLOCK FALSE
