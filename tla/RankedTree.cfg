CONSTANTS
  Keys = {1, 2, 3, 4, 5}
  Values = {v1, v2}
  Rank <- FewRanks
  MaxRank = 4
  None = None
  Ranges <- SomeRanges
SPECIFICATION RankedFairSpec
INVARIANTS
  SameRoot
  ReadsWhatWasSet
PROPERTIES
  ReadsEnd
CHECK_DEADLOCK FALSE
