CONSTANTS
  Keys = {1, 2, 3, 4, 5}
  Values = {v1}
  Rank <- FewRanks
  MaxRank = 4
  None = None
  Ranges <- SomeRanges
SPECIFICATION RankedSpec
INVARIANTS
  OneSegmentInVain
CHECK_DEADLOCK FALSE
