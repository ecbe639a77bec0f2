CONSTANTS
  Keys = {1, 2, 3, 4, 5}
  Values = {1, 2}
  Small <- SmallDigest
  MaxLevel = 3
SPECIFICATION WriterSpec
INVARIANTS
  HistoryIndependent
  DescentReachesAll
