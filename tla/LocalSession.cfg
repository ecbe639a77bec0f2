CONSTANTS
  Subscriptions = {s1}
  Writers = {w1, w2}
  Parts = 2
  Values = {a, b}
  MaxCommits = 3
  Nothing = Nothing
SPECIFICATION FairSpec
INVARIANTS
  TypeOK
  WokenSeesCommit
PROPERTIES
  OnlyNewSelections
  AnnouncementAnswered
CHECK_DEADLOCK FALSE
