CONSTANTS
  Pushes = {u1, u2}
  Pulls = {p1}
  Frames = 2
  HeadLen = 2
  FrameLen = 3
  MaxCrashes = 1
SPECIFICATION FairSpec
INVARIANTS
  NoByteSkipped
  OnlyWholeFramesRepeat
  LoggedInOrder
PROPERTIES
  PullsCatchUp
CHECK_DEADLOCK FALSE
