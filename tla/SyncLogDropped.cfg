CONSTANTS
  Pushes = {u1}
  Pulls = {}
  Frames = 2
  HeadLen = 2
  FrameLen = 3
  MaxCrashes = 0
SPECIFICATION Spec
INVARIANTS
  CompleteFramesDecoded
CHECK_DEADLOCK FALSE
