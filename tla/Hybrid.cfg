CONSTANTS
  Calls = 4
SPECIFICATION FairSpec
INVARIANTS
  TypeOK
  SameOrder
  RootKept
PROPERTIES
  ImplementsSerial
  EveryCallEnds
CHECK_DEADLOCK FALSE
