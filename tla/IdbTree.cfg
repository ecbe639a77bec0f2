CONSTANTS
  Calls = 4
  Abortable = {2, 3}
  MaxEdits = 2
SPECIFICATION FairSpec
INVARIANTS
  SerialUnlessAbandoned
  StoredAsTold
PROPERTIES
  BegunInCallOrder
  ClosedForGood
  EveryCallReturns
CHECK_DEADLOCK FALSE
