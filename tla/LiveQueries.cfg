CONSTANTS
  Clients = 2
  MaxSelections = 2
SPECIFICATION FairSpec
INVARIANTS
  OneEvaluation
  ForksInStep
PROPERTIES
  NothingLingers
  SelectionsArrive
CHECK_DEADLOCK FALSE
