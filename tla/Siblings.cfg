CONSTANTS
  MajorRanges <- TwoMajors
  DigitRanges <- TwoPairs
  Biases <- FourBiases
  MaxItems = 6
SPECIFICATION Spec
INVARIANTS
  KeysWellFormed
  KeysInOrder
CHECK_DEADLOCK FALSE
