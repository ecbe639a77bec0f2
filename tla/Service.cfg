CONSTANTS
  Requests = {r1, r2, r3}
  b1 = b1
  q1 = q1
  o1 = o1
  Blobs = {b1}
  Queries = {q1, q2}
  Repeating = {q2}
  Others = {o1}
  Edits <- ThreeEdits
  None = None
  MaxCrashes = 1
SPECIFICATION Spec
SYMMETRY Symmetry
INVARIANTS
  TypeOK
  ContentBehindFacts
  AcknowledgedKept
  OnlyQueriesUntold
PROPERTIES
  RedirectServed
CHECK_DEADLOCK FALSE
