CONSTANTS
  Entities = {e1, 1}
  Attributes = {one, "db/source"}
  Values = {v1, null, 1}
  Any = Any
  Null = null
  Single = {one}
  Atomic = FALSE
  MaxCommits = 2
  MaxEdits = 3
  Falsy = {null}
  MaxLogged = 2
SPECIFICATION Spec
INVARIANTS
  ScansSelect
  IndexesAgree
  SingleValued
  CausesRecorded
  ReplicasAgree
PROPERTIES
  ImplementsFactSet
CHECK_DEADLOCK FALSE
