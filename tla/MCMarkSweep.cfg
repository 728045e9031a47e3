CONSTANTS
  Obj = {o1, o2, o3}
  NumSlots = 1
  Name = {g}
  Null = Null
  MaxDepth = 3
  MinThreshold = 2
  ThrashLimit = 2
SPECIFICATION Spec
INVARIANTS
  TypeOK
PROPERTIES
  OnlyMarksAndGlobalsMislead
  OperationsReturn
CHECK_DEADLOCK FALSE
