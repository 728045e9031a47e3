CONSTANTS
  Half = 2
  Obj = {1, 2, 3, 4}
  Id = {i1, i2}
  NumSlots = 2
  Name = {g}
  Null = Null
  MaxDepth = 2
SPECIFICATION Spec
INVARIANTS
  TypeOK
  PathsAlwaysAgree
  ScannedIsComplete
  OnlySharingIsLost
PROPERTIES
  OperationsReturn
CHECK_DEADLOCK FALSE
