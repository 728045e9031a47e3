CONSTANTS
  OldSize = 6
  NurserySizes = {2}
  Obj = {1, 2, 3, 4, 5, 6, 7, 8}
  Id = {i1, i2}
  NumSlots = 1
  Name = {}
  Null = Null
  MaxDepth = 2
  MaxRemembered = 1
SPECIFICATION Spec
INVARIANT OldUsedIsCommitted
CHECK_DEADLOCK FALSE
