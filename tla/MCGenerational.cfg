CONSTANTS
  OldSize = 4
  NurserySizes = {1, 2}
  Obj = {1, 2, 3, 4, 5, 6}
  Id = {i1, i2}
  NumSlots = 1
  Name = {}
  Null = Null
  MaxDepth = 2
  MaxRemembered = 2
SPECIFICATION Spec
VIEW View
INVARIANTS
  TypeOK
  EveryEdgeIsRemembered
  GraphIsKept
  OldIsAccountedFor
  OnlyReservationsCorrupt
CHECK_DEADLOCK FALSE
