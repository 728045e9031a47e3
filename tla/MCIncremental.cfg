CONSTANTS
  Obj = {o1, o2, o3}
  NumSlots = 1
  Name = {g}
  Null = Null
  MaxDepth = 2
  MinThreshold = 2
  MarkBudget = 1
  White = White
  Grey = Grey
  Black = Black
SPECIFICATION Spec
INVARIANTS
  TypeOK
  IdleIsWhite
  OnlyStoresBreakInvariant
  OldGarbageStaysWhite
PROPERTIES
  OnlyStoredEdgesLose
  OperationsReturn
  CyclesEnd
CHECK_DEADLOCK FALSE
