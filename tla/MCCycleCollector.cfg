CONSTANTS
  Obj = {o1, o2}
  NumSlots = 2
  Name = {g}
  Null = Null
  MaxDepth = 2
  MaxRc = 3
  MaxCandidates = 2
  MaxMissed = 1
  Black = Black
  Gray = Gray
  White = White
  Purple = Purple
SPECIFICATION Spec
INVARIANTS
  TypeOK
  CountsAreExact
  OnlyPassedOverEscape
PROPERTIES
  OnlyMissedCountsLose
  OperationsReturn
CHECK_DEADLOCK FALSE
