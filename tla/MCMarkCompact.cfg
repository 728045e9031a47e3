CONSTANTS
  Capacity = 3
  Obj = {1, 2, 3}
  Id = {i1, i2, i3}
  NumSlots = 1
  Name = {g}
  Null = Null
  MaxDepth = 2
  MinThreshold = 1
  ThrashLimit = 1
SPECIFICATION Spec
INVARIANTS
  TypeOK
  OnlyUnmovedGoStale
  VerdictIsRight
PROPERTIES
  CompactionIsExact
CHECK_DEADLOCK FALSE
