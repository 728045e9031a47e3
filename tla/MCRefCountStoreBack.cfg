CONSTANTS
  Obj = {o1, o2, o3}
  NumSlots = 1
  Name = {g}
  Null = Null
  NoWrite = NoWrite
  MaxDepth = 2
  MaxRc = 3
SPECIFICATION DirectSpec
INVARIANTS
  ReachableIsAllocated
