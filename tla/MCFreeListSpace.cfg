CONSTANTS
  Capacity = 6
  Sizes = {1, 2, 3}
SPECIFICATION Spec
INVARIANTS
  TypeOK
  HeapWalkable
  FreeListAgrees
  SortedIsTrue
PROPERTIES
  CoalesceExposesHoles
  ImplementsAllocator
