CONSTANTS
  Capacity = 7
  Sizes = {1, 2, 3}
SPECIFICATION Spec
PROPERTIES
  ImplementsAllocator
