SPECIFICATION Spec
CONSTANTS
  memory_size = 16
  memory_block = 4
  Sizes = {1, 20, 60}
  Ops = {"Alloc", "Free"}
  MaxCalls = 5
INVARIANTS Disjoint
CHECK_DEADLOCK FALSE
