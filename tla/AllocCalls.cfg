SPECIFICATION FairSpec
CONSTANTS
  memory_size = 16
  memory_block = 4
  Sizes = {1, 20, 60}
  Ops = {"Alloc", "ReAlloc", "Free"}
  MaxCalls = 7
INVARIANTS PoolInv FreeSound WalksInside
PROPERTIES CallReturns
CHECK_DEADLOCK FALSE
