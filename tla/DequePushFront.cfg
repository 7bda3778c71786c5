SPECIFICATION MCSpec
CONSTANTS
  Programs = {"main"}
  Elements = {"(", "["}
  Calls = {"push_back", "push_front", "push_front_empty", "pop_back", "pop_front"}
  Sizes = {}
  StackSizes = {}
  MaxSize = 5
  MaxLength = 0
  Junk = "junk"
  Nothing = "nothing"
INVARIANTS WithinBuffer
CHECK_DEADLOCK FALSE
