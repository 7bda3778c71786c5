SPECIFICATION MCSpec
CONSTANTS
  Programs = {"main", "stack", "brackets"}
  Elements = {"(", "["}
  Calls = {"push_back", "push_front", "pop_back", "pop_front"}
  Sizes = {}
  StackSizes = {2, 3, 5, 8}
  MaxSize = 5
  MaxLength = 5
  Junk = "junk"
  Nothing = "nothing"
INVARIANTS RingInv StackIsOpen CompletesShortest
PROPERTIES ImplementsDeque
CHECK_DEADLOCK FALSE
