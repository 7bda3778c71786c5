SPECIFICATION FairSpec
CONSTANTS
  Values = {1, 2, 3}
  MaxLength = 4
INVARIANTS MergeInv ReturnsSorted
PROPERTIES Sorts
CHECK_DEADLOCK FALSE
