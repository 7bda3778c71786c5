SPECIFICATION FairSpec
CONSTANTS
  Spurious = 2
INVARIANTS SignalInv ReportsInOrder OutlivesUse
PROPERTIES Finishes
CHECK_DEADLOCK FALSE
