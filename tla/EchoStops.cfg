SPECIFICATION Spec
CONSTANTS
  Peers = {p1, p2}
  Workers = {w1, w2}
  Environments = {{"signal"}}
  MaxReads = 1
  MaxSignals = 1
  MaxAccepts = 1
INVARIANTS CorrectShutdown
CHECK_DEADLOCK FALSE
