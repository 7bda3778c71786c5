SPECIFICATION MCSpec
CONSTANTS
  Clients = {c1, c2}
  Workers = {w1, w2}
  Paths = {file, other}
  Files = {file}
  MaxRequests = 2
  Deviations = {}
INVARIANTS WriteInv EachForCause EachRepliesMatch
SYMMETRY Symmetry
CHECK_DEADLOCK FALSE
