SPECIFICATION FairSpec
CONSTANTS
  Clients = {c1, c2, c3}
  Workers = {w1, w2}
  Paths = {file, other}
  Files = {file}
  MaxRequests = 1
  Deviations = {}
INVARIANTS EndsForCause RepliesMatch PendingIsOpen
PROPERTIES AllIsFreed ImplementsExchange
CHECK_DEADLOCK FALSE
