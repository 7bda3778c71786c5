SPECIFICATION FairSpec
CONSTANTS
  Peers = {p1, p2}
  Workers = {w1, w2}
  Environments = {{}, {"hangup", "frame_reused"}, {"accept_error"}, {"signal"}}
  MaxReads = 2
  MaxSignals = 2
  MaxAccepts = 2
INVARIANTS StopsForCause AcceptInv ReadsAnsweredOnce
PROPERTIES PeersAreServed SignalEnds
CHECK_DEADLOCK FALSE
