SPECIFICATION FairSpec
CONSTANTS
  Requests = {r1, r2}
  MaxRetransmit = 2
  K = 2
  F = 0
  PeerMids = {0, 1}
  MaxId = 2
  MaxSSN = 4
  MaxEpoch = 1
INVARIANTS HandlerAtMostOnce FreshPivsDistinct ConNeverSilent
PROPERTIES RequestsEnd
CHECK_DEADLOCK FALSE
