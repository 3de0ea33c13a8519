SPECIFICATION FairSpec
CONSTANTS
  Clients = {c1, c2}
  Writers = {c2}
  Strict = {c2}
  HistorySize = 1
  Refresh = 2
  MaxRetransmit = 2
  MaxRequests = 2
  MaxChanges = 2
  MaxFaults = 1
  MaxPolls = 1
INVARIANTS ObserversTold
PROPERTIES GoneForgotten
CHECK_DEADLOCK FALSE
