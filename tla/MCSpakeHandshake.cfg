SPECIFICATION FairSpec
CONSTANTS
  Clients = {c1, c2}
  c1 = c1
  c2 = c2
  Others = {c2}
  Knows = {c1}
  MaxFailed = 1
  HasParameters = FALSE
  MaxRequests <- MCMaxRequests
  MaxCopies = 1
  MaxTotal = 5
INVARIANTS  RetryAfterKept
PROPERTIES HandshakesEnd
CHECK_DEADLOCK FALSE
