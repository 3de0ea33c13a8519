SPECIFICATION Spec
CONSTANTS
  Msgs = {m1, m2, m3, m4, m5}
  NoMsg = NoMsg
  Sends <- SendKinds
  ContextFound = {TRUE, FALSE}
  MaxQueue = 3
SYMMETRY Buffers
INVARIANTS BuffersSound TransactionsKeepMessage
CHECK_DEADLOCK FALSE
