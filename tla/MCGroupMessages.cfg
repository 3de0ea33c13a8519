SPECIFICATION FairSpec
CONSTANTS
  a = a
  b = b
  c = c
  Devices = {a, b, c}
  Got <- MCGot
  Scopes <- MCScopes
  Writers <- MCWriters
  MaxWrites = 2
  MaxRestarts = 1
  MaxReloads = 1
INVARIANTS ValuesArrive
PROPERTIES MessagesEnd
CHECK_DEADLOCK FALSE
