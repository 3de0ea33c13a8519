SPECIFICATION MCSpec
CONSTANTS
  i1 = i1
  i2 = i2
  Kinds = {"g", "p"}
  NumEntries = 2
  Ids = {i1, i2}
  Groups = {1}
  Objects <- MCObjects
  MaxObjects = 2
  MaxPrint = 1
  Addresses = {}
  Iids = {}
  Fids = {}
  Modes = {}
  Reading = FALSE
  MaxPending = 0
INVARIANTS TablesSound UnloadedEmpty AdapterSound
