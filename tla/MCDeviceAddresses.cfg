SPECIFICATION Spec
CONSTANTS
  i1 = i1
  i2 = i2
  Kinds = {"g"}
  NumEntries = 1
  Ids = {i1}
  Groups = {1}
  Objects <- MCFewObjects
  MaxObjects = 1
  MaxPrint = 2
  Addresses = {1}
  Iids = {1, 2}
  Fids = {1}
  Modes = {TRUE, FALSE}
  Reading = TRUE
  MaxPending = 1
INVARIANTS RuntimeListens FactoryResetComplete FingerprintTells
