SPECIFICATION MCSpec
CONSTANTS
  Clients = {c1, c2, c3}
  NumRecords = 2
  W = 2
  SSNs <- MCSSNs
  RplwdoValues <- MCRplwdoValues
  RplwdoDefault = 2
  Freshness = 1
  MaxTime = 1
  ShiftOutcomes = {"masked"}
  MaxBody = 20
  MaxItem = 5
SYMMETRY ClientSymmetry
INVARIANTS RecordsSound WindowExact NoReplay BodiesSound CallbacksKept
PROPERTIES EvictsLeastRecent RouterSound
