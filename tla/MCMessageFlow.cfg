SPECIFICATION FairSpec
CONSTANTS
  NumEvents = 1
  MaxMsgs = 2
  InKinds = {"plain", "oscore"}
  AppTimer = TRUE
  IfChanges = {"up", "down"}
 
PROPERTIES ServiceSpec Served
