SPECIFICATION FairSpec
CONSTANTS
  Blocks = 3
  Gets = {g1, g2}
  MaxServed = 2
  MaxMid = 5
  MaxUpload = 2
 
PROPERTIES TransfersEnd
CHECK_DEADLOCK FALSE
