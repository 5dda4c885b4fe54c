SPECIFICATION FairSpec
CONSTANTS
  Modulus = 8
  WindowSize = 4
  SduSize = 3
  MaxTxBuffer = 3
  Sizes = {1}
  NackRoom = {2}
  AlwaysBigEnough = {TRUE}
  MaxSdus = 1
  MaxInFlight = 2
PROPERTIES DeliveredDespiteLosses
CHECK_DEADLOCK FALSE
