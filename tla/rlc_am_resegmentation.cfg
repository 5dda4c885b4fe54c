SPECIFICATION FairSpec
CONSTANTS
  Modulus = 4
  WindowSize = 2
  SduSize = 2
  MaxTxBuffer = 4
  Sizes = {0, 1, 2}
  NackRoom = {1, 2}
  AlwaysBigEnough = {FALSE}
  MaxSdus = 1
  MaxInFlight = 2
PROPERTIES DeliveredWithSegments
CHECK_DEADLOCK FALSE
