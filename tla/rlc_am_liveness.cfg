SPECIFICATION FairSpec
CONSTANTS
  Modulus = 4
  WindowSize = 2
  SduSize = 2
  MaxTxBuffer = 4
  Sizes = {1,2}
  NackRoom = {1}
  AlwaysBigEnough = {TRUE}
  MaxSdus = 2
  MaxInFlight = 2
PROPERTIES AllDelivered AllAcknowledged
CHECK_DEADLOCK FALSE
