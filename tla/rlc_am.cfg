SPECIFICATION Spec
CONSTANTS
  Modulus = 4
  WindowSize = 2
  SduSize = 3
  MaxTxBuffer = 3
  Sizes = {1, 2}
  NackRoom = {1, 2}
  AlwaysBigEnough = {TRUE, FALSE}
  MaxSdus = 2
  MaxInFlight = 2
INVARIANTS TypeOK SenderAccounts WindowsAgree NothingForgotten ReceiverOrder AsksAgain RlcInv
PROPERTIES ReliableService
CHECK_DEADLOCK FALSE
