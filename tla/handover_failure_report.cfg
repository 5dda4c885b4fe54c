SPECIFICATION FairSpec
CONSTANTS
  UE = {u1}
  Cell = {2, 3}
  Admitting = {2, 3}
  Preambles = 1
  Bearers = 1
  MaxOrders = 1
PROPERTIES
  FailureReported
CHECK_DEADLOCK FALSE
