SPECIFICATION FairSpec
CONSTANTS
  UE = {u1, u2}
  Cell = {2, 3}
  Admitting = {2, 3}
  Preambles = 2
  Bearers = 1
  MaxOrders = 3
PROPERTIES
  HandoverEnds
CHECK_DEADLOCK FALSE
