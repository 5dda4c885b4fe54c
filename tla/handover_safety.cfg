CONSTANTS
  UE = {u1, u2}
  Cell = {2, 3, 4}
  Admitting = {2, 3}
  Preambles = 1
  Bearers = 2
  MaxOrders = 4
SYMMETRY UeSymmetry
SPECIFICATION Spec
INVARIANTS
  TypeOK
  NoAbort
  ServedWhereRecorded
  ForwardsToUe
  PreamblesAreForJoining
  HandoverInv
PROPERTIES
  ImplementsDualConnectivity
CHECK_DEADLOCK FALSE
