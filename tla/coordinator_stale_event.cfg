SPECIFICATION Spec
CONSTANTS
  UE = {u1}
  Cell <- MCCell
  Sinr <- MCSinr
  OutageThreshold <- MCOutageThreshold
  SinrThresholdDifference <- MCSinrThresholdDifference
  HandoverModes <- MCTttModes
  FirstSlot = 1
  MaxChanges = 6
INVARIANTS EventSourceServing
