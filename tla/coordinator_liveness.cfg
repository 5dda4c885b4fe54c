SPECIFICATION FairSpec
CONSTANTS
  UE = {u1}
  Cell <- MCCell
  Sinr <- MCSinrCoarse
  OutageThreshold <- MCOutageThreshold
  SinrThresholdDifference <- MCSinrThresholdDifference
  HandoverModes <- MCTttModes
  FirstSlot = 1
  MaxChanges = 5
PROPERTIES LeavesBarredCell ReturnsFromLte FirstConnectionOrdered
