SPECIFICATION FairSpec
CONSTANTS
  UE = {u1}
  Cell <- MCCell
  Sinr <- MCSinrCoarse
  OutageThreshold <- MCOutageThreshold
  SinrThresholdDifference <- MCSinrThresholdDifference
  HandoverModes <- MCThreshold
  FirstSlot = 1
  MaxChanges = 4
PROPERTIES FirstConnectionOrdered
