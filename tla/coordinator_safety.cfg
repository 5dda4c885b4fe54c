SPECIFICATION Spec
CONSTANTS
  UE = {u1}
  Cell <- MCCell
  Sinr <- MCSinr
  OutageThreshold <- MCOutageThreshold
  SinrThresholdDifference <- MCSinrThresholdDifference
  HandoverModes <- MCAllModes
  FirstSlot = 1
  MaxChanges = 6
INVARIANTS TypeOK HandoverExclusive RequestFromServingCell CellsAgree PathAgrees EventHasServingCell IndInv
PROPERTIES ScheduledToAllowedCell ReturnHysteresis ImplementsDualConnectivity
