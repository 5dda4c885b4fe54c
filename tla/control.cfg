SPECIFICATION FairSpec
CONSTANTS
  NumCells = 3
  BsOn = 2
  BsIdle = 0
  Controllers <- MCControllers
  MaxGoodUes = 1
  MaxTime = 2
  UE = {u1, u2}
  Attached = {u1}
  SemaphoreModes = {TRUE, FALSE}
  ScheduleModes = {TRUE, FALSE}
  StalePosts = 0
  StateFileOpens = {TRUE}
  AgentLines <- MCAgentLines
  MaxLines = 2
  MaxBatches = 2
INVARIANTS TypeOK FreshObservation EvictedWhenBarred ScheduleCarriedOut ActiveTimeExact DeviceFollowsBar KeepsBestCells
PROPERTIES BatchesArrive EveryBatchApplied
CHECK_DEADLOCK FALSE
