CONSTANTS
  NoKey = NoKey
  p1 = p1
  Pods = {p1}
  NInit = 2
  NMain = 2
  Policy = "Always"
  ExitKinds = {"succeeded", "failed"}
  HasLiveness = TRUE
  MaxInc = 2
  MaxCalls = 0
  MaxCrashes = 0
  MaxLosses = 0
  MaxFaults = 0
SPECIFICATION HistorySpec
INVARIANTS
  TypeOK
  ContainersMatchTracking
PROPERTIES
  InitsBeforeMains
  RemovedAfterCleanup
  EmptyDirIsFresh
CHECK_DEADLOCK FALSE
