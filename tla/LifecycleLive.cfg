CONSTANTS
  NoKey = NoKey
  p1 = p1
  Pods = {p1}
  NInit = 1
  NMain = 1
  Policy = "Always"
  ExitKinds = {"succeeded", "failed"}
  HasLiveness = TRUE
  MaxInc = 2
  MaxCalls = 2
  MaxCrashes = 1
  MaxLosses = 1
  MaxFaults = 3
SPECIFICATION FairSpec
INVARIANTS
  TrackedIsStored
  FailureKillsNothing
PROPERTIES
  HandlersEnd
  TerminatingEnds
  ExitedIsRestarted
  DeletedIsReleased
CHECK_DEADLOCK FALSE
