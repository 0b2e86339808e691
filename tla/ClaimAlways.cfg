CONSTANTS
  NoKey = NoKey
  p1 = p1
  Pods = {p1}
  NInit = 0
  NMain = 1
  Policy = "Always"
  ExitKinds = {"succeeded", "failed"}
  HasLiveness = FALSE
  MaxInc = 1
  MaxCalls = 1
  MaxCrashes = 0
  MaxLosses = 0
  MaxFaults = 1
SPECIFICATION FairSpec
PROPERTY AlwaysRunsAgain
CHECK_DEADLOCK FALSE
