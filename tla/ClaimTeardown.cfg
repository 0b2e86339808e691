CONSTANTS
  NoKey = NoKey
  p1 = p1
  Pods = {p1}
  NInit = 0
  NMain = 1
  Policy = "Always"
  ExitKinds = {"succeeded", "failed"}
  HasLiveness = FALSE
  MaxInc = 1
  MaxCalls = 0
  MaxCrashes = 0
  MaxLosses = 0
  MaxFaults = 0
SPECIFICATION Spec
PROPERTY NoRestartDuringTeardown
CHECK_DEADLOCK FALSE
