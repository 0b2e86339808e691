CONSTANTS
  NoKey = NoKey
  p1 = p1
  p2 = p2
  Pods = {p1, p2}
  NInit = 0
  NMain = 1
  Policy = "Never"
  ExitKinds = {"succeeded", "failed"}
  HasLiveness = FALSE
  MaxInc = 1
  MaxCalls = 1
  MaxCrashes = 1
  MaxLosses = 1
  MaxFaults = 5
SPECIFICATION HistorySpec
SYMMETRY PodSymmetry
INVARIANT StartsBounded
CHECK_DEADLOCK FALSE
