CONSTANTS
  NoPod = NoPod
  NoNode = NoNode
  NMain = 2
  Probed = {1}
  MaxInc = 2
  MaxQueue = 1
  MaxBehind = 2
  MaxFaults = 2
  MaxOthers = 2
SPECIFICATION StatusSpec
INVARIANT StatusTypeOK
PROPERTIES
  ReadyIsPublished UnreadyIsPublished RunningIsPublished FailureIsTold
  OthersAreKept NodeComesBack
CHECK_DEADLOCK FALSE
