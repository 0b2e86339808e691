CONSTANTS
  MaxBackoff = 30
  MaxRuns = 8
  MaxCalls = 1
  MaxReplaced = 1
  MaxCrashes = 1
SPECIFICATION FairSpec
INVARIANTS
  TypeOK
  LastStateIsPast
  PreviousIsPredecessor
PROPERTIES
  BackoffHonoured
  StableIsNotBackedOff
  WindowsClose
CHECK_DEADLOCK FALSE
