CONSTANTS
  SuccessThreshold = 2
  FailureThreshold = 2
  InitialDelay = 1
  CountCap = 2
  MaxReuse = 1
  MaxFaults = 1
SPECIFICATION FairSpec
INVARIANT TypeOK
PROPERTIES
  ReadyIsEarned
  OnlyFailuresKill
  HealthyGetsReady
  UnhealthyIsKilled
