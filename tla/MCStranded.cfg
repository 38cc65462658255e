SPECIFICATION Spec
CONSTANTS
  Workers = {1, 2}
  Deployments <- TimedWait
  Signals = {1}
  Name <- OneName
  Invalid = {}
  MaxAttempts = 1
  LeaseMs = 1
  SleepMs = 1
  WaitMs = 1
  BackoffMs = 1
  RecheckMs = 1
  StartDelay = 0
  Timely = TRUE
  MaxVersion = 2
INVARIANT Recoverable
CHECK_DEADLOCK FALSE
