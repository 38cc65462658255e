SPECIFICATION LiveSpec
CONSTANTS
  Workers = {1, 2}
  Deployments <- ShortFlows
  Signals = {1}
  Name <- OneName
  Invalid = {}
  MaxAttempts = 2
  LeaseMs = 2
  SleepMs = 1
  WaitMs = 1
  BackoffMs = 1
  RecheckMs = 1
  StartDelay = 0
  Timely = TRUE
  MaxVersion = 2
PROPERTIES AlwaysAdvances SignalResolves
CHECK_DEADLOCK FALSE
