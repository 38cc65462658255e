SPECIFICATION Spec
CONSTANTS
  Workers = {1, 2}
  Deployments <- TimedWaitOrSkewed
  Signals = {1, 2}
  Name <- OneName
  Invalid = {2}
  MaxAttempts = 1
  LeaseMs = 2
  SleepMs = 1
  WaitMs = 1
  BackoffMs = 1
  RecheckMs = 1
  StartDelay = 0
  Timely = TRUE
  MaxVersion = 2
INVARIANT AnswersMatchCalls
PROPERTY SignalWins
CHECK_DEADLOCK FALSE
