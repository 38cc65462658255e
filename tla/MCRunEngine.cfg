SPECIFICATION Spec
CONSTANTS
  Workers = {1, 2}
  Deployments <- StepThenSignal
  Signals = {1}
  Name <- OneName
  Invalid = {}
  MaxAttempts = 1
  LeaseMs = 1
  SleepMs = 1
  WaitMs = 1
  BackoffMs = 1
  RecheckMs = 1
  StartDelay = 0
  Timely = FALSE
  MaxVersion = 2
INVARIANTS TypeOK ReplaySafe SignalsConserved SignalWakes Recoverable AttemptsBounded
PROPERTY Finality
CHECK_DEADLOCK FALSE
