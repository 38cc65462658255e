SPECIFICATION Spec
CONSTANTS
  Clients = {1, 2, 3}
  Window = 2
  Cases <- AllCases
INVARIANTS TypeOK WakeKept SingleHolder WonOnce TimerKept CronTimes
PROPERTIES KeepsBook AnswersTrue ClaimFinds
CHECK_DEADLOCK FALSE
