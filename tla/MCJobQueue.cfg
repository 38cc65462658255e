SPECIFICATION Spec
CONSTANTS
  r1 = r1
  r2 = r2
  w1 = w1
  w2 = w2
  Runs = {r1, r2}
  Workers = {w1, w2}
  Serves <- MCServes
  Priority <- MCPriority
  BatchMax <- MCBatchMax
  LeaseMs = 2
  Delays = {0, 1}
  MaxTime = 4
  MaxSeq = 3
  MaxVersion = 2
INVARIANTS TypeOK WakeNotLost SingleHolder
PROPERTY KeepsPromise
CHECK_DEADLOCK FALSE
