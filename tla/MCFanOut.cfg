SPECIFICATION Spec
CONSTANTS
  Kids = {1, 2}
  Scenarios <- Troubled
  ChunkSize = 1
  Workers = {1, 2}
  User = User
  KeepKids = TRUE
ACTION_CONSTRAINT InTurn
INVARIANTS TypeOK JoinWakes
PROPERTY KeepsPromise
CHECK_DEADLOCK FALSE
