SPECIFICATION LiveSpec
CONSTANTS
  Kids = {1, 2}
  Scenarios <- FirstWaits
  ChunkSize = 1
  Workers = {1}
  User = User
  KeepKids = TRUE
PROPERTY FastFail
CHECK_DEADLOCK FALSE
