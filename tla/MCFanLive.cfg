SPECIFICATION LiveSpec
CONSTANTS
  Kids = {1, 2}
  Scenarios <- Interrupted
  ChunkSize = 1
  Workers = {1}
  User = User
  KeepKids = TRUE
PROPERTIES ChildrenEnd Completes
CHECK_DEADLOCK FALSE
