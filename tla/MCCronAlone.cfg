SPECIFICATION LiveSpec
CONSTANTS
  Workers = {1}
  Crons = {1, 2}
  Flows = {1}
  Calendar <- Summer
  Expressions <- Written
  Meant <- Intended
  Definitions <- Once
  DueLimit = 2
  MaxTime = 1
PROPERTIES MovesOn FiredRunsEnd
