SPECIFICATION Spec
CONSTANTS
  Workers = {1, 2}
  Crons = {1}
  Flows = {1}
  Calendar <- Summer
  Expressions <- Written
  Meant <- Intended
  Definitions <- Disjoint
  DueLimit = 1
  MaxTime = 3
INVARIANTS TypeOK FiredOnce ScheduleFollowed
PROPERTIES NoneDropped
