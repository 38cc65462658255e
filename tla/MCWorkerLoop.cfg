SPECIFICATION Spec
CONSTANTS
  Batch = 2
  Arrivals = 2
  Hangs = 1
INVARIANTS TypeOK NoStall GateHolds
PROPERTIES Drains Attends
