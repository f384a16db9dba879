CONSTANTS
  TRun = {r1}
  Erasure = {e1}
  SweepJob = {w1}
  MaxOperations = 2
SPECIFICATION TDSpec
INVARIANT SweepInsideWindow
CHECK_DEADLOCK FALSE
