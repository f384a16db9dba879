CONSTANTS
  Documents = 0
  MaxTasks = 1
SPECIFICATION Spec
INVARIANTS
  FailedIsNotAnalysed
CHECK_DEADLOCK FALSE
