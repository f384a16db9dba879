CONSTANTS
  NoRun = NoRun
  Run = {r1}
  Request = {q1}
  MaxActors = 3
  MaxPatches = 1
  MaxSwept = 1
SPECIFICATION Spec
INVARIANT PendingIsResolvable
SYMMETRY Symmetry
CHECK_DEADLOCK FALSE
