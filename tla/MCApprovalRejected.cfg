CONSTANTS
  NoRun = NoRun
  Run = {r1}
  Request = {q1, q2}
  MaxActors = 3
  MaxPatches = 1
  MaxSwept = 1
SPECIFICATION Spec
INVARIANT RejectedNeverWritten
SYMMETRY Symmetry
CHECK_DEADLOCK FALSE
