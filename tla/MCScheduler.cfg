CONSTANTS
  Keep = Keep
  Tick = {t1, t2}
  Patch = {p1}
  Crons = {{1, 2, 3, 4}, {2, 4}}
  Horizon = 3
  MaxCrashes = 1
  MaxUnanswered = 1
SPECIFICATION Spec
INVARIANTS
  AtMostOnce
  NoSilentMiss
PROPERTY KeepsLedger
SYMMETRY Symmetry
