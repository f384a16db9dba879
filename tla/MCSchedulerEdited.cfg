CONSTANTS
  Keep = Keep
  Tick = {t1}
  Patch = {p1}
  Crons = {{1, 2, 3}}
  Horizon = 2
  MaxCrashes = 0
  MaxUnanswered = 0
SPECIFICATION Spec
INVARIANT AtMostOnceAnyway
