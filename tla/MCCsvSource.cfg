CONSTANTS
  Loader = {l1, l2}
  File <- MCFile
  MaxHeaderScan = 2
SPECIFICATION CSSpec
INVARIANT LimitIsRestored
CHECK_DEADLOCK FALSE
