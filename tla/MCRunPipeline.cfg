CONSTANTS
  Documents = 2
  MaxTasks = 3
SPECIFICATION FairSpec
INVARIANTS
  TypeOK
  OnlyPassedDataLoaded
  RowTellsTheTruth
  ReturnedIsPriced
  CallsBounded
PROPERTIES
  KeepsCostLedger
  EndsAtLast
CHECK_DEADLOCK FALSE
