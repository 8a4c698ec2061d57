CONSTANTS
  Limit = 3
  PipeCap = 7
  MaxBytes = 11
SPECIFICATION LiveSpec
INVARIANTS
  TypeOK
  KeepsTail
PROPERTIES
  SuccessIsWhole
  EveryRunEnds
CHECK_DEADLOCK FALSE
