SPECIFICATION LineSpec
CONSTANTS
  MaxCopyDelay = 3
  Depths = {1, 2, 3, 4}
  Samples = {0, 1}
  Zero = 0
  IotaRange = 8
  Guarded = TRUE
  Unknown = Unknown
INVARIANTS
  ReadsExact
PROPERTY KeepsHistory
CHECK_DEADLOCK FALSE
