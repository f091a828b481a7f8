SPECIFICATION FairSpec
CONSTANTS
  MaxIter = 4
  SaveIterOf <- SaveIterLowered
  KeepLast = 1
  Filesystem = TRUE
  MaxRuns = 2
  MaxFailures = 1
INVARIANTS
  HistoryIsNewest
  WindowKept
PROPERTIES
  NewestGoodKept
  MilestonesKept
  InterruptedFinished
