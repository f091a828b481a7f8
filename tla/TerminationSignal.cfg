SPECIFICATION FairSpec
CONSTANTS
    NumRanks = 3
    SaveIter = 4
    MinProgress = 3
    StartIter = 1
    MaxIter = 9
    MaxFailures = 1
    MaxDeaths = 1
INVARIANTS
    SavedMeansWritten
    SkipLosesLittle
PROPERTIES
    WrittenEndsJob
CHECK_DEADLOCK FALSE
