\* No writer fails or dies; two ranks look for the sentinel by themselves.
SPECIFICATION FairSpec
CONSTANTS
    NumRanks = 2
    SaveIter = 3
    MinProgress = 1
    StartIter = 0
    MaxIter = 4
    MaxFailures = 0
    MaxDeaths = 0
PROPERTIES
    EmergencySaveCompletes
CHECK_DEADLOCK FALSE
