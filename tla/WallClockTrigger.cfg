\* Short and long steps, writes faster and slower than assumed, milestones in the middle of a
\* data window of two steps; a step with a write fits in the interval.  A rank that waits in a
\* broadcast alone is a deadlock.
SPECIFICATION Spec
CONSTANTS
    NumRanks = 2
    Interval = 14
    CheckEveryN = 2
    MinIterations = 2
    AssumedWrite = 3
    SampleWindow = 2
    SaveIter = 9
    CpSize = 2
    MaxIter = 18
    StepTimes = {2, 9}
    WriteTimes = {1, 5}
INVARIANTS
    RanksAgree
    SavedOnTime
    StallIsUnforeseen
