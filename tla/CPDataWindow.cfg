\* Three ranks, windows of three microsteps, two of them an iteration: milestones fall into every
\* slot of a window, wall-clock saves on its end; two restarts and an end of data on one rank.
SPECIFICATION FairSpec
CONSTANTS
    CpSize = 3
    GradAccum = 2
    SaveIter = 2
    MaxIter = 7
    MaxRuns = 3
    MaxStops = 1
INVARIANTS
    NoDesync
    OwnersTakeTurns
    NoReplay
PROPERTIES
    TrainingEnds
CHECK_DEADLOCK FALSE
