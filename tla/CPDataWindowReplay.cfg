\* Two kills, each right after a milestone in the middle of a window.
SPECIFICATION Spec
CONSTANTS
    CpSize = 3
    GradAccum = 2
    SaveIter = 2
    MaxIter = 5
    MaxRuns = 3
    MaxStops = 0
INVARIANTS
    ResumeAvoidsReplay
CHECK_DEADLOCK FALSE
