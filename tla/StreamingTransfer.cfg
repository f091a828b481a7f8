\* A window of three frames, one of them pinned, over six frames: entries roll
\* out and sinks are mirrored in each episode; two generations in turn.
SPECIFICATION Spec
CONSTANTS
    Window = 3
    Sinks = 1
    NumFrames = 6
    Gens = {g1, g2}
    BatchSizes <- SmallBatches
    MaxRestarts = 2
    None = None
INVARIANTS
    AttendsToItsEpisode
    RingHasOneOwner
    OnlyOverlapFails
CHECK_DEADLOCK FALSE
