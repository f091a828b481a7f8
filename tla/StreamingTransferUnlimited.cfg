\* No window: every past frame is kept, as the default configuration has it.
SPECIFICATION Spec
CONSTANTS
    Window = 0
    Sinks = 0
    NumFrames = 3
    Gens = {g1}
    BatchSizes <- SmallBatches
    MaxRestarts = 1
    None = None
INVARIANTS
    AttendsToItsEpisode
CHECK_DEADLOCK FALSE
