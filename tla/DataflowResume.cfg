SPECIFICATION Spec
CONSTANTS
    captions = captions
    videos = videos
    clips = clips
    Loaders <- MCLoaders
    NumWorkers = 2
    DatasetSize <- MCDatasetSize
    Batcher <- MCBatcher
    MaxBatch <- MCMaxBatch
    PoolSize = 2
    Lookahead = 2
    Oversized <- MCOversized
    Prefetch = 1
    Selection <- MCSelection
    GradAccum = 2
    MaxIter = 4
    MaxRuns = 3
INVARIANTS
    NothingSkipped
    NothingRepeated
    SelectionResumes
    SupportedNeverRefused
CHECK_DEADLOCK FALSE
