\* Two ranks, two keys, a milestone and a last save that is none, a filesystem, a restart,
\* one episode of faults, background processes that may die.
SPECIFICATION FairSpec
CONSTANTS
  Rank = {r0, r1}
  Rank0 = r0
  NumKeys = 2
  MaxIter = 3
  SaveIter = 2
  StatefulDataloader = TRUE
  ExportEveryN = 1
  ObjectStore = FALSE
  MaxRuns = 2
  MaxFaults = 1
  BgMayDie = TRUE
INVARIANTS
  TypeOK
  SingleSlot
  BufferIntact
  PublishedLoadable
  PublishedDataloader
  ConfirmedComplete
  FailureStopsJob
  DoneMeansPublished
  DoneMeansExported
PROPERTIES
  RestartKeepsConfirmed
  ImplementsDurableProgress
  EveryRunEnds
