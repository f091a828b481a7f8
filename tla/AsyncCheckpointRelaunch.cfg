\* A finished job whose last iteration is no milestone is launched again and killed.
SPECIFICATION Spec
CONSTANTS
  Rank = {r0, r1}
  Rank0 = r0
  NumKeys = 1
  MaxIter = 3
  SaveIter = 2
  StatefulDataloader = FALSE
  ExportEveryN = 0
  ObjectStore = FALSE
  MaxRuns = 2
  MaxFaults = 0
  BgMayDie = FALSE
INVARIANTS
  ResumableFromLatest
