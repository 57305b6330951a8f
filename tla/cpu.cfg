SPECIFICATION FairCpuSpec
CONSTANTS
  j1 = j1
  Jobs = {j1, j2, j3}
  MaxPools = 3
  Slots = 3
  Workers = 1
INVARIANT CpuIsExact
PROPERTY AnyJobEnds
CHECK_DEADLOCK FALSE
