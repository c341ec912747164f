SPECIFICATION Spec
CONSTANTS
  j1 = j1
  j2 = j2
  j3 = j3
  Jobs = {j1, j2}
  Workers = {w1, w2}
  NoJob = NoJob
  Malformed = {}
  MaxReceive = 2
  TenantOf <- MCTenantOf
  ServiceOf <- MCServiceOf
  PartitionOf <- MCPartitionOf
  OverviewLimit = 2
  Gaps <- MCNoGap
  Replies <- MCRiskyOrQuiet
  Policies = {}
  Ahead = 1
SYMMETRY Symmetry
INVARIANT
  OverviewLatest
CHECK_DEADLOCK FALSE
