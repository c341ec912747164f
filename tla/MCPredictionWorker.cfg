SPECIFICATION FairSpec
CONSTANTS
  j1 = j1
  j2 = j2
  j3 = j3
  Jobs = {j1, j2}
  Workers = {w1, w2}
  NoJob = NoJob
  Malformed = {j2}
  MaxReceive = 2
  TenantOf <- MCTenantOf
  ServiceOf <- MCServiceOf
  PartitionOf <- MCPartitionOf
  OverviewLimit = 2
  Gaps <- MCGaps
  Replies <- MCReplies
  Policies <- MCPolicies
  Ahead = 1
INVARIANTS
  TypeOK
  VerdictsCoherent
PROPERTIES
  MalformedDeadLettered
  ImplementsLifecycle
CHECK_DEADLOCK FALSE
