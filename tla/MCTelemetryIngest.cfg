SPECIFICATION Spec
CONSTANTS
  Slots = {"latency"}
  Values = {1, 2}
  Replayers = {r1, r2}
  Modes <- MCModes
  MaxRetries = 1
  MaxRequests = 3
INVARIANTS
  TypeOK
  AcknowledgedNotLost
  GiveUpJustified
  CountersBalance
PROPERTIES
  ImplementsDurable
CHECK_DEADLOCK FALSE
