SPECIFICATION Spec
CONSTANTS
  Step = 2
  Order <- MCOrder
  ForwardFilled = {"db_connection_pool_pct"}
  Labels <- MCLabels
  Values <- MCValues
  Duration = 4
  Lookback = 2
  MinPoints = 2
  MaxTime = 8
INVARIANTS
  TypeOK
  AlignedAsDefined
  WindowsAccepted
  AskedOnEvidence
CHECK_DEADLOCK FALSE
