SPECIFICATION Spec
CONSTANTS
  Step = 2
  Order <- MCOneSignal
  ForwardFilled = {"db_connection_pool_pct"}
  Labels <- MCLabels
  Values <- MCValues
  Duration = 4
  Lookback = 2
  MinPoints = 2
  MaxTime = 10
INVARIANT
  SilentSignalsNotScored
CHECK_DEADLOCK FALSE
