SPECIFICATION Spec
CONSTANTS
  Services = {ledger, ghost}
  Configured = {ledger}
  Tabs = {t1, t2}
  Nobody = Nobody
  Entered = {70, 85, 101}
  MaxTries = 2
  MaxLoads = 1
  MaxConfirms = 2
  MaxPuts = 1
  MaxVersions = 4
SYMMETRY Symmetry
INVARIANTS
  TypeOK
  EditsReplaceWhatWasShown
  FlagUndoneOnlyIfFlipped
  ConflictMeansChanged
  OkMeansWritten
  RepeatsBounded
  OnlyConfiguredRows
CHECK_DEADLOCK FALSE
