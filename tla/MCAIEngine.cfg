SPECIFICATION Spec
CONSTANTS
  c1 = c1
  c2 = c2
  c3 = c3
  c4 = c4
  Tasks = {t1}
  Requests = {c1, c2, c3, c4}
  TenantOf <- MCTenantOf
  NoTenant = "nobody"
  WindowOf <- MCWindowOf
  Services = {"ledger", "wallet"}
  Baselines = {"absent", "trained"}
  NoTask = NoTask
  Limit = 2
  Minute = 2
  CacheSize = 1
  MinWindow = 120
  MaxTime = 2
SYMMETRY Symmetry
INVARIANTS
  TypeOK
  AnswersLogged
  LimiterExact
  RestartRefreshes
  AnomalyIffBreach
  AnomaliesReachWorker
CHECK_DEADLOCK FALSE
