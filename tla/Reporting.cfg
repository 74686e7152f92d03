SPECIFICATION FairSpec
CONSTANTS
  None = None
  w1 = w1
  w2 = w2
  r1 = r1
  r2 = r2
  Workloads = {w1}
  RouteNames = {r1, r2}
  Closed = {2}
  MaxLeaks = 4
  MaxCrashes = 1
  MaxTime = 5
  Window = 3
  MaxRestarts = 1
  Cooldown = 2
  HistoryLimit = 2
  Fingerprint <- OneTemplate
  Setups <- MCSetups
  Settings <- MCSettings
INVARIANTS
  ToldIsTrue
  NoticesSpaced
  AllSinksTried
PROPERTIES
  WorkerReturns
CHECK_DEADLOCK FALSE
