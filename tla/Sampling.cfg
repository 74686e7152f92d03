SPECIFICATION Spec
CONSTANTS
  None = None
  p1 = p1
  k1 = k1
  Sources = {"metrics-server", "prometheus", "datadog"}
  Lookback = 1
  Keys = {k1}
  Policies = {p1}
  StableNames = {k1}
  Values = {0, 1}
  Limit = 0
  StartupGrace = 1
  ChanCap = 1
  Prompt = FALSE
  WindowFlag = 1
  SampleEvery = 1
  DetectionWindow = 2
  MaxTime = 4
  Targets <- MCTargets
  Det <- MCDet
  Budgets <- MCAll
INVARIANTS
  TypeOK
  SamplesInv
  OnlyFirstStale
  WarmsUp
  SeriesSane
PROPERTIES
  AlarmIsSustained
