SPECIFICATION Spec
CONSTANTS
  None = None
  p1 = p1
  k1 = k1
  Sources = {"metrics-server"}
  Lookback = 1
  Keys = {k1}
  Policies = {p1}
  StableNames = {}
  Values = {1}
  Limit = 0
  StartupGrace = 1
  ChanCap = 1
  Prompt = TRUE
  WindowFlag = 20
  SampleEvery = 1
  DetectionWindow = 30
  MaxTime = 32
  Targets <- MCTargets
  Det <- MCDet
  Budgets <- MCQuiet
INVARIANTS
  WarmsUp
