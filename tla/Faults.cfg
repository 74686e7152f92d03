SPECIFICATION Spec
CONSTANTS
  None = None
  p1 = p1
  p2 = p2
  w1 = w1
  w2 = w2
  Policies = {p1}
  Workloads = {w1}
  StatefulSets = {w1}
  Rollouts = {}
  RolloutReportsGeneration = TRUE
  Window = 3
  MaxRestarts = 2
  Cooldown = 1
  HistoryLimit = 1
  Cap = 1
  Timeout = 2
  Closed = {}
  Modes = {TRUE, FALSE}
  Horizon = 3
  MaxTime = 3
  PolicyRefs <- MCOwn
  Fingerprint <- Undone
  Budgets <- MCFaults
INVARIANTS
  TypeOK
  IInv
  MarkerMatchesHistory
  BreakerRespected
  DispatchesCounted
  CooldownRespected
  SettledIsReal
  SlotHasPolicy
PROPERTIES
  NoStackedRestart
  DispatchOnlyWhenEnforcing
