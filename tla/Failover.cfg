SPECIFICATION Spec
CONSTANTS
  None = None
  p1 = p1
  p2 = p2
  w1 = w1
  w2 = w2
  Policies = {p1}
  Workloads = {w1}
  StatefulSets = {}
  Rollouts = {w1}
  RolloutReportsGeneration = FALSE
  Window = 3
  MaxRestarts = 2
  Cooldown = 1
  HistoryLimit = 2
  Cap = 1
  Timeout = 1
  Closed = {}
  Modes = {FALSE}
  Horizon = 1
  MaxTime = 2
  PolicyRefs <- MCOwn
  Fingerprint <- Undone
  Budgets <- MCFailover
INVARIANTS
  DispatchesCounted
  SupersededIsReal
PROPERTIES
  KeepsProtocol
