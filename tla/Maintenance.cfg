SPECIFICATION Spec
CONSTANTS
  None = None
  DayLength = 3
  ControllerSpecs <- MCControllerSpecs
  PolicySpecs <- MCPolicySpecs
  RequeueAfter = 1
  FirstTimes <- FirstWeek
  MaxTime = 54
INVARIANTS
  NextIsEarliest
  ActsInsideDeclared
PROPERTIES
  DeferredIsNotDropped
CHECK_DEADLOCK FALSE
