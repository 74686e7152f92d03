SPECIFICATION Spec
CONSTANTS
  None = None
  MaxLen = 4
  Gaps = {0, 1, 2}
  Values = {0, 2, 3}
  Limit = 4
  WindowLengths = {2, 4}
  Growths = {0, 1, 3}
  Percents = {50}
  Absolutes = {3, None}
INVARIANTS
  TrendMatchesReference
  LeakHasEvidence
  OldSamplesIgnored
CHECK_DEADLOCK FALSE
