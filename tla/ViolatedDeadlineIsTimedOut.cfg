CONSTANTS
  Paths = {f1}
  Sizes = {1}
  Default = 1
  Requests = {0}
  Early = 0
  MaxRuns = 1
  MaxWrites = 1
  MaxPrints = 1
SPECIFICATION Spec
CHECK_DEADLOCK FALSE
INVARIANT
  DeadlineIsTimedOut
