CONSTANTS
  Paths = {f1}
  Sizes = {1, 2}
  Default = 2
  Requests = {0, 1}
  Early = 2
  MaxRuns = 2
  MaxWrites = 2
  MaxPrints = 1
SPECIFICATION Spec
CHECK_DEADLOCK FALSE
INVARIANTS
  QuietDeadlineTimedOut
  TimedOutSpentItsTime
  
  
  CompletedRunIsNotLost
  ArtifactsWereJustWritten
  NoWrittenFileMissed
