CONSTANTS
  Sessions = {s1}
  Sandboxes = {b1}
  NoSandbox = NoSandbox
  Threads = {t1, t2}
  NoThread = NoThread
  Async = TRUE
  CaptureArtifacts = TRUE
  InitialSequence = 0
  MaxRuns = 1
SPECIFICATION FairSpec
PROPERTIES
  EveryCallReturns
