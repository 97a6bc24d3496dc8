CONSTANTS
  Sessions = {s1}
  Sandboxes = {b1}
  NoSandbox = NoSandbox
  Threads = {t1}
  NoThread = NoThread
  Async = FALSE
  CaptureArtifacts = TRUE
  InitialSequence = 0
  MaxRuns = 1
SPECIFICATION FairSpec
PROPERTY
  ManifestNeverFailsRun
