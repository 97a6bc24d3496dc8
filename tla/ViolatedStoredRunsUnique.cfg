CONSTANTS
  Sessions = {p1}
  Threads = {p1}
  Keys = {k1}
  Sandboxes = {b1}
  NoSandbox = NoSandbox
  NoThread = NoThread
  NoKey = NoKey
  Async = FALSE
  CaptureArtifacts = FALSE
  InitialSequence = 0
  MaxRuns = 2
SPECIFICATION CrashSpec
INVARIANTS
  StoredRunsUnique
