CONSTANTS
  Sessions = {p1, p2, p3}
  Threads = {p1, p2, p3}
  Keys = {k1}
  Sandboxes = {b1}
  NoSandbox = NoSandbox
  NoThread = NoThread
  NoKey = NoKey
  Async = FALSE
  CaptureArtifacts = FALSE
  InitialSequence = 0
  MaxRuns = 3
SPECIFICATION ManagerSpec
SYMMETRY Symmetry
INVARIANTS
  StoredRunsUnique
  LastRunIsStored
PROPERTIES
  LedgerSpec
