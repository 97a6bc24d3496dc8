CONSTANTS
  Sessions = {s1}
  Sandboxes = {b1, b2}
  NoSandbox = NoSandbox
  Threads = {t1, t2, t3}
  NoThread = NoThread
  Async = TRUE
  CaptureArtifacts = TRUE
  InitialSequence = 1
  MaxRuns = 2
SPECIFICATION Spec
SYMMETRY Symmetry
INVARIANTS
  IInv
  CommandsHaveAttachment
  ReleasedHoldsNothing
  TerminatedIsGone
PROPERTIES
  LastRunAdvances
  CloseEndsSandbox
  OnlyCloseTerminates
  CloseReleases
