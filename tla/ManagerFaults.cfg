CONSTANTS
  Sessions = {p1, p2}
  Threads = {p1, p2}
  Keys = {k1, k2}
  Sandboxes = {b1}
  NoSandbox = NoSandbox
  NoThread = NoThread
  NoKey = NoKey
  Async = FALSE
  CaptureArtifacts = FALSE
  InitialSequence = 0
  MaxRuns = 1
SPECIFICATION FaultySpec
SYMMETRY Symmetry
INVARIANTS
  TerminatedRecordIsGone
PROPERTIES
  RecordNeverGoesBack
  TerminatedRecordIsFinal
