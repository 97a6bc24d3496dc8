CONSTANTS
  cli = cli
  service = service
  Threads <- MCThreads
  Sessions <- MCThreads
  Surface <- MCSurface
  Environments <- MCEnvironments
  Keys = {k1}
  Sandboxes = {b1}
  NoSandbox = NoSandbox
  NoThread = NoThread
  NoKey = NoKey
  Async = FALSE
  CaptureArtifacts = FALSE
  InitialSequence = 0
  MaxRuns = 1
SPECIFICATION SurfaceSpec
INVARIANTS
  SurfaceInv
  SurfacesAgree
  NotFoundChangedNothing
  GoodMeansStored
  BackendFailureStoredNoRun
PROPERTIES
  LostSandboxIsAnnounced
  FlockReleased
