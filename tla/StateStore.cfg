CONSTANTS
  service = service
  cli = cli
  s1 = s1
  s2 = s2
  c1 = c1
  Processes <- MCProcesses
  Threads <- MCThreads
  Home <- MCHome
  Names = {n1, n2}
  Records = {r1}
  Missing = Missing
  Partial = Partial
  NoThread = NoThread
SPECIFICATION Spec
SYMMETRY Symmetry
INVARIANTS
  IInv
  OnlyWholeRecords
PROPERTIES
  LitterIsOfFailures
  AtomicSpec
