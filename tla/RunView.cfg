CONSTANTS
  Writers = {w1, w2}
  Limit = 3
  Texts = {0, 1, 2, 4}
  MaxSent = 8
  Names <- MCNames
  Binary = {"x"}
  Paths <- MCPaths
  Directories <- MCDirectories
  Files <- MCFiles
  Default = 5
  MaxLength = 6
SPECIFICATION ViewSpec
INVARIANTS
  IInv
  FlaggedIffCut
  KeptToTheLimit
  AcceptedIsTheFile
  InsideIsAccepted
  RecordedIsRead
  PreviewTellsTheTruth
