SPECIFICATION Spec
CONSTANTS
  Scripts <- SomeScripts
  Configs = {"yes", "YES"}
  BufSize = 4
  ChunkSize = 2
  Frames <- SomeFrames
  Room = 11
  Mem = 4
  IntBound = 4
  MaxFrames = 2
  MaxTold = 3
  Bodies <- SomeBodies
  Boundary <- SomeBoundary
  UploadBuf = 4
  Names = {"F", "G"}
  Texts <- SomeTexts
  Included <- SomeIncluded
  OpenTag <- SomeOpen
  SsiBuf = 5
  MaxLevel = 2
  Specs <- TwoLimits
  Requests <- Everyone
  MaxLen = 5
  w1 = w1
  w2 = w2
  Uris <- SomeUris
  Methods = {"GET", "OPTIONS", "PUT", "DELETE", "PROPFIND"}
  Settings <- SomeSettings
  Verdicts <- SomeVerdicts
  Tree <- SomeTree
  Hidden <- SomeHidden
  Index <- SomeIndex
  PathMax = 16
INVARIANT PiecesMakeTheWhole
PROPERTIES SaidIsDone WorkersComeBack
CHECK_DEADLOCK FALSE
