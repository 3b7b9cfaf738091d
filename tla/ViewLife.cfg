SPECIFICATION Spec
CONSTANTS
  Providers = {p1, p2}
  NoProvider = NoProvider
  FrameLength = 1
  BufferSize = 4
  HistorySize = 2
  MaxFrames = 3
  MaxWire = 4
  MaxRedraws = 1
  BadFrames = {2}
  Torn = Torn
SYMMETRY Symmetry
INVARIANTS TypeOK OneProvider HistoryInOrder RedrawIsComing
CHECK_DEADLOCK FALSE
