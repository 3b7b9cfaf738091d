SPECIFICATION Spec
CONSTANTS
  Providers = {p1}
  NoProvider = NoProvider
  FrameLength = 2
  BufferSize = 7
  HistorySize = 1
  MaxFrames = 2
  MaxWire = 6
  MaxRedraws = 1
  BadFrames = {}
  Torn = Torn
INVARIANTS PacketsAreComplete
CHECK_DEADLOCK FALSE
