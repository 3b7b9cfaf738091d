SPECIFICATION FairSpec
CONSTANTS
  Providers = {p1}
  NoProvider = NoProvider
  FrameLength = 2
  BufferSize = 7
  HistorySize = 1
  MaxFrames = 2
  MaxWire = 5
  MaxRedraws = 1
  BadFrames = {}
  Torn = Torn
INVARIANTS ReadsAreReassembled
PROPERTIES OnlyCarriedPacketsAreTorn PauseEnds ProviderReconnects
CHECK_DEADLOCK FALSE
