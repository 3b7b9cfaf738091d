SPECIFICATION Spec
CONSTANTS
  MAX_HISTORY = 3
  Threads = {t1}
  Conns = {c1}
  Main = Main
  Data = Data
  Nobody = Nobody
  NoConn = NoConn
  NoFrame = NoFrame
  MaxRounds = 5
  WallClock <- Stepping
  MaxSignals = 1
  FaultBudget = 0
INVARIANTS FramesAreConsecutive RatesAreDefined
PROPERTIES FramesInOrder CutFrameIsLast ImplementsFeed
CHECK_DEADLOCK FALSE
