SPECIFICATION Spec
CONSTANTS
  MAX_HISTORY = 2
  Threads = {t1, t2}
  Conns = {c1, c2}
  Main = Main
  Data = Data
  Nobody = Nobody
  NoConn = NoConn
  NoFrame = NoFrame
  MaxRounds = 1
  WallClock <- Ticking
  MaxSignals = 1
  FaultBudget = 0
SYMMETRY Symmetry
INVARIANTS TypeOK CountIsLiveThreads DescriptorsAreOwned CleanShutdown NoBlockingUnderMutex
CHECK_DEADLOCK FALSE
