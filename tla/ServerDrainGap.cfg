SPECIFICATION Spec
CONSTANTS
  MAX_HISTORY = 2
  Threads = {t1}
  Conns = {c1}
  Main = Main
  Data = Data
  Nobody = Nobody
  NoConn = NoConn
  NoFrame = NoFrame
  MaxRounds = 1
  WallClock <- Ticking
  MaxSignals = 1
  FaultBudget = 0
INVARIANTS NoThreadJustSleeping
CHECK_DEADLOCK FALSE
