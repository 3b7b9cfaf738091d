SPECIFICATION FairSpec
CONSTANTS
  MAX_HISTORY = 2
  Threads = {t1}
  Conns = {c1}
  Main = Main
  Data = Data
  Nobody = Nobody
  NoConn = NoConn
  NoFrame = NoFrame
  MaxRounds = 2
  WallClock <- Ticking
  MaxSignals = 1
  FaultBudget = 1
INVARIANT ConnectionsAreTended
PROPERTIES NewestReachesClients LeaversReaped DataThreadStops SignalledLoopEnds DrainEnds
CHECK_DEADLOCK FALSE
