SPECIFICATION FairSpec
CONSTANTS
  w1 = w1
  w2 = w2
  Workers <- TwoWorkers
  App = App
  Master = Master
  Nobody = Nobody
  NoSocket = NoSocket
  QueueSize = 2
  MaxSockets = 4
  Denied = {2}
  FaultBudget = 1
INVARIANTS
  EverySocketOnce
  ContextOutlivesThreads
PROPERTIES
  ImplementsQueue
  EverySocketServed
  StopReturnsUnlessMissed
CHECK_DEADLOCK FALSE
