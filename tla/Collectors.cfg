SPECIFICATION AnySpec
CONSTANTS
  BufSize = 5
  Word = 16
  MaxSize = 6
  Interface = "wan"
  Interfaces = {"wan", "lan", "lo"}
  Machines <- AnyMachine
  HaveIPv6 = FALSE
  Levels <- AnyLevel
  ListStep = 2
  MaxDev = 3
  MaxTrack = 4
  MaxWireless = 2
  MaxMem = 3
  Mantissa = 2
  Counter = 8
  Steps = {0, 1, 23}
  Seconds <- BothWays
  MaxTicks = 28
  MaxTraffic = 7
  MaxClock = 1
INVARIANTS
  BufferIsFile
  TerminatorInside
  CollectorsAreRight
  FramesAreDifferences
CHECK_DEADLOCK FALSE
