CONSTANTS
  Buses <- MCBuses
  Word32 = 256
  StatusBits = {"abort"}
  PageSize = 4
  Reserved = 4
  VaBase = 8
  Word = 64
  VramSizeRegs <- MCRegs
  MiB = 2
  DefaultVram = 24
  MaxVram = 48
  Engines <- MCEngines
  RingBytes = 3
  PushBytes = 8
  LoSpan = 2
  MaxClock = 2
SPECIFICATION FairSpec
INVARIANTS TypeOK BusAsFound RegionsFound LineServable ReadyMeansUsable TimerHonest
PROPERTIES StatusKept EventsKept InterruptServed InitReturns
CHECK_DEADLOCK FALSE
