CONSTANTS
  PageSize = 4
  Reserved = 4
  VaBase = 8
  Word = 64
  VramSizeRegs <- MCRegs
  MiB = 2
  DefaultVram = 24
  MaxVram = 48
  Requests <- MCRequests
  MaxTensors = 2
  Bar1Base = 100
  Bar1Size = 16
  ChannelIds = {1, 2}
  MaxChannels = 2
  EntryBytes = 3
SPECIFICATION Spec
INVARIANTS TypeOK BlocksOwned ElementsPlaced TransferWindow CountersHonest RunlistHeld
