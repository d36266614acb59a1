CONSTANTS
  Firmware <- MCFirmware
  MemWords = 3
  Sources = {1, 2}
  MaxInits = 2
  MaxPolls = 2
SPECIFICATION FairSpec
INVARIANTS TypeOK FirstBootHonest WholeImage
PROPERTIES CodeStable NoIrqLost InitReturns
CHECK_DEADLOCK FALSE
