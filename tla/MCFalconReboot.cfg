CONSTANTS
  Firmware <- MCFirmware
  MemWords = 3
  Sources = {1, 2}
  MaxInits = 2
  MaxPolls = 2
SPECIFICATION Spec
INVARIANT EveryBootHonest
CHECK_DEADLOCK FALSE
