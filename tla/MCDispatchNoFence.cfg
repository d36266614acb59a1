CONSTANTS
  ClassId = 5
  Binaries <- MCBinaries
  Jobs <- MCJobs
  MaxShaders = 2
  MaxCalls = 2
  MaxPolls = 1
  PushWords = 60
  Entries = 4
  Window = 3
  VramPages = 3
  PageSize = 1
  VaBase = 4
  Word32 = 3
  SizeSpan = 4
SPECIFICATION Spec
INVARIANT WaitMeansDone
CHECK_DEADLOCK FALSE
