CONSTANTS
  s1 = s1
  s2 = s2
  Submitters = {s1, s2}
  Serialised = TRUE
  Window = 2
  Lens = {1, 2}
  MaxCalls = 3
  Entries = 3
  Dword = 4
  PushVa = 100
  PushBytes = 12
  Word32 = 32
  VaSpan = 128
  LenSpan = 8
SPECIFICATION FairSpec
INVARIANTS TypeOK PendingDisjoint Fifo
PROPERTIES Implements EverySubmissionRuns
CHECK_DEADLOCK FALSE
