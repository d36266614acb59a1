CONSTANTS
  s1 = s1
  s2 = s2
  Submitters = {s1, s2}
  Serialised = TRUE
  Window = 4
  Lens = {1}
  MaxCalls = 2
  Entries = 3
  Dword = 4
  PushVa = 100
  PushBytes = 20
  Word32 = 64
  VaSpan = 128
  LenSpan = 8
SPECIFICATION Spec
INVARIANT Fifo
CHECK_DEADLOCK FALSE
