CONSTANTS
  t1 = t1
  t2 = t2
  Callers = {t1, t2}
  Nobody = Nobody
  Sizes <- MCSizes
  MaxCalls = 2
  PageSize = 2
  Reserved = 2
  VaBase = 8
  Word = 20
  Bar1Base = 100
  Bar1Size = 6
  VramSizeRegs <- MCRegs
  MiB = 2
  DefaultVram = 10
  MaxVram = 12
SPECIFICATION FairSpec
INVARIANTS TypeOK BlocksDisjoint VaDisjoint ApertureSafe
PROPERTIES Implements EveryCallReturns
CHECK_DEADLOCK FALSE
