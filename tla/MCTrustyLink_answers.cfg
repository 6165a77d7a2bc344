CONSTANTS
  Threads = {t1, t2, t3}
  NoThread = none
  MaxCalls = 4
  ByReference = FALSE
  Failures = {}
SPECIFICATION FairSpec
PROPERTY EveryCallReturns
