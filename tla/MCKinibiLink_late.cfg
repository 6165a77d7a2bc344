SPECIFICATION FairSpec
CONSTANTS
  Threads = {t1, t2, t3}
  NoThread = NoThread
  MaxCalls = 3
  NotifyCap = 1
  Timeouts = TRUE
INVARIANTS
  QuietCallGetsOwnReply
  IInv
PROPERTIES
  EveryCallReturns
