CONSTANTS
  Threads = {t1, t2, t3}
  NoThread = none
  MaxCalls = 4
  Contiguous = TRUE
  Failures <- MCFailures
SPECIFICATION FairSpec
INVARIANTS
  OkCallGetsOwnReply
  NoForeignAnswer
PROPERTIES
  EveryCallReturns
  ImplementsTeeCall
