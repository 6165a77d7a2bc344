SPECIFICATION Spec
CONSTANTS
  Threads = {t1, t2, t3}
  NoThread = NoThread
  MaxCalls = 4
  NotifyCap = 2
  Timeouts = FALSE
INVARIANTS
  QuietUntilAbandoned
  TciRaceFree
  TciAlive
PROPERTIES
  ImplementsTeeCall
