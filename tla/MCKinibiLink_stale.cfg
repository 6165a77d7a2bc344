SPECIFICATION Spec
CONSTANTS
  Threads = {t1}
  NoThread = NoThread
  MaxCalls = 2
  NotifyCap = 1
  Timeouts = TRUE
INVARIANTS
  OkCallGetsOwnReply
