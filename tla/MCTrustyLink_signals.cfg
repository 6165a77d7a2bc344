CONSTANTS
  Threads = {t1, t2, t3}
  NoThread = none
  MaxCalls = 4
  ByReference = TRUE
  Failures = {"accept", "write", "get_msg", "read_msg", "put_msg", "send_msg", "wait_any", "signal"}
SPECIFICATION Spec
INVARIANT QuietCallGetsOwnReply
