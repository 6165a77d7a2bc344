SPECIFICATION Spec
CONSTANTS
  Clients = {c1, c2, c3}
  MallocFails = TRUE
  MaxOpens = 4
SYMMETRY Symmetry
INVARIANTS
  OpenHandleHasDevice
  
  NoTableOverrun
  MissingFromTheStart
CHECK_DEADLOCK FALSE
