SPECIFICATION Spec
CONSTANTS
  Platforms = {"qsee", "trusty"}
  Values = {x, y}
  MaxLen = 2
  MaxLost = 3
  Failures = {"open", "io", "short", "commit", "death"}
INVARIANTS
  FileKeepsWrites
  OkReadIsComplete
  RefusedOnce
  OkWriteIsStored
  HandleBalance
