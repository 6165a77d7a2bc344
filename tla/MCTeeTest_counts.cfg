CONSTANTS
  Commands <- MCCommands
  MaxTimes = 3
  Second = 4
  Word = 16
  MaxLatency = 4
  PerfSet = {TRUE, FALSE}
SPECIFICATION FairSpec
INVARIANTS
  AverageBelowMax
  NoOldError
  ChargedOrWrapped
PROPERTY EndsInRelease
