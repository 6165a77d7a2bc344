CONSTANTS
  Code <- MCCode
  Contract <- MCContract
  Depends <- MCDepends
  Tries = 10
  Leaky <- MCLeaky
  Deaf <- MCDeaf
  Alarmist <- TaAlarmist
  Endless <- TaEndless
  Hasty <- HalHasty
SPECIFICATION FairSpec
INVARIANTS
  LosesNothing
  HoldsPromise
  NoBadRelease
  FailureReported
  SuccessReported
  NoOrphan
  ExceptionsExact
PROPERTY Terminates
