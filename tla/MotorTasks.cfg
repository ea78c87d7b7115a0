SPECIFICATION FairSpec
CONSTANTS
  Setters = {eth, hb}
  Reporters = {rep}
  Impatient = {rep}
  Speeds <- MCSpeeds
  Wild <- MCWild
  MaxDuty = 1
  MaxRetries = 2
  MaxCalls = 1
  Any = Any
  Free = Free
INVARIANTS TypeOK AppliedWhenClear NoWildSpeed
PROPERTIES OkMeansApplied Settles
CHECK_DEADLOCK FALSE
