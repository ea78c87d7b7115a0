SPECIFICATION FairSpec
CONSTANTS
  Enabled <- MCEnabled
  Done = 6
  MaxArrivals = 2
  MaxPushes = 1
  Broken <- MCBroken
INVARIANTS TypeOK EveryMoveCounts PoolsReady
PROPERTIES BootCompletes
CHECK_DEADLOCK FALSE
