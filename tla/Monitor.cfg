SPECIFICATION Spec
CONSTANTS
  ZoneOf <- MCZoneOf
  Heartbeats <- MCHeartbeats
  Challenges <- MCChallenges
  Broadcasts <- MCBroadcasts
  Speeds = {0, 50}
  MaxNum = 1
  MaxPending = 1
INVARIANTS CommandsFitRegistry
CHECK_DEADLOCK FALSE
