SPECIFICATION FairSpec
CONSTANTS
  None = None
  CCUs = {c1, c2}
  Challenges = {n1, n2, n3, n4}
  Crashes = FALSE
  Button = TRUE
  FlashFaults = {"load"}
  MaxAge = 1
  MaxInFlight = 2
INVARIANTS SavedWhole
PROPERTIES AuthenticationEnds Discoverable
