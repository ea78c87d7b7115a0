SPECIFICATION FairSpec
CONSTANTS
  None = None
  CCUs = {c1}
  Challenges = {n1, n2, n3, n4, n5}
  Crashes = TRUE
  Button = TRUE
  FlashFaults = {"save", "erase"}
  MaxAge = 1
  MaxInFlight = 3
INVARIANTS TypeOK ConnectedIsSaved SentWhole
PROPERTIES Reconnects
