SPECIFICATION Spec
CONSTANTS
  None = None
  CCUs = {c1, c2}
  Challenges = {n1, n2, n3, n4}
  Crashes = FALSE
  Button = FALSE
  FlashFaults = {}
  MaxAge = 1
  MaxInFlight = 2
PROPERTIES SavesValidated
