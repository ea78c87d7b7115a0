SPECIFICATION Spec
CONSTANTS
  Users = {"comm", "app"}
  Ops <- MCOps
  NReg = 6
  MaxPayload = 3
  Sensors <- MCSensors
  Readers = {"hb", "user"}
  Pulses = {580, 5820}
  PinsWork = {TRUE, FALSE}
  Data = {"x", "y"}
  MaxSize = 5
  GrowPercent = 50
  Requests = {0, 3, 9}
  Seeds = {1, 255}
  MaxFlips = 3
  Weak <- MCWeak
  Challenges <- MCChallenges
  Percents <- MCPercents
  MaxEchoes = 3
  Segments <- MCSegments
  Macs <- MCMacs
  MaxSteps = 5
  Pieces <- MCPieces
  Lengths = {62}
  ArrayKinds = {"SInt64"}
  MaxItems = 3
  MaxText = 120
  MaxCalls = 4
INVARIANTS AccessesAreWhole AnswersAreMeasured AcceptedIsWritten SpeedsAreKept AddressIsKept StringsAgree
PROPERTY DequeImplements
CHECK_DEADLOCK FALSE
