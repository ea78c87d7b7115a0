SPECIFICATION FairSpec
CONSTANTS
  Senders = {heartbeat, test}
  RxSlots = 2
  TxSlots = 3
  ChipSlots = 2
  MaxAttempt = 3
  MaxArrivals = 4
INVARIANTS TypeOK InterruptSeen TxNotStranded RxNotStranded NoGhostRead
PROPERTIES TxLeaves RxHandled
