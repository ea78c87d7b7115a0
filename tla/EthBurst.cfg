SPECIFICATION Spec
CONSTANTS
  Senders = {heartbeat}
  RxSlots = 2
  TxSlots = 2
  ChipSlots = 2
  MaxAttempt = 3
  MaxArrivals = 3
INVARIANTS BurstRead
