SPECIFICATION Spec
CONSTANTS
  k1 = k1
  k2 = k2
  k3 = k3
  Long = Long
  Blank = Blank
  Producers = {p1}
  Consumers = {c1, c2}
  NSlots = 2
  Packets = {k1, k2, k3, Long}
  Oversized = {Long}
  Prio <- MCPrio
INVARIANTS OneOwner DropMeansFull ZeroMeansEmpty
PROPERTIES ImplementsExchange
