\* Three threads race for the two ends; a ring of two that wraps around.
SPECIFICATION Spec
CONSTANTS
  Threads = {t1, t2, t3}
  NoThread = NoThread
  Packets = {p1, p2}
  NoPacket = NoPacket
  Capacity = 2
INVARIANTS
  NoLostWakeUp
PROPERTIES
  ImplementsFifo
  BlockedCallsReturn
CHECK_DEADLOCK FALSE
