\* Two slots, three threads that race for the two roles and the destructor.
SPECIFICATION Spec
CONSTANTS
  Threads = {t1, t2, t3}
  NoThread = NoThread
  SlotCount = 2
  PayloadCapacity = 1
  MaxGeneration = 2
INVARIANTS
  SlotsAccounted
  NoLostWakeUp
PROPERTIES
  TokensNeverRevive
  CloseEnds
CHECK_DEADLOCK FALSE
