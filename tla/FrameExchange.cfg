\* Two slots and a channel of two, as in the program, for three frames.
SPECIFICATION Spec
CONSTANTS
  ExpectedFrames = 3
  SlotCount = 2
  Capacity = 2
INVARIANTS
  ShutdownIsQuiescent
  FramesDelivered
PROPERTIES
  ExchangeStops
