CONSTANTS
    MaxAttempts = 1
    MaxPayload = 2
    RecvChunk = 2
    MaxConnects = 2
    MaxSession = 2
    MaxFaults = 1
SPECIFICATION Spec
INVARIANTS
  SessionIsAgreed
  DecoderInSync
  VectorsInStep
PROPERTIES
  ConnectEnds
CHECK_DEADLOCK FALSE
