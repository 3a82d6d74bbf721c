CONSTANTS
    ByteBase = 4
    BitsPerByte = 2
    SizeExEscape = 3
    SizeModulus = 65536
    MaxDepth = 5
    MaxCount = 15
    MaxString = 100
    MaxStream = 140
    MaxSaved = 2
    MaxColumns = 3
    Values <- MCValues
    Bodies <- MCBodies
    DamageBytes <- MCDamageBytes
    Services <- MCServices
    Methods <- MCMethods
    Handlers = {1, 2}
    CallArgs <- MCCallArgs
    CallIds = {0, 5}
    Results <- MCResults
    PacketTypes <- MCPacketTypes
    Payloads <- MCPayloads
    PingAddresses <- MCPingAddresses
    MaxRegistered = 2
SPECIFICATION Spec
INVARIANTS
  CodecExact
  NoWildRead
  DecodedReencodes
  AnswersArrive
CHECK_DEADLOCK FALSE
