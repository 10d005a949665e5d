SPECIFICATION Spec
CONSTANTS
  MaxTransactions = 2
  IdMod = 2
  TimeMod = 5
  HandshakeTimeout = 2
  HeartbeatInterval = 2
  DefaultTimeout = 1
  DefaultRetries = 1
  AppTimeouts = {0}
  AppRetries = {0}
  TickGap = 1
  MaxRequests = 3
  PeerTraffic = {"HELLO"}
  WireCap = 1
INVARIANTS TypeOK CompletedOnce UniqueIds OwnAnswer BoundedWait HandshakeBounded
PROPERTIES TimeoutNotEarly ImplementsService
