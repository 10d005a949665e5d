SPECIFICATION FairSpec
CONSTANTS
  MaxTransactions = 2
  IdMod = 2
  TimeMod = 4
  HandshakeTimeout = 1
  HeartbeatInterval = 1
  DefaultTimeout = 1
  DefaultRetries = 1
  AppTimeouts = {0}
  AppRetries = {0}
  TickGap = 1
  MaxRequests = 2
  PeerTraffic = {"HELLO", "PING", "DATA", "NOTIFY"}
  WireCap = 1
PROPERTIES RequestsEnd
