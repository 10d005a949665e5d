SPECIFICATION FairSpec
CONSTANTS
  MaxTransactions = 2
  IdMod = 3
  TimeMod = 5
  HandshakeTimeout = 2
  HeartbeatInterval = 0
  DefaultTimeout = 1
  DefaultRetries = 1
  AppTimeouts = {0}
  AppRetries = {0}
  TickGap = 1
  MaxRequests = 1
  PeerTraffic = {}
  WireCap = 1
PROPERTIES HelloOkEstablishes
