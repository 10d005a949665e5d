SPECIFICATION FairSpec
CONSTANTS
  QueueCap = 1
  OpenLimit = 2
  MaxFrames = 3
  MaxLate = 1
PROPERTIES ImplementsStream NeverTerminates Recovers Stops
