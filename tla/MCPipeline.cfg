SPECIFICATION FairSpec
CONSTANTS
  QueueCap = 1
  Workers = {w1, w2}
  Fresh = 2
  MaxFrames = 4
  MaxTime = 3
  MaxModes = 2
PROPERTIES ImplementsStream Proceeds Released Exits
CHECK_DEADLOCK FALSE
