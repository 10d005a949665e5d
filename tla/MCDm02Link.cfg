SPECIFICATION FairSpec
CONSTANTS
  QueueCap = 3
  ErrorLimit = 1
  MaxRetry = 2
INVARIANTS AroundFrame
PROPERTIES QReturns Recovers Stops
