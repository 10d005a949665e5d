SPECIFICATION FairSpec
CONSTANTS
  Armors <- MCArmors
  Priority <- MCPriority
  MaxLost <- MCMaxLost
  Excluded = {"five", "outpost"}
  MinDetect = 3
  SwitchLimit = 3
  QueueCap = 2
  MaxSeen = 2
INVARIANTS AimedSeen OwnSideFades
PROPERTIES Confirmed TurnsToBest SwitchingEnds
