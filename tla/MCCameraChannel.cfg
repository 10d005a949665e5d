SPECIFICATION CFairSpec
CONSTANTS
  ChMax = 3
  ChannelIds = {1, 2, 3}
  Priority <- MCPriority
  FairAge = 4
  AgeCap = 5
  Messages <- CameraMessages
  NoMessage = NoMessage
  MaxFails = 1
  Cam = 1
  Other = Other
  PublishEvents = TRUE
  MaxTriggers = 1
  MaxResets = 1
INVARIANTS NoStarvation LatestSent
PROPERTIES AckUnlessOvertaken
