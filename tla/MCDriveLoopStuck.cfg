SPECIFICATION FairSpec
CONSTANTS
  Buttons = {"BTN_TOP", "BTN_START"}
  Scenes <- SomeScenes
  MaxWaiting = 2
  KeyActions = {"forward", "left"}
  OtherKey = "other"
  cmdChCapacity = 2
  MaxPresses = 2
  MaxTicks = 2
  maxSpeedValue = 30
  stopSpeedValue = 15
  fadeAmount = 15
  RemoteCommands <- ForOthers
  RemoteForeign <- ForOthers
  RemoteSpeed = 250
  MaxRemote = 1
\* NoStalePress in its place is violated, too.
PROPERTIES HandlerAlwaysUnlocks
CHECK_DEADLOCK FALSE
