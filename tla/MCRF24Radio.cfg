SPECIFICATION RadioFairSpec
CONSTANTS
  Loads <- SomeLoads
  ReadMax = 4
  frameChanCapacity = 1
  maxMessagesPerEnv = 2
INVARIANTS RadioInv
PROPERTIES BeatsGoOut FramesDelivered
CHECK_DEADLOCK FALSE
