SPECIFICATION RadioSpec
CONSTANTS
  Loads <- BadFrame
  ReadMax = 4
  frameChanCapacity = 1
  maxMessagesPerEnv = 2
INVARIANT OnlyReceived
CHECK_DEADLOCK FALSE
