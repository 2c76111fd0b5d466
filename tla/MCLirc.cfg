SPECIFICATION LircFairSpec
CONSTANTS
  Packets <- SomePackets
  MaxPackets = 3
  MaxMsgs = 1
INVARIANTS LircInv
PROPERTIES LircServes
CHECK_DEADLOCK FALSE
