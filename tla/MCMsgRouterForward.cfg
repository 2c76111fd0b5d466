SPECIFICATION Spec
CONSTANTS
  m1 = m1
  m2 = m2
  m3 = m3
  Modules <- ThreeModules
  Stoppable <- Leavers
  Senders <- OneSender
  Several <- NoModules
  MayNotStart <- NoModules
  MaxSends = 1
INVARIANTS ForwardedToAll
CHECK_DEADLOCK FALSE
