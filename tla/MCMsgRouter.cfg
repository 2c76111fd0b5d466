SPECIFICATION FairSpec
CONSTANTS
  m1 = m1
  m2 = m2
  m3 = m3
  Modules <- ThreeModules
  Stoppable <- Leavers
  Senders <- OneSender
  Several <- OneLeaver
  MayNotStart <- Remainer
  MaxSends = 2
INVARIANTS RouterInv MissesBounded InOrder
PROPERTIES NothingOutsideSubscription Delivered
CHECK_DEADLOCK FALSE
