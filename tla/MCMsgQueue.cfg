SPECIFICATION FairSpec
CONSTANTS
  Ids = {a, b}
  Consumers = {c1, c2, c3}
  None = none
  MaxLen = 3
INVARIANTS IInv NothingLeftBehind
PROPERTIES ImplementsPool RequestsServed ShutdownDrains
CHECK_DEADLOCK FALSE
