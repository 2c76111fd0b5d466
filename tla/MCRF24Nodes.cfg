SPECIFICATION FairSpec
CONSTANTS
  led = led
  other = other
  Nodes = {n1}
  Types = {led, other}
  Msgs = {b1, b2}
  TypeOf <- TypesOf
  Wants <- WantsLed
  Handlers = {h1, h2}
  Reapers = {r1}
  MaxBeats = 2
  MaxRouted = 2
  None = none
INVARIANTS NodesInv WorkersInv
PROPERTIES HeartbeatResumes RemovedWorkersExit
CHECK_DEADLOCK FALSE
