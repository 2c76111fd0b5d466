SPECIFICATION FairSpec
CONSTANTS
  a1 = a1
  Adaptors = {a1}
  Controllers = {k1}
  Drivers = {d1}
  AdaptorOf <- OnA1
  Unknown = {}
  FaultyDevice = {d1}
  Plugins = {k1}
  MayNotStart = {}
  DisableRestore = FALSE
  AttachFails = {}
  Clients = {c1, c2}
  MaxMachines = 1
  MaxListed = 1
  CrashAllowed = FALSE
  None = none
INVARIANTS FileInv ListsInv
PROPERTIES RequestsReturn
CHECK_DEADLOCK FALSE
