SPECIFICATION Spec
CONSTANTS
  a1 = a1
  Adaptors = {a1}
  Controllers = {k1}
  Drivers = {d1}
  AdaptorOf <- OnA1
  Unknown = {}
  FaultyDevice = {}
  Plugins = {}
  MayNotStart = {}
  DisableRestore = FALSE
  AttachFails = {}
  Clients = {c1}
  MaxMachines = 1
  MaxListed = 1
  CrashAllowed = TRUE
  None = none
PROPERTIES RestoreComplete
CHECK_DEADLOCK FALSE
