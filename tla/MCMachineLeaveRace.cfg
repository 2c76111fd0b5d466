SPECIFICATION Spec
CONSTANTS
  a1 = a1
  Adaptors = {a1}
  Controllers = {k1}
  Drivers = {}
  AdaptorOf <- OnA1
  Unknown = {}
  FaultyDevice = {}
  Plugins = {}
  MayNotStart = {}
  DisableRestore = FALSE
  AttachFails = {}
  Clients = {c1, c2}
  MaxMachines = 1
  MaxListed = 1
  CrashAllowed = FALSE
  None = none
INVARIANTS LeaveIsFinal
CHECK_DEADLOCK FALSE
