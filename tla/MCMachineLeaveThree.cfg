SPECIFICATION Spec
CONSTANTS
  a1 = a1
  Adaptors = {a1}
  Controllers = {k1, k2, k3}
  Drivers = {}
  AdaptorOf <- OnA1
  Unknown = {}
  FaultyDevice = {}
  Plugins = {}
  MayNotStart = {}
  DisableRestore = FALSE
  AttachFails = {}
  Clients = {c1}
  MaxMachines = 1
  MaxListed = 1
  CrashAllowed = FALSE
  None = none
INVARIANTS LeaveSucceeds
CHECK_DEADLOCK FALSE
