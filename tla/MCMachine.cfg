SPECIFICATION Spec
CONSTANTS
  a1 = a1
  Adaptors = {a1, a2}
  Controllers = {k1, k2, k3}
  Drivers = {d1}
  AdaptorOf <- OnA1
  Unknown = {d1}
  FaultyDevice = {}
  Plugins = {}
  MayNotStart = {k1, k2, k3}
  DisableRestore = FALSE
  AttachFails = {a2}
  Clients = {c1}
  MaxMachines = 1
  MaxListed = 2
  CrashAllowed = TRUE
  None = none
INVARIANTS FileInv LeaveStopsHalf
PROPERTIES AdaptorsRestored
SYMMETRY ControllersAlike
CHECK_DEADLOCK FALSE
