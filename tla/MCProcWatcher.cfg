SPECIFICATION ProcFairSpec
CONSTANTS
  p1 = p1
  p2 = p2
  p3 = p3
  Procs <- ThreeStarts
  KeepAlive <- TwoKept
  MaxDeaths = 1
  MaxCrashes = 1
  MaxFails = 1
  NoProc = none
INVARIANTS WatcherInv
PROPERTIES WatchedIsRestarted MpiReturns
CHECK_DEADLOCK FALSE
