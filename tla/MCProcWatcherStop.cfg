SPECIFICATION ProcFairSpec
CONSTANTS
  p1 = p1
  p2 = p2
  p3 = p3
  Procs <- OneStart
  KeepAlive <- OneStart
  MaxDeaths = 0
  MaxCrashes = 0
  MaxFails = 0
  NoProc = none
PROPERTIES StopReturns
CHECK_DEADLOCK FALSE
