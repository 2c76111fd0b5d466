SPECIFICATION Spec
CONSTANTS
  maxLogs = 3
  MaxEntries = 5
  Keys = {"A", "a", "B", "b", "C", "D", "ro", "x"}
  NameOf <- Found
  Immutable = {"ro"}
  Commands = {"c1", "c2", "c3"}
  ArgsOf <- Arguments
  Requests <- OtherRequests
  MaxRequests = 1
  None = none
INVARIANTS RecordsInv RingHoldsNewest
PROPERTIES ChangesAreWhole
CHECK_DEADLOCK FALSE
