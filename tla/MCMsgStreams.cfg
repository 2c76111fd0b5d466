SPECIFICATION FairSpec
CONSTANTS
  i1 = i1
  i2 = i2
  Servers = {"grpc", "mpi"}
  Streams = {s1, s2}
  MaxMsgs = 2
  BadOf <- FirstForPlugin
  Inbound = {i1, i2}
  Envelopes <- TwoForPlugin
  None = none
INVARIANTS StreamsInv PluginInv
PROPERTIES BrokenStreamsRemoved StopEnds
CHECK_DEADLOCK FALSE
