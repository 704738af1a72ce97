SPECIFICATION FairSpec
CONSTANTS
  BufferSize = 4
  TailSize = 1
  LastBlock = 1
  PKT_TRNSMAX = 3
  Faults = {"flip"}
  MaxFaults = 2
  Clients = {c1}
  Files = {c1}
  Twins = {}
  c1 = c1
PROPERTIES EveryRcopyEnds
CHECK_DEADLOCK FALSE
