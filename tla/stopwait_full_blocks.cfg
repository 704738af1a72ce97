SPECIFICATION FairSpec
CONSTANTS
  BufferSize = 4
  TailSize = 0
  LastBlock = 2
  PKT_TRNSMAX = 3
  Faults = {}
  MaxFaults = 0
  Clients = {c1}
  Files = {c1}
  Twins = {}
  c1 = c1
PROPERTIES CopySucceeds
