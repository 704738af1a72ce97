SPECIFICATION FairSpec
CONSTANTS
  BufferSize = 4
  TailSize = 1
  SeekSpan = 100
  LastBlock = 5
  WindowSize = 2
  PKT_TRNSMAX = 3
  Faults = {}
  MaxFaults = 0
  Capacity = 8
  Clients = {c1, c2}
  Ports = {p1, p2}
  Files = {c1}
  ListenSocket = server
  Sockets <- MCSockets
  c1 = c1
  c2 = c2
  p1 = p1
  p2 = p2
PROPERTIES CopyEnds CopySucceeds ChildrenExit
