SPECIFICATION FairSpec
CONSTANTS
  BufferSize = 4
  TailSize = 1
  SeekSpan = 100
  LastBlock = 1
  WindowSize = 2
  PKT_TRNSMAX = 3
  Faults = {"drop"}
  MaxFaults = 1
  Capacity = 6
  Clients = {c1}
  Ports = {p1, p2}
  Files = {c1}
  ListenSocket = server
  Sockets <- MCSockets
  c1 = c1
  p1 = p1
  p2 = p2
PROPERTIES CopyEnds
