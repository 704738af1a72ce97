SPECIFICATION Spec
CONSTANTS
  BufferSize = 4
  TailSize = 1
  SeekSpan = 100
  LastBlock = 6
  WindowSize = 4
  PKT_TRNSMAX = 3
  Faults = {"dup"}
  MaxFaults = 1
  Capacity = 8
  Clients = {c1}
  Ports = {p1, p2}
  Files = {c1}
  ListenSocket = server
  Sockets <- MCSockets
  c1 = c1
  p1 = p1
  p2 = p2
INVARIANTS FilesArePrefixes
