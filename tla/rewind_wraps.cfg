SPECIFICATION Spec
CONSTANTS
  BufferSize = 4
  TailSize = 1
  SeekSpan = 4
  LastBlock = 5
  WindowSize = 2
  PKT_TRNSMAX = 3
  Faults = {"dup", "reorder", "late"}
  MaxFaults = 3
  Capacity = 6
  rcopy = rcopy
  server = server
  ClientSocket = rcopy
  ChildSocket = server
  Sockets <- MCSockets
INVARIANTS FileIsPrefix
