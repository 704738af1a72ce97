SPECIFICATION FairSpec
CONSTANTS
  BufferSize = 4
  TailSize = 1
  SeekSpan = 100
  LastBlock = 4
  WindowSize = 2
  PKT_TRNSMAX = 4
  Faults = {"drop", "flip", "dup", "reorder", "late", "kill"}
  MaxFaults = 3
  Capacity = 6
  rcopy = rcopy
  server = server
  ClientSocket = rcopy
  ChildSocket = server
  Sockets <- MCSockets
INVARIANTS TypeOK FileIsPrefix DoneMeansWholeFile WindowStaysReachable WindowIsContiguous FlowControl AcksAreTrue IInv
PROPERTIES CopiesTheFile TransferCompletes BothExit
