SPECIFICATION Spec
CONSTANTS
  BufferSize = 4
  TailSize = 1
  SeekSpan = 100
  LastBlock = 2
  WindowSize = 2
  PKT_TRNSMAX = 2
  Faults = {"drop", "dup", "reorder", "late"}
  MaxFaults = 1
  Capacity = 8
  Clients = {c1, c2}
  Ports = {p1, p2, p3}
  Files = {c1, c2}
  ListenSocket = server
  Sockets <- MCSockets
  c1 = c1
  c2 = c2
  p1 = p1
  p2 = p2
  p3 = p3
INVARIANTS WindowsStayReachable IInv
PROPERTIES ChildrenShareNoPort
SYMMETRY PortSymmetry
