SPECIFICATION Spec
CONSTANTS
  BufferSize = 4
  TailSize = 0
  SeekSpan = 100
  LastBlock = 5
  WindowSize = 2
  PKT_TRNSMAX = 3
  Faults = {"drop", "flip", "late"}
  MaxFaults = 3
  Capacity = 8
  Clients = {c1}
  Ports = {p1, p2, p3, p4}
  Files = {c1}
  ListenSocket = server
  Sockets <- MCSockets
  c1 = c1
  p1 = p1
  p2 = p2
  p3 = p3
  p4 = p4
INVARIANTS TypeOK FilesArePrefixes WindowsFitTheirClients HandshakeIsInStep OneClientInv
PROPERTIES CopiesEveryFile ChildrenShareNoPort
SYMMETRY PortSymmetry
