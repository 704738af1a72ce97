SPECIFICATION Spec
CONSTANTS
  BufferSize = 4
  TailSize = 1
  LastBlock = 3
  PKT_TRNSMAX = 4
  Faults = {"flip", "cut"}
  MaxFaults = 3
  Clients = {c1}
  Files = {c1}
  Twins = {0, 1}
  c1 = c1
INVARIANTS FilesArePrefixes
CHECK_DEADLOCK FALSE
