SPECIFICATION FairSpec
CONSTANTS
  BufferSize = 4
  TailSize = 1
  LastBlock = 3
  PKT_TRNSMAX = 3
  Faults = {"flip", "cut", "kill"}
  MaxFaults = 2
  Clients = {c1, c2}
  Files = {c1}
  Twins = {}
  c1 = c1
  c2 = c2
INVARIANTS TypeOK InStep DoneMeansWholeFile FilesArePrefixes IInv
PROPERTIES CopiesEveryFile ServedInFull RcopyEndsAfterOneFault
CHECK_DEADLOCK FALSE
