\* Writes are published and reach every device; lost files return.
CONSTANTS
  Devices <- Two
  Editors <- Two
  Entries = {e1}
  Shared = {e1}
  Owner = 1
  InTrash = TRUE
  MemoryPeers <- Two
  EmptyBodies = FALSE
  CloudLoss = TRUE
  ChunkSize = 1
  MaxStamp = 3
  MaxOps = 2
  MaxFaults = 1
  MaxActive = 1
SPECIFICATION FairSpec
PROPERTIES EventuallyNothingPending EventuallyDrained LostFilesReturn
