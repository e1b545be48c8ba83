\* Three devices, one at a time in the cloud, an entry in Trash.
CONSTANTS
  Devices <- Three
  Editors <- Two
  Entries = {e1}
  Shared = {e1}
  Owner = 1
  InTrash = TRUE
  MemoryPeers <- Three
  EmptyBodies = FALSE
  CloudLoss = FALSE
  ChunkSize = 1
  MaxStamp = 4
  MaxOps = 2
  MaxFaults = 0
  MaxActive = 1
SPECIFICATION Spec
INVARIANTS RowsAreWrites SettledDevicesAgree
PROPERTIES ImplementsRegister
