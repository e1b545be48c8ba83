\* Two devices write and sync one shared entry, no failures.
CONSTANTS
  Devices <- Two
  Editors <- Two
  Entries = {e1}
  Shared = {e1}
  Owner = 1
  InTrash = FALSE
  MemoryPeers <- Two
  EmptyBodies = FALSE
  CloudLoss = FALSE
  ChunkSize = 1
  MaxStamp = 3
  MaxOps = 2
  MaxFaults = 0
  MaxActive = 2
SPECIFICATION Spec
INVARIANTS TypeOK SettledDevicesAgree
PROPERTIES RowsMoveForward TextNeverDropped
