\* Device 2 creates two entries, or creates one and edits it; one failure or
\* restart anywhere, pulls in chunks of one.
CONSTANTS
  Devices <- Two
  Editors = {2}
  Entries = {e1, e2}
  Shared = {}
  Owner = 1
  InTrash = FALSE
  MemoryPeers <- None
  EmptyBodies = FALSE
  CloudLoss = FALSE
  ChunkSize = 1
  MaxStamp = 2
  MaxOps = 2
  MaxFaults = 1
  MaxActive = 2
SPECIFICATION Spec
INVARIANTS CachedMeansSeen OnlyPendingTextIsLocal TextInv
