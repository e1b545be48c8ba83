CONSTANTS
  D1 = D1
  D2 = D2
  Devices <- Two
  MaxGen = 2
  MaxJobs = 2
SPECIFICATION Spec
CHECK_DEADLOCK FALSE
INVARIANTS
  TypeOK
  HolderOwnsFence
  NoOrphanMarker
  PartialCloudIsFenced
  FencedJobsHoldTheLease
PROPERTY LeaseHandover
SYMMETRY Perms
