CONSTANTS
  d1 = d1
  d2 = d2
  Devices = {d1, d2}
  MaxMasters = 2
  MaxFaults = 2
  Passwords = {p, q}
  p = p
  q = q
  Overlap = FALSE
SPECIFICATION CoreSpec
INVARIANTS
  TypeOK
  CloudWhole
  OnlyOvertakenPushStray
  JobsCanResume
  BootFileOpens
PROPERTIES
  ImplementsVault
SYMMETRY Symmetry
CHECK_DEADLOCK FALSE
