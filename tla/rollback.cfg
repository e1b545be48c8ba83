CONSTANTS
  d1 = d1
  d2 = d2
  p = p
  q = q
  Devices = {d1, d2}
  MaxMasters = 1
  MaxFaults = 1
  Passwords = {p, q}
  Overlap = FALSE
SPECIFICATION Spec
PROPERTIES
  CommittedKeysStay
SYMMETRY Symmetry
CHECK_DEADLOCK FALSE
