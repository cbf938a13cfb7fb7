SPECIFICATION FleetSpec
CONSTANTS
  k1 = k1
  l1 = l1
  l2 = l2
  Coaches = {k1, k2}
  Managed = {k1}
  MaxLocks = 1
  Named <- MCNamed
  Calls = {c1, c2}
  Customers = {b1, b2}
  Labels = {l1, l2}
  Layouts <- AdminLayouts
  SeedLayout <- SeedLabels
  None = None
SYMMETRY Symmetry
INVARIANTS
  LayoutWhole
  AvailabilityAgrees
  SeatSoldOnce
CHECK_DEADLOCK FALSE
