SPECIFICATION Spec
CONSTANTS
  Calls = {c1, c2}
  Slots = {s1}
  Departure <- OwnDeparture
  Window = 1
  LastDay = 2
  MaxTouched = 1
  None = None
SYMMETRY Symmetry
INVARIANTS
  DuplicateNeedsRace
  SeedCovers
CHECK_DEADLOCK FALSE
