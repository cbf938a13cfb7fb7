SPECIFICATION Spec
CONSTANTS
  Orders = {1, 2}
  Sales = {s1, s2, s3}
  Admins = {a1, a2}
  MaxQuantity = 2
SYMMETRY Symmetry
INVARIANTS
  TypeOK
  OversoldNeedsRace
  NoTicketLost
  SoldWereApproved
CHECK_DEADLOCK FALSE
