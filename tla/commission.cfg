SPECIFICATION Spec
CONSTANTS
  Calls = {c1, c2, c3}
  Bookings = {b1}
  Orders = {o1, o2}
  NoBooking = NoBooking
  Share = 2
  Cap = 3
SYMMETRY Symmetry
INVARIANTS
  TypeOK
  OneRowPerBooking
  CreditedAfterDeparture
  EarnedWithinCap
  CreditedOnce
  CancelledPaysNothing
CHECK_DEADLOCK FALSE
