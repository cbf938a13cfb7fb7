SPECIFICATION Spec
CONSTANTS
  b1 = b1
  b2 = b2
  Bookings = {b1, b2}
  Fares = {f1, f2}
  SeatCount <- MCSeatCount
  FareRows <- MCFareRows
  Coupons <- MCCoupons
  Fallback <- MCFallback
  Trips <- MCTrips
  MaxChanges = 2
  None = None
SYMMETRY Symmetry
INVARIANTS
  AmountsAgree
  PricedAsShown
  CouponLimit
CHECK_DEADLOCK FALSE
