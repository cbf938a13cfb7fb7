SPECIFICATION FairSpec
CONSTANTS
  r1 = r1
  r2 = r2
  r3 = r3
  s1 = s1
  s2 = s2
  Seats = {s1}
  Requests = {r1, r2}
  Tokens = {r1, r2, r3}
  Token <- RetriedTokens
  Keyed = {r1, r2}
  NoToken = NoToken
  Outages = TRUE
INVARIANT
  OneBookingPerKey
PROPERTY
  EveryCallEnds
CHECK_DEADLOCK FALSE
