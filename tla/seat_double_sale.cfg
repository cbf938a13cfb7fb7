SPECIFICATION Spec
CONSTANTS
  r1 = r1
  r2 = r2
  r3 = r3
  s1 = s1
  s2 = s2
  Seats = {s1, s2}
  Requests = {r1, r2}
  Tokens = {r1, r2, r3}
  Token <- OwnTokens
  Keyed = {}
  NoToken = NoToken
  Outages = FALSE
INVARIANT
  NoDoubleSale
CHECK_DEADLOCK FALSE
