SPECIFICATION Spec
CONSTANTS
  Numbers = {n1}
  Forms = {"intl", "local", "zeros"}
  Emails = {e1}
  SeedEmail = e1
  SeedNumber = n1
  Codes = {c1, c2}
  Calls = {x1, x2}
  Accounts = {a1, a2}
  Servers = {s1, s2}
  None = None
  Gone = Gone
SYMMETRY Symmetry
INVARIANTS
  OneAccountPerNumber
  OneAccountPerCode
  GoodCodesAccepted
CHECK_DEADLOCK FALSE
