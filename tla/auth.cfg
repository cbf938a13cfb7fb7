SPECIFICATION Spec
CONSTANTS
  Calls = {c1, c2, c3, c4}
  MaxFailed = 2
  LastSecond = 1
  LastPassword = 2
SYMMETRY Symmetry
INVARIANTS
  TypeOK
  LockOutAfterMax
  TokenUsedOnce
  OldSessionsAccountedFor
CHECK_DEADLOCK FALSE
