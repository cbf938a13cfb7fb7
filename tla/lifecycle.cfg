SPECIFICATION FairSpec
CONSTANTS
  Calls = {c1, c2, c3}
  Sale = Sale
INVARIANTS
  TypeOK
  ConfirmedIsTicketed
  RefundOfReceivedMoney
  DeletedLeavesNothing
PROPERTIES
  LedgerSpec
  HeldIsResolved
CHECK_DEADLOCK FALSE
