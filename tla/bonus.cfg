SPECIFICATION BonusSpec
CONSTANTS
  Agents = {a1, a2}
  AgentBookings = {b1, b2}
  Runs = {r1, r2}
  Seats = {0, 2}
  Tiers <- MCTiers
  LastMonth = 2
  NoRow = NoRow
SYMMETRY Symmetry
INVARIANTS
  OneBonusPerMonth
  BonusCoversMonth
CHECK_DEADLOCK FALSE
