--------------------------- MODULE MCMonthlyBonus ---------------------------
(* Constants of the TLC run of MonthlyBonus. *)
EXTENDS MonthlyBonus, TLC

\* Two tiers, scaled down: two bookings hold 1 to 4 tickets.
MCTiers == <<[target |-> 3, bonus |-> 25], [target |-> 2, bonus |-> 5]>>

Symmetry == Permutations(Agents) \cup Permutations(AgentBookings) \cup Permutations(Runs)

=============================================================================
