---------------------------- MODULE MCCommission ----------------------------
(* Constants of the TLC runs of Commission. *)
EXTENDS Commission, TLC

\* Handler calls are alike, bookings are alike, orders are alike.
Symmetry == Permutations(Calls) \cup Permutations(Bookings) \cup Permutations(Orders)

=============================================================================
