------------------------- MODULE MCBookingLifecycle -------------------------
(* Constants of the TLC runs of BookingLifecycle. *)
EXTENDS BookingLifecycle, TLC

\* Calls are alike until they read the row.
Symmetry == Permutations(Calls)

=============================================================================
