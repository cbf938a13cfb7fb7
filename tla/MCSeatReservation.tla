------------------------- MODULE MCSeatReservation -------------------------
(* Constants of the TLC runs of SeatReservation. *)
EXTENDS SeatReservation, TLC

CONSTANTS r1, r2, r3, s1, s2

\* Without a key a call owns its locks under a UUID of its own.
OwnTokens == [r \in Requests |-> r]

\* Every request repeats r1 with the same idempotency key.
RetriedTokens == [r \in Requests |-> r1]

\* Unkeyed calls differ only in their identity, as do seats.
Symmetry == Permutations(Requests) \cup Permutations(Seats)

=============================================================================
