---------------------------- MODULE MCDailyTrips ----------------------------
(* Constants of the TLC run of DailyTrips. *)
EXTENDS DailyTrips, TLC

\* Calls are alike, and so are slots that do not share a coach and a time.
Symmetry == Permutations(Calls) \cup Permutations(Slots)

OwnDeparture == [s \in Slots |-> s]

=============================================================================
