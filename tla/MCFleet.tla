------------------------------ MODULE MCFleet ------------------------------
(* Constants of the TLC run of Fleet. *)
EXTENDS Fleet, TLC

CONSTANTS k1, l1, l2

\* Two updates may mix the seats of both admin layouts; the seed goes seat by seat.
AdminLayouts == {{l1}, {l2}}
SeedLabels == {l1, l2}

\* The seats of the coach that the calls are about, whichever coach the trip has.
MCNamed == Row(k1, {l1, l2})

Symmetry == Permutations(Calls) \cup Permutations(Customers)

=============================================================================
