--------------------------- MODULE MCAuthSessions ---------------------------
(* Constants of the TLC runs of AuthSessions. *)
EXTENDS AuthSessions, TLC

\* Handler calls are alike.
Symmetry == Permutations(Calls)

=============================================================================
