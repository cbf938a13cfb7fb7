---------------------------- MODULE MCBulkQuota ----------------------------
(* Constants of the TLC runs of BulkQuota. *)
EXTENDS BulkQuota, TLC

\* Sales are alike, and so are admin calls; orders are not: they have an age.
Symmetry == Permutations(Sales) \cup Permutations(Admins)

=============================================================================
