----------------------------- MODULE MCAccounts -----------------------------
(* Constants of the TLC run of Accounts. *)
EXTENDS Accounts, TLC

Symmetry ==
    Permutations(Codes) \cup Permutations(Calls) \cup Permutations(Accounts)
        \cup Permutations(Servers)

=============================================================================
