----------------------------- MODULE MCAccounts -----------------------------
(* Small instances of Accounts for TLC. *)
EXTENDS Accounts, TLC

Symmetry == Permutations(Users) \cup Permutations(Sessions) \cup Permutations(Requests)
=============================================================================
