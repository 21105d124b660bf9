----------------------------- MODULE MCAccounts -----------------------------
(* Accounts for TLC: requests are alike, and so are browsers.              *)
EXTENDS Accounts, TLC

Symmetry == Permutations(Requests) \cup Permutations(Devices)
=============================================================================
