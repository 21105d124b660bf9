----------------------------- MODULE MCVisitors -----------------------------
(* Visitors for TLC: requests are alike.                                   *)
EXTENDS Visitors, TLC

Symmetry == Permutations(Requests)
=============================================================================
