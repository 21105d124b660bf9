---------------------------- MODULE MCGuardDuty ----------------------------
(* GuardDuty for TLC: requests are alike.                                  *)
EXTENDS GuardDuty, TLC

Symmetry == Permutations(Requests)
=============================================================================
