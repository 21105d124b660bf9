---------------------------- MODULE MCComplaints ----------------------------
(* Complaints for TLC: requests are alike.                                 *)
EXTENDS Complaints, TLC

Symmetry == Permutations(Requests)
=============================================================================
