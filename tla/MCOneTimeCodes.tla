--------------------------- MODULE MCOneTimeCodes ---------------------------
(* OneTimeCodes for TLC: requests are alike.                               *)
EXTENDS OneTimeCodes, TLC

Symmetry == Permutations(Requests)
=============================================================================
