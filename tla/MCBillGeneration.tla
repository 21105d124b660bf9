------------------------- MODULE MCBillGeneration -------------------------
(* BillGeneration for TLC: requests are alike, and so are flats.           *)
EXTENDS BillGeneration, TLC

Symmetry == Permutations(Requests) \cup Permutations(AllFlats)
=============================================================================
