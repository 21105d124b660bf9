---------------------------- MODULE MCStaffDesk -----------------------------
(* StaffDesk for TLC: attendance entries, residents and requests are alike. *)
EXTENDS StaffDesk

Symmetry == Permutations(Requests) \cup Permutations(Entries) \cup Permutations(Residents)
=============================================================================
