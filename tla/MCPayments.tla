----------------------------- MODULE MCPayments -----------------------------
(* Payments for TLC.  All elements of a set of ids are alike while none of  *)
(* the attempts is made with an odd method.                                 *)
EXTENDS Payments, TLC

Symmetry == Permutations(Bills) \cup Permutations(Orders)
              \cup Permutations(Pays) \cup Permutations(Requests)

\* The payer closes the browser: only the webhooks report the payment.
NoCallbackSpec == Init /\ [][Next /\ \A r \in Requests : req'[r].op # "verify"]_vars
=============================================================================
