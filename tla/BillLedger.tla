----------------------------- MODULE BillLedger -----------------------------
(***************************************************************************)
(* What the billing side promises, whatever orders, browser callbacks and  *)
(* webhooks do underneath: a bill is pending, may become overdue, becomes   *)
(* paid only once the gateway holds money for it, and then stays paid; and *)
(* a bill the gateway holds money for is eventually paid.                  *)
(***************************************************************************)
CONSTANT Bills

VARIABLES status,   \* status[b]: what the resident is shown for bill b
          funded    \* the bills for which the gateway has captured money

vars == <<status, funded>>

Init == /\ status = [b \in Bills |-> "pending"]
        /\ funded = {}

\* The gateway captures money for b (possibly more than once).
Fund(b) == /\ funded' = funded \cup {b}
           /\ UNCHANGED status

\* The due date of b went by and somebody listed the bills.
Lapse(b) == /\ status[b] = "pending"
            /\ status' = [status EXCEPT ![b] = "overdue"]
            /\ UNCHANGED funded

\* The payment of b is acknowledged.
Settle(b) == /\ b \in funded
             /\ status[b] # "paid"
             /\ status' = [status EXCEPT ![b] = "paid"]
             /\ UNCHANGED funded

Next == \E b \in Bills : Fund(b) \/ Lapse(b) \/ Settle(b)

Safety == Init /\ [][Next]_vars

Spec == Safety /\ \A b \in Bills : WF_vars(Settle(b))
=============================================================================
