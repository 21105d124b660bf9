------------------------------ MODULE MCAlerts ------------------------------
(* Alerts for TLC: liveness is checked, so without symmetry.               *)
EXTENDS Alerts
=============================================================================
