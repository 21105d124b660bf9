SPECIFICATION AlertFairSpec
CONSTANTS
  Alerts = {a1, a2}
  Responders = {u1, u2, u3}
  Incidents = {i1}
INVARIANTS
  AlertTypeOK
  BroadcastMeansTold
PROPERTIES
  EveryResponderIsTold
CHECK_DEADLOCK FALSE
