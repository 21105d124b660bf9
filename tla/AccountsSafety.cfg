SPECIFICATION Spec
CONSTANTS
  Users = {u1}
  Flats = {f1}
  Elsewhere = Elsewhere
  Devices = {d1, d2}
  Requests = {r1, r2}
  MaxNow = 1
  MaxAborts = 1
  None = None
SYMMETRY Symmetry
INVARIANTS
  TypeOK
  RepetitionsOverlap
PROPERTIES
  ApprovalReachesFlat
  SessionsEndByLogout
CHECK_DEADLOCK FALSE
