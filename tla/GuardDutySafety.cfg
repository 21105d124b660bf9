SPECIFICATION Spec
CONSTANTS
  Guards = {g1}
  Checkpoints = {c1}
  Requests = {r1, r2, r3}
  MaxLogs = 5
  MaxScans = 2
  MaxAborts = 2
  None = None
SYMMETRY Symmetry
INVARIANTS
  TypeOK
  StatusIsBacked
  ShiftsAreAudited
PROPERTIES
  FreshSavesFollowShifts
CHECK_DEADLOCK FALSE
