SPECIFICATION Spec
CONSTANTS
  Visitors = {v1}
  Requests = {r1, r2, r3}
  MaxAborts = 2
  None = None
SYMMETRY Symmetry
INVARIANTS
  TypeOK
  AdmittedByResident
  VisitOnRecord
PROPERTIES
  FreshSavesFollowLifecycle
CHECK_DEADLOCK FALSE
