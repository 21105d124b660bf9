SPECIFICATION Spec
CONSTANTS
  AllFlats = {f1, f2}
  Periods = {p1, p2}
  Requests = {r1, r2}
  MaxAborts = 1
  None = None
SYMMETRY Symmetry
INVARIANTS
  TypeOK
  ChargedAndReportedOnce
  GenerationCovers
PROPERTIES
  CollisionIsARace
  NothingLost
