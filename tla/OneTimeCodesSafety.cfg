SPECIFICATION Spec
CONSTANTS
  Phones = {p1}
  Requests = {r1, r2, r3}
  MaxTries = 2
  MaxAttempts = 3
  MaxCodes = 2
  MaxAborts = 1
  None = None
SYMMETRY Symmetry
INVARIANTS
  TypeOK
  TriesBounded
  LockedOutByTries
  LatestCodeWorks
PROPERTIES
  AcceptedOnce
CHECK_DEADLOCK FALSE
