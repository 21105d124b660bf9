SPECIFICATION FairSpec
CONSTANTS
  Bills = {b1}
  Orders = {o1}
  Pays = {p1, p2}
  Requests = {r1}
  OddMethod = {}
  EventsCarryId = TRUE
  MaxAborts = 1
  None = None
PROPERTIES
  ImplementsLedger
CHECK_DEADLOCK FALSE
