SPECIFICATION FairSpec
CONSTANTS
  Bills = {b1}
  Orders = {o1}
  Pays = {p1, p2}
  Requests = {r1, r2}
  OddMethod = {}
  EventsCarryId = TRUE
  MaxAborts = 0
  None = None
PROPERTIES
  ImplementsLedger
