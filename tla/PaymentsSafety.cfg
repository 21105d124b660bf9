SPECIFICATION Spec
CONSTANTS
  Bills = {b1}
  Orders = {o1, o2}
  Pays = {p1, p2}
  Requests = {r1, r2}
  OddMethod = {}
  EventsCarryId = TRUE
  MaxAborts = 1
  None = None
SYMMETRY Symmetry
INVARIANTS
  TypeOK
  CapturesAreReal
  InvoiceShowsPayment
  ConfirmedOnlyIfPaid
  RecordedCaptureSettles
PROPERTIES
  ImplementsLedgerSafety
