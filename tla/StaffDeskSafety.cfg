SPECIFICATION Spec
CONSTANTS
  Staff = {s1}
  Flats = {f1}
  Entries = {a1, a2, a3}
  Residents = {p1, p2}
  Stars = {1, 2}
  Requests = {r1, r2}
  MaxReviews = 2
  MaxWages = 1
  MaxAborts = 1
  None = None
SYMMETRY Symmetry
INVARIANTS
  TypeOK
  RepetitionsOverlap
  RatingNeverOvercounts
PROPERTIES
  FreshReviewCounts
