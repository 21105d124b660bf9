SPECIFICATION Spec
CONSTANTS
  Complaints = {c1}
  Comments = {k1}
  Requests = {r1, r2}
  MaxAborts = 2
  None = None
SYMMETRY Symmetry
INVARIANTS
  TypeOK
  TimesTellTheStory
  ToldIsTrue
PROPERTIES
  FeedbackCloses
