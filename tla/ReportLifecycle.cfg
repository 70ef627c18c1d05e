SPECIFICATION Spec
CONSTANTS
  s1 = s1  s2 = s2  key = key
  Session = {s1, s2}
  Key = {key}
  None = None
  MaxRevision = 3
  MaxRun = 2
  ReviewedRun = {2}
INVARIANTS
  WritesAreCounted
  TrailEndsInStatus
  ApprovedIsReviewed
  OneRevisionPerKey
  ExportsAreApproved
PROPERTIES
  ImplementsReview
SYMMETRY Twins
CHECK_DEADLOCK FALSE
