CONSTANTS
  s1 = s1
  s2 = s2
  s3 = s3
  Session = {s1, s2, s3}
  MaxRevision = 2
  MaxAudit = 3
SPECIFICATION Spec
INVARIANTS
  NumbersAreDense
PROPERTIES
  AuditTellsTheMove
SYMMETRY Symmetry
CHECK_DEADLOCK FALSE
