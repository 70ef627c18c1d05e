CONSTANTS
  s1 = s1
  s2 = s2
  k1 = k1
  k2 = k2
  b1 = b1
  b2 = b2
  c1 = c1
  Blank = blank
  Session = {s1, s2}
  Key = {k1, k2}
  Bundle = {b1, b2}
  Content = {blank}
  None = None
  MaxVersion = 2
  MaxExecution = 1
SPECIFICATION Spec
INVARIANTS
  NumbersAreDense
  ApprovedWasReviewed
  KeyNamesOneExecution
SYMMETRY Symmetry
CHECK_DEADLOCK FALSE
