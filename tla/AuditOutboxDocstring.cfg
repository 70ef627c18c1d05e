SPECIFICATION Spec
CONSTANTS
  e1 = e1  e2 = e2  bad = bad  w1 = w1  w2 = w2
  Event = {e1}
  Worker = {w1, w2}
  Corrupt = {}
  BatchSize = 2
  MaxFaults = 1
  None = None
PROPERTIES
  OtherErrorsAreRetried
CHECK_DEADLOCK FALSE
