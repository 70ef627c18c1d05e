SPECIFICATION FairSpec
CONSTANTS
  e1 = e1  e2 = e2  bad = bad  w1 = w1  w2 = w2
  Event = {e1, e2, bad}
  Worker = {w1, w2}
  Corrupt = {bad}
  BatchSize = 2
  MaxFaults = 2
  None = None
INVARIANTS
  AuditMatchesPublished
PROPERTIES
  EventsEnd
  ClaimsAreFenced
  ImplementsDelivery
CHECK_DEADLOCK FALSE
