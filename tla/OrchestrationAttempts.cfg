SPECIFICATION FairSpec
CONSTANTS
  r1 = r1  r2 = r2  r3 = r3  i1 = i1  i2 = i2
  Request = {r1, r2, r3}
  Identity = {i1}
  IdentityOf <- OneIdentity
  None = None
  LeaseTimeout = 1
  MaxAcquireRetries = 2
  MaxClock = 2
INVARIANTS
  NumbersDense
  RunningIsNewest
  AuthoritativeIsLatest
  AbandonedHasSuccessor
  OutboxMatchesRows
PROPERTIES
  LeaseRespected
  ImplementsSingleFlight
  CallsEnd
CHECK_DEADLOCK FALSE
