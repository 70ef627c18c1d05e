SPECIFICATION FairSpec
CONSTANTS
  c1 = c1  c2 = c2  c3 = c3  other = other  lone = lone  key = key
  Call = {c1, c2, c3}
  Key = {key}
  KeyOf <- Keys
  Payload <- Payloads
  AmbiguousCommit = {c1}
  None = None
INVARIANTS
  OpenArtifactIsClaimed
  OneResultPerKey
PROPERTIES
  CompletedIsFinal
  ImplementsPromise
  CallsEnd
CHECK_DEADLOCK FALSE
