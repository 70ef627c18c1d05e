SPECIFICATION Spec
CONSTANTS
  c1 = c1  c2 = c2  c3 = c3  other = other  lone = lone  key = key
  Call = {c1, c2, c3, other}
  Key = {key}
  KeyOf <- Keys
  Payload <- Payloads
  AmbiguousCommit = {}
  None = None
SYMMETRY Twins
INVARIANTS
  ReplyHasOwnPayload
CHECK_DEADLOCK FALSE
