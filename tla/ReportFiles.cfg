SPECIFICATION FilesSpec
CONSTANTS
  c1 = c1  c2 = c2  key = key  s1 = s1  s2 = s2
  Call = {c1, c2}
  Key = {key}
  KeyOf <- Keys
  Payload <- Payloads
  AmbiguousCommit = {}
  Artifact = {c1, c2}
  Recovery = {s1, s2}
  Startup = {s1}
  MaxErrors = 1
  None = None
SYMMETRY Twins
INVARIANTS
  FinalHasSidecar
  CompletedIsOnDisk
PROPERTIES
  RecoveryCleans
  OwnedPayloadSurvives
CHECK_DEADLOCK FALSE
