SPECIFICATION Spec
CONSTANTS
  s1 = s1  s2 = s2  key = key
  Session = {s1, s2}
  Key = {key}
  None = None
  MaxRevision = 2
  MaxRun = 1
  ReviewedRun = {1}
INVARIANT CompletedKeyIsReplayed
CHECK_DEADLOCK FALSE
