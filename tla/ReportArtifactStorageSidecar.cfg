SPECIFICATION StorageSpec
CONSTANTS
  a1 = a1  a2 = a2  s1 = s1  s2 = s2
  Artifact = {a1, a2}
  Recovery = {s1, s2}
  Startup = {s1}
  MaxErrors = 1
SYMMETRY Artifacts
INVARIANTS
  PublishedHasSidecar
CHECK_DEADLOCK FALSE
