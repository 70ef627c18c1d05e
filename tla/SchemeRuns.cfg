CONSTANTS
  q1 = q1
  q2 = q2
  seed = seed
  other = other
  asSeeded = asSeeded
  changed = changed
  i1 = i1
  i2 = i2
  Request = {q1, q2}
  Revision = {seed, other}
  Seed = seed
  Content = {asSeeded, changed}
  SeedContent = asSeeded
  Identity = {i1, i2}
  Nobody = Nobody
  MaxBinding = 2
  MaxRun = 1
SPECIFICATION Spec
INVARIANTS
  OneActiveRevision
  ReadbackWasTrusted
PROPERTIES
  ImplementsAuthority
SYMMETRY Symmetry
CHECK_DEADLOCK FALSE
