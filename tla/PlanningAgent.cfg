CONSTANTS
  r1 = r1
  r2 = r2
  k1 = k1
  Request = {r1, r2}
  Key = {k1}
  None = None
  MaxTurn = 2
  MaxCall = 3
  MaxProposed = 2
SPECIFICATION Spec
INVARIANTS
  SequencesAreDense
  KeyMakesOneTurn
  OutcomeSpendsToken
PROPERTIES
  NoRunAfterOutcome
  ImplementsConversation
SYMMETRY Symmetry
CHECK_DEADLOCK FALSE
