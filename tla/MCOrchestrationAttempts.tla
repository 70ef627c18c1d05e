----------------------- MODULE MCOrchestrationAttempts -----------------------
(* Three callers of one identity, or two identities side by side. *)
EXTENDS OrchestrationAttempts, TLC

CONSTANTS r1, r2, r3, i1, i2

OneIdentity == [r \in Request |-> i1]
TwoIdentities == [r \in Request |-> IF r = r3 THEN i2 ELSE i1]

Callers == Permutations(Request)
==============================================================================
