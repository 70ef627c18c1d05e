--------------------------- MODULE MCAuditOutbox ---------------------------
(* Two workers over three events, one of them corrupt. *)
EXTENDS AuditOutbox, TLC

CONSTANTS e1, e2, bad, w1, w2

Workers == Permutations(Worker)
==============================================================================
