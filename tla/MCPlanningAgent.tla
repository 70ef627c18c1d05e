--------------------------- MODULE MCPlanningAgent ---------------------------
(* Two requests at a time, one key, two turns, three calls of which two in one turn. *)
EXTENDS PlanningAgent, TLC

CONSTANTS r1, r2, k1

Symmetry == Permutations(Request)
==============================================================================
