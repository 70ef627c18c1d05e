---------------------------- MODULE MCSchemeRuns ----------------------------
(* Two requests, two revisions of two contents, two completed attempts. *)
EXTENDS SchemeRuns, TLC

CONSTANTS q1, q2, seed, other, asSeeded, changed, i1, i2

Symmetry == Permutations(Request)
==============================================================================
