----------------------- MODULE MCCoefficientGovernance -----------------------
(* Three requests on two revisions. *)
EXTENDS CoefficientGovernance, TLC

CONSTANTS s1, s2, s3

Symmetry == Permutations(Session)
==============================================================================
