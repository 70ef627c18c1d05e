-------------------------- MODULE MCReportLifecycle --------------------------
(* Sessions are interchangeable. *)
EXTENDS ReportLifecycle, TLC

CONSTANTS s1, s2, key

Twins == Permutations({s1, s2})
==============================================================================
