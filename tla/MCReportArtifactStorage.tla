------------------------ MODULE MCReportArtifactStorage ------------------------
(* Two artifacts, a recovery of a process that starts and one beside requests. *)
EXTENDS ReportArtifactStorage, TLC

CONSTANTS a1, a2, s1, s2

Artifacts == Permutations({a1, a2})
==============================================================================
