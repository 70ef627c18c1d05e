----------------------------- MODULE MCReportFiles -----------------------------
(* Two calls of one key and payload; a storage constructed by a process that starts and
   one beside the calls. *)
EXTENDS ReportFiles, TLC

CONSTANTS c1, c2, key, s1, s2

Keys == [c \in Call |-> key]
Payloads == [c \in Call |-> 1]
Twins == Permutations({c1, c2})
==============================================================================
