-------------------------- MODULE MCReportRendering --------------------------
(* Calls c1, c2, c3 share a key and a payload, other has the key with another payload,
   lone has no key. *)
EXTENDS ReportRendering, TLC

CONSTANTS c1, c2, c3, other, lone, key

Keys == [c \in Call |-> IF c = lone THEN None ELSE key]
Payloads == [c \in Call |-> IF c = other THEN 2 ELSE 1]
Pair == Permutations({c1, c2})
Twins == Permutations({c1, c2, c3})
==============================================================================
