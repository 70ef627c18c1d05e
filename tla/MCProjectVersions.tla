-------------------------- MODULE MCProjectVersions --------------------------
(* Two requests at a time, two keys, two bundles, two versions. *)
EXTENDS ProjectVersions, TLC

CONSTANTS s1, s2, k1, k2, b1, b2, c1

Symmetry == Permutations(Session) \cup Permutations(Key) \cup Permutations(Bundle)
==============================================================================
