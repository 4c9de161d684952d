---------------------------- MODULE MCReadyFile ----------------------------
(* Three mounts of one ready path and two programs that disturb them.      *)
EXTENDS ReadyFile, TLC
CONSTANTS p1, p2, p3, f1, f2

MCProcs == {p1, p2, p3}
MCForeign == {f1, f2}
Symmetry == Permutations(MCProcs) \cup Permutations(MCForeign)
=============================================================================
