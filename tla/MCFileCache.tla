---------------------------- MODULE MCFileCache ----------------------------
(* Two blocks of one slice, in a stage that may be smaller than both. *)
EXTENDS FileCache
CONSTANTS k1, k2, s1

MCKeys == {k1, k2}
MCSlices == {s1}
MCSliceOf == [k \in MCKeys |-> s1]
=============================================================================
