--------------------------- MODULE MCSliceBuffer ---------------------------
(* Pages of two bytes, blocks of two pages, slices of two blocks: two       *)
(* slices want eight pages and the pools have three.                        *)
EXTENDS SliceBuffer, TLC
CONSTANTS b1, b2, t1, m1, m2, d1

TwoBuffers == {b1, b2}
OneTaker == {t1}
TwoMem == {m1, m2}
OneDisk == {d1}
Swap == Permutations(TwoBuffers)
Sizes == {1, 4}
BothSinks == {"stage", "object"}
=============================================================================
