------------------------------ MODULE MCReader ------------------------------
(* Two chunks of four cells, blocks of two. *)
EXTENDS Reader
CONSTANT c1

OneClient == {c1}
TwoChunks == {0, 1}

\* Every extent that reaches the second chunk from the first: no chunk is
\* left without slices.
AcrossExtents == {e \in (0 .. 7) \X (1 .. 8) : e[1] < 4 /\ e[1] + e[2] > 4 /\ e[1] + e[2] <= 8}
SomeReads == {<<0, 9>>, <<1, 6>>, <<2, 1>>, <<3, 2>>, <<5, 0>>, <<6, 4>>, <<8, 1>>}
=============================================================================
