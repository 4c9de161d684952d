---------------------------- MODULE MCVfsHandles ---------------------------
(* Two open handles, a third that may be opened, three requests. *)
EXTENDS VfsHandles, TLC
CONSTANTS h1, h2, h3, r1, r2, r3

ThreeHandles == {h1, h2, h3}
Numbers == h1 :> 1 @@ h2 :> 2 @@ h3 :> 3
TwoOpened == {h1, h2}
\* A reader beside a writer and another writer later, and the reverse.
TwoModes == {(h1 :> "w" @@ h2 :> "r" @@ h3 :> "w"), (h1 :> "w" @@ h2 :> "w" @@ h3 :> "r")}
ThreeRequests == {r1, r2, r3}
TwoRequests == {r1, r2}
Symmetry == Permutations(ThreeRequests)

AllKinds == {"open", "read", "write", "flush", "release", "truncate"}
SomeEnds == {2}
ToZero == {0}
=============================================================================
