------------------------------ MODULE MCWriter ------------------------------
(* Small files: blocks of two cells and chunks of four.                     *)
EXTENDS Writer
CONSTANTS c1, c2

OneClient == {c1}
TwoClients == {c1, c2}
OneChunk == {0}
TwoChunks == {0, 1}
ThreeChunks == {0, 1, 2}

\* Every extent of up to three cells in two chunks.
ShortExtents == {e \in (0 .. 7) \X (1 .. 3) : e[1] + e[2] <= 8}
\* Three whole blocks.
BlockExtents == {<<0, 2>>, <<2, 2>>, <<4, 2>>}

\* One client appends any short extent across two chunks.
Appends == [clients |-> OneClient, extents |-> ShortExtents, workload |-> "append",
            writes |-> 3, kinds |-> {"flush", "fsync"}, faults |-> {"stage", "remote"}]
\* Two clients write whole blocks at the same time.
Disjoint == [clients |-> TwoClients, extents |-> BlockExtents, workload |-> "disjoint",
             writes |-> 2, kinds |-> {"flush", "close"}, faults |-> {"pages", "stage", "commit"}]
Both == {Appends, Disjoint}

\* One client writes wherever it likes.
Anywhere(extents, writes) ==
    [clients |-> OneClient, extents |-> extents, workload |-> "any",
     writes |-> writes, kinds |-> {"flush"}, faults |-> {}]
UnalignedOnce == {Anywhere({<<1, 3>>}, 1)}

\* Further plans, for one property each: see the README.
Overlap3 == {Anywhere({<<0, 1>>, <<2, 1>>, <<1, 2>>}, 3)}
Retry == {[Anywhere({<<0, 1>>, <<1, 2>>}, 2) EXCEPT !.workload = "append", !.faults = {"commit"}]}
Rewrite == {Anywhere({<<1, 2>>}, 2)}
Cross == {[Anywhere({<<3, 2>>}, 1) EXCEPT !.faults = {"pages"}]}
Spread == {Anywhere({<<0, 1>>, <<4, 1>>, <<8, 1>>}, 3)}
Sparse == {Anywhere({<<4, 2>>}, 1)}
Reopen == {[Anywhere({<<0, 1>>, <<1, 2>>}, 2) EXCEPT !.workload = "append",
                                                     !.kinds = {"close", "fsync"}]}
=============================================================================
