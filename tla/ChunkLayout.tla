---------------------------- MODULE ChunkLayout ----------------------------
(***************************************************************************)
(* How a file is laid out: a file offset is cut into chunks, a chunk is    *)
(* covered by a list of slices in commit order, a slice is cut into blocks *)
(* and a block is found under the key (slice id, block index, block size). *)
(* Offsets and lengths are counted in cells, the unit that the properties  *)
(* tell apart.                                                             *)
(***************************************************************************)
EXTENDS Integers, Sequences, FiniteSets

CONSTANTS BlockSize, ChunkSize      \* BLOCK_SIZE and CHUNK_SIZE, in cells

ASSUME LayoutSizes ==
    /\ BlockSize \in Nat \ {0}
    /\ ChunkSize \in Nat \ {0}
    /\ ChunkSize % BlockSize = 0

Lesser(a, b) == IF a < b THEN a ELSE b
Greater(a, b) == IF a > b THEN a ELSE b

\* cal_chunk_idx and cal_chunk_offset.
ChunkIdx(off) == off \div ChunkSize
ChunkPos(off) == off % ChunkSize

\* locate_chunk: the closure that `map` runs once per chunk carries the
\* position in the chunk, the position in the buffer and what is left.
LocateChunk(off, n) ==
    LET first == ChunkIdx(off)
        last  == ChunkIdx(off + n - 1)
        at[k \in 0 .. last - first] ==
            IF k = 0
            THEN [idx |-> first, pos |-> ChunkPos(off), buf |-> 0,
                  len |-> Lesser(ChunkSize - ChunkPos(off), n)]
            ELSE LET p == at[k - 1]
                     pos == ChunkPos(p.pos + p.len)
                     buf == p.buf + p.len
                 IN [idx |-> first + k, pos |-> pos, buf |-> buf,
                     len |-> Lesser(ChunkSize - pos, n - buf)]
    IN [k \in 1 .. last - first + 1 |-> at[k - 1]]

\* cal_object_block_size.
ObjectBlockSize(length, b) == Lesser(length - b * BlockSize, BlockSize)

\* Mutant: the oldest slice wins.
OverlookOldest(slices, pos) ==
    LET covering == {i \in DOMAIN slices :
                        slices[i].pos <= pos /\ pos < slices[i].pos + slices[i].len}
    IN IF covering = {} THEN 0
       ELSE CHOOSE i \in covering : \A j \in covering : i <= j

\* Slices::overlook at one position: the range map keeps what was inserted
\* last, so the last slice of the list that covers the position; 0 if none.
Overlook(slices, pos) ==
    LET covering == {i \in DOMAIN slices :
                        slices[i].pos <= pos /\ pos < slices[i].pos + slices[i].len}
    IN IF covering = {} THEN 0
       ELSE CHOOSE i \in covering : \A j \in covering : j <= i

Hole == 0           \* what a reader gets where nothing was written
Missing == -1       \* the read fails: no slices or no such block

\* FileReader::read and read_slice_from_cache at one position of a chunk
\* that has the slices `slices`, against the blocks of `store`: a partial
\* function from <<slice id, block index, block size>> to its cells. For a
\* chunk without slices get_chunk_slices answers NotFound.
ReadCell(store, slices, pos) ==
    LET i == Overlook(slices, pos)
    IN IF slices = <<>> THEN Missing
       ELSE IF i = 0 \/ slices[i].id = 0 THEN Hole
       ELSE LET s   == slices[i]
                src == pos - s.pos
                b   == src \div BlockSize
                key == <<s.id, b, ObjectBlockSize(s.len, b)>>
            IN IF key \in DOMAIN store THEN store[key][src % BlockSize] ELSE Missing
=============================================================================
