---------------------------- MODULE SliceBuffer ----------------------------
(***************************************************************************)
(* SliceBuffer: the bytes of a slice in pages of the shared pool, block by *)
(* block, until they are staged in the file cache (stage, flush_v2) or     *)
(* uploaded (flush_bulk_to, flush). A buffer has one operation at a time   *)
(* (its methods take &mut self); the buffers of a mount run concurrently   *)
(* and compete for the pages.                                              *)
(***************************************************************************)
EXTENDS PagePool, FiniteSetsExt, Ordered

CONSTANTS
    Buffers,
    BlockSize, ChunkSize,
    WriteSizes,     \* how many bytes a write may bring
    MaxWrites,      \* bound on the writes to the slices that are open
    Sinks,          \* "stage" and "object": where the blocks may go
    MaxGap          \* how far past the end of the slice a write may start

ASSUME SliceBufferConstants ==
    /\ BlockSize \in Nat \ {0} /\ ChunkSize \in Nat
    /\ BlockSize % PageSize = 0 /\ ChunkSize % BlockSize = 0 /\ ChunkSize > 0
    /\ WriteSizes \subseteq Nat \ {0} /\ Sinks \subseteq {"stage", "object"}

VARIABLES
    buf,        \* the SliceBuffer of each slice
    op,         \* the operation each buffer is executing
    out,        \* the blocks of each slice in the cache or the object store
    want,       \* history: what the writes to each slice have written
    writes,     \* history: their number
    sealed,     \* the SliceWriter is Flushing or Committing: the last flush and the commit
    torn        \* history: short last blocks that were stored when a commit failed

sliceVars == <<buf, op, out, want, writes, sealed, torn>>
vars == <<poolVars, sliceVars>>

NoPage == "none"
Idle == [pc |-> "idle"]
Blocks == 0 .. ChunkSize \div BlockSize - 1
BlockPages == 0 .. BlockSize \div PageSize - 1
Offsets == 0 .. ChunkSize - 1

\* Block::Empty, and Block::new_data_block before its first byte.
Empty == [len |-> 0, pages |-> [i \in BlockPages |-> NoPage]]
PagesOf(block) == {i \in BlockPages : block.pages[i] # NoPage}
Held(b) == UNION {{<<k, i>> : i \in PagesOf(buf[b].slots[k])} : k \in Blocks}
PageSeq(block) ==
    [i \in 1 .. Cardinality(PagesOf(block)) |-> block.pages[Ascending(PagesOf(block))[i]]]

NewBuffer == [length |-> 0, flushed |-> 0, cnt |-> 0, slots |-> [k \in Blocks |-> Empty]]

Init ==
    /\ PoolInit
    /\ buf = [b \in Buffers |-> NewBuffer]
    /\ op = [b \in Buffers |-> Idle]
    /\ out = [b \in Buffers |-> [key \in {} |-> <<>>]]
    /\ want = [b \in Buffers |-> [x \in Offsets |-> 0]]
    /\ writes = [b \in Buffers |-> 0]
    /\ sealed = [b \in Buffers |-> FALSE] /\ torn = [b \in Buffers |-> {}]
-----------------------------------------------------------------------------
\* The first page of a write, and one past its last, over the whole slice.
FirstPage(off) == off \div PageSize
LastPage(end) == (end - 1) \div PageSize
Slot(g) == <<g \div Cardinality(BlockPages), g % Cardinality(BlockPages)>>

\* reserve_pages_for_write: the pages the write needs and the slice lacks.
Missing(b, off, end) ==
    LET lacking == {g \in FirstPage(off) .. LastPage(end) : Slot(g) \notin Held(b)}
    IN [i \in 1 .. Cardinality(lacking) |-> Slot(Ascending(lacking)[i])]

\* write_at, up to its checks of the range: within the chunk, not below what
\* was flushed. The SliceWriter only writes where find_writable_slice_writer
\* let it (up to MaxGap past the end), when it is Idle or Dirty: not during its
\* last flush and its commit, but again once one of the two has failed.
WriteBegin(b, off, n) ==
    /\ op[b] = Idle /\ ~sealed[b] /\ MapThenSumSet(LAMBDA x : writes[x], Buffers) < MaxWrites
    /\ off + n <= ChunkSize /\ off >= buf[b].flushed
    /\ off <= buf[b].length + MaxGap
    /\ op' = [op EXCEPT ![b] = [pc |-> "reserve", off |-> off, n |-> n, at |-> "mem",
                                got |-> <<>>, missing |-> Missing(b, off, off + n)]]
    /\ writes' = [writes EXCEPT ![b] = @ + 1]
    /\ UNCHANGED <<poolVars, buf, out, want, sealed, torn>>

\* try_acquire_page for the next missing page: the memory queue, then the
\* disk queue; other buffers may take and return pages in between.
Reserve(b) ==
    LET o == op[b] IN
    /\ o.pc = "reserve" /\ Len(o.got) < Len(o.missing)
    /\ IF free[o.at] # <<>>
       THEN /\ free' = [free EXCEPT ![o.at] = Tail(@)]
            /\ op' = [op EXCEPT ![b].got = Append(@, Head(free[o.at])), ![b].at = "mem"]
       ELSE /\ op' = [op EXCEPT ![b] = IF o.at = "mem" THEN [o EXCEPT !.at = "disk"]
                                       ELSE [pc |-> "exhausted", got |-> o.got]]
            /\ UNCHANGED free
    /\ UNCHANGED <<bytes, permit, waiters, taker, buf, out, want, writes, sealed, torn>>

\* Mutant: the pages of a failed reservation are not returned.
ExhaustedForgets(b) ==
    /\ op[b].pc = "exhausted"
    /\ op' = [op EXCEPT ![b] = Idle]
    /\ UNCHANGED <<poolVars, buf, out, want, writes, sealed, torn>>

\* PagePoolExhausted: the pages reserved so far are dropped, nothing is
\* written.
Exhausted(b) ==
    /\ op[b].pc = "exhausted"
    /\ Drop(op[b].got, taker)
    /\ op' = [op EXCEPT ![b] = Idle]
    /\ UNCHANGED <<buf, out, want, writes, sealed, torn>>

\* The slots with the reserved pages in the places that missed one.
Install(slots, missing, got) ==
    [k \in Blocks |->
        [slots[k] EXCEPT !.pages =
            [i \in BlockPages |->
                IF \E j \in DOMAIN missing : missing[j] = <<k, i>>
                THEN got[CHOOSE j \in DOMAIN missing : missing[j] = <<k, i>>]
                ELSE slots[k].pages[i]]]]

\* How far a write to [off, end) fills block k.
FilledTo(slots, k, off, end) ==
    IF end <= k * BlockSize \/ off >= (k + 1) * BlockSize THEN slots[k].len
    ELSE Max({slots[k].len, Min({end, (k + 1) * BlockSize}) - k * BlockSize})

\* The page of slots that stores byte x of the slice.
PageAt(slots, x) == slots[x \div BlockSize].pages[(x % BlockSize) \div PageSize]

\* The rest of write_at: install the pages, copy the data page by page and
\* maximise the lengths of the blocks and of the slice.
WriteData(b) ==
    LET o == op[b]
        end == o.off + o.n
        installed == Install(buf[b].slots, o.missing, o.got)
        slots == [k \in Blocks |-> [installed[k] EXCEPT !.len = FilledTo(installed, k, o.off, end)]]
        written == o.off .. end - 1
    IN /\ o.pc = "reserve" /\ Len(o.got) = Len(o.missing)
       /\ bytes' = [p \in Pages |-> [i \in PageBytes |->
                      IF \E x \in written : PageAt(slots, x) = p /\ x % PageSize = i
                      THEN writes[b] ELSE bytes[p][i]]]
       /\ buf' = [buf EXCEPT ![b].slots = slots, ![b].length = Max({@, end}),
                             ![b].cnt = @ + Len(o.got)]
       /\ want' = [want EXCEPT ![b] = [x \in Offsets |-> IF x \in written THEN writes[b] ELSE @[x]]]
       /\ op' = [op EXCEPT ![b] = Idle]
       /\ UNCHANGED <<free, permit, waiters, taker, out, writes, sealed, torn>>
-----------------------------------------------------------------------------
\* flush and flush_v2 round the length up to a whole block.
RoundUp(n) == ((n - 1) \div BlockSize + 1) * BlockSize

\* Mutant: a block is flushed once it has been started.
PendingStarted(b, offset) == {k \in Blocks : PagesOf(buf[b].slots[k]) # {} /\ k * BlockSize < offset}

\* The blocks a flush up to offset takes, in order of their index.
Pending(b, offset) == {k \in Blocks : PagesOf(buf[b].slots[k]) # {} /\ (k + 1) * BlockSize <= offset}

\* stage and flush_bulk_to with an offset inside the slice (flush_bulk: its
\* length), refused below what was flushed before.
FlushBulk(b, sink, offset) ==
    /\ op[b] = Idle /\ ~sealed[b] /\ buf[b].flushed <= offset /\ offset <= buf[b].length
    /\ Pending(b, offset) # {}
    /\ op' = [op EXCEPT ![b] = [pc |-> sink, todo |-> Pending(b, offset), released |-> 0]]
    /\ UNCHANGED <<poolVars, buf, out, want, writes, sealed, torn>>

\* flush_v2 and flush: the whole slice, its short last block included.
FlushAll(b, sink) ==
    /\ op[b] = Idle /\ ~sealed[b] /\ buf[b].length > 0
    /\ op' = [op EXCEPT ![b] = [pc |-> sink, todo |-> Pending(b, RoundUp(buf[b].length)), released |-> 0]]
    /\ sealed' = [sealed EXCEPT ![b] = TRUE]
    /\ UNCHANGED <<poolVars, buf, out, want, writes, torn>>

\* copy_data_block_to_object_storage, and the same loop of the file cache: a
\* page that is missing is written as zeros.
BlockBytes(block) ==
    [i \in 0 .. block.len - 1 |->
        LET p == block.pages[i \div PageSize] IN IF p = NoPage THEN 0 ELSE bytes[p][i % PageSize]]

\* cal_object_block_size: how long block k of a slice of that length is.
ObjectBlockSize(length, k) == Min({length - k * BlockSize, BlockSize})

\* read_slice_from_object_storage: block by block, the name of each worked
\* out from the length of the slice; <<>> when a block is not there.
ReadSlice(b, length, off, n) ==
    LET end == Min({length, off + n})
        At(x) == <<x \div BlockSize, ObjectBlockSize(length, x \div BlockSize)>>
    IN IF \E x \in off .. end - 1 : At(x) \notin DOMAIN out[b] THEN <<>>
       ELSE [i \in 1 .. Max({end, off}) - off |-> out[b][At(off + i - 1)][(off + i - 1) % BlockSize]]

\* read_at: up to the length of the slice, zeros where there is no page.
ReadAt(b, off, n) ==
    [i \in 1 .. Max({Min({buf[b].length, off + n}), off}) - off |->
        LET p == PageAt(buf[b].slots, off + i - 1)
        IN IF p = NoPage THEN 0 ELSE bytes[p][(off + i - 1) % PageSize]]

\* Mutant: stage counts the pages off block by block and at the end.
FlushBlockCountsTwice(b) ==
    LET k == Min(op[b].todo)
        block == buf[b].slots[k]
        n == Cardinality(PagesOf(block))
    IN /\ op[b].pc \in {"stage", "object"} /\ op[b].todo # {}
       /\ Drop(PageSeq(block), taker)
       /\ buf' = [buf EXCEPT ![b].slots[k] = Empty, ![b].cnt = @ - n,
                             ![b].flushed = Max({@, k * BlockSize + block.len})]
       /\ op' = [op EXCEPT ![b].todo = @ \ {k}, ![b].released = @ + n]
       /\ UNCHANGED <<out, want, writes, sealed, torn>>

\* One block is stored under its length, its pages are dropped. Uploads
\* count the pages off block by block, stage only when all blocks are done.
FlushBlock(b) ==
    LET k == Min(op[b].todo)
        block == buf[b].slots[k]
        n == Cardinality(PagesOf(block))
        key == <<k, block.len>>
    IN /\ op[b].pc \in {"stage", "object"} /\ op[b].todo # {}
       /\ out' = [out EXCEPT ![b] = [x \in DOMAIN @ \cup {key} |-> IF x = key THEN BlockBytes(block) ELSE @[x]]]
       /\ Drop(PageSeq(block), taker)
       /\ buf' = [buf EXCEPT ![b].slots[k] = Empty,
                             ![b].flushed = Max({@, k * BlockSize + block.len}),
                             ![b].cnt = IF op[b].pc = "object" THEN @ - n ELSE @]
       /\ op' = [op EXCEPT ![b].todo = @ \ {k},
                           ![b].released = IF op[b].pc = "object" THEN 0 ELSE @ + n]
       /\ UNCHANGED <<want, writes, sealed, torn>>

\* The block cannot be stored: the operation returns the error, what it has
\* already flushed stays flushed. After the last flush the SliceWriter is Dirty
\* again (reset_after_flush_failure).
FlushFails(b) ==
    /\ op[b].pc \in {"stage", "object"} /\ op[b].todo # {}
    /\ op' = [op EXCEPT ![b] = Idle] /\ sealed' = [sealed EXCEPT ![b] = FALSE]
    /\ UNCHANGED <<poolVars, buf, out, want, writes, torn>>

FlushDone(b) ==
    /\ op[b].pc \in {"stage", "object"} /\ op[b].todo = {}
    /\ buf' = [buf EXCEPT ![b].cnt = @ - op[b].released]
    /\ op' = [op EXCEPT ![b] = Idle]
    /\ UNCHANGED <<poolVars, out, want, writes, sealed, torn>>

\* The last flush succeeded and the commit of the slice fails: the SliceWriter is
\* Idle again (reset_after_commit_failure).
CommitFails(b) ==
    /\ op[b] = Idle /\ sealed[b] /\ sealed' = [sealed EXCEPT ![b] = FALSE]
    /\ torn' = [torn EXCEPT ![b] = IF buf[b].length % BlockSize = 0 THEN @
                                   ELSE @ \cup {buf[b].length \div BlockSize}]
    /\ UNCHANGED <<poolVars, buf, op, out, want, writes>>

\* The SliceWriter drops its buffer, flushed or not, and a new slice starts.
DropBuffer(b) ==
    /\ op[b] = Idle /\ writes[b] > 0
    /\ Drop(FoldSet(LAMBDA k, s : s \o PageSeq(buf[b].slots[k]), <<>>, Blocks), taker)
    /\ buf' = [buf EXCEPT ![b] = NewBuffer]
    /\ out' = [out EXCEPT ![b] = [key \in {} |-> <<>>]]
    /\ want' = [want EXCEPT ![b] = [x \in Offsets |-> 0]]
    /\ writes' = [writes EXCEPT ![b] = 0]
    /\ sealed' = [sealed EXCEPT ![b] = FALSE] /\ torn' = [torn EXCEPT ![b] = {}]
    /\ UNCHANGED op

Next ==
    \/ \E b \in Buffers :
         \/ \E off \in Offsets, n \in WriteSizes : WriteBegin(b, off, n)
         \/ Reserve(b) \/ Exhausted(b) \/ WriteData(b)
         \/ \E sink \in Sinks : FlushAll(b, sink) \/ \E offset \in 0 .. ChunkSize : FlushBulk(b, sink, offset)
         \/ FlushBlock(b) \/ FlushFails(b) \/ FlushDone(b) \/ CommitFails(b)
         \/ DropBuffer(b)
    \/ \E t \in Takers : TakerStep(t) /\ UNCHANGED sliceVars

Spec == Init /\ [][Next]_vars
-----------------------------------------------------------------------------
\* How often page p is owned: queued, reserved by a write, held by a taker
\* or part of a block.
Owners(p) ==
    LET queued(q) == Cardinality({i \in DOMAIN free[q] : free[q][i] = p})
        reserved(b) == IF op[b].pc \in {"reserve", "exhausted"}
                       THEN Cardinality({i \in DOMAIN op[b].got : op[b].got[i] = p}) ELSE 0
        stored(b) == Cardinality({s \in Held(b) : buf[b].slots[s[1]].pages[s[2]] = p})
        taken == Cardinality({t \in Takers : taker[t].pc = "hold" /\ taker[t].page = p})
    IN queued("mem") + queued("disk") + taken
         + MapThenSumSet(LAMBDA b : reserved(b) + stored(b), Buffers)

\* The queues hold pages of their own pool, lengths stay within the chunk.
TypeOK ==
    /\ \A q \in Pools : \A i \in DOMAIN free[q] : PoolOf(free[q][i]) = q
    /\ \A b \in Buffers : buf[b].flushed <= buf[b].length /\ buf[b].length <= ChunkSize

\* Every page of the pool has exactly one owner, through reservations that
\* fail half way, flushes that fail half way and buffers that are dropped: no
\* page is lost to the mount or shared by two slices.
PagesConserved == \A p \in Pages : Owners(p) = 1

\* total_page_cnt covers the pages of the blocks and those the running stage
\* will still subtract: neither subtraction underflows, whatever failed.
CountCoversPages ==
    \A b \in Buffers :
        buf[b].cnt >= Cardinality(Held(b)) + (IF op[b].pc = "stage" THEN op[b].released ELSE 0)

\* What a read of byte x of the slice gives: from the stored blocks, by the
\* names read_slice_from_object_storage works out, once it was flushed, and from
\* the buffer before.
ByteOf(b, x) ==
    IF x < buf[b].flushed THEN ReadSlice(b, buf[b].length, x, 1) ELSE ReadAt(b, x, 1)

\* A failed commit let the slice be written on in the middle of a block that
\* was stored before, under its shorter length, with byte x.
Superseded(b, x) ==
    LET k == x \div BlockSize
    IN k \in torn[b] /\ \E n \in 1 .. ObjectBlockSize(buf[b].length, k) - 1 :
                           <<k, n>> \in DOMAIN out[b] /\ x % BlockSize < n

\* Every byte of a slice is what was last written to it, from the buffer and
\* from the stored blocks, whatever failed before: a write that found no page
\* has changed none of them, a page of another slice shows in none, and a slice
\* that is written on after a failed flush or commit loses no byte of the other
\* blocks nor what is written then. Excepted are the bytes of a short last
\* block that was stored before the commit failed and then written on.
ReadsBack ==
    \A b \in Buffers : \A x \in 0 .. buf[b].length - 1 :
        Superseded(b, x) \/ ByteOf(b, x) = <<want[b][x]>>

\* A SliceWriter whose flush or commit failed handles every case of a retry.
RetryReadsBack ==
    \A b \in Buffers : \A x \in 0 .. buf[b].length - 1 : ByteOf(b, x) = <<want[b][x]>>

\* SliceBufferStatus::page_cnt is the number of pages the buffer uses.
PageCountExact ==
    \A b \in Buffers : op[b] = Idle => buf[b].cnt = Cardinality(Held(b))

\* A caller of acquire_page does not sleep while the pool has a page for it.
NoSleeperBesideFreePage ==
    \A t \in Takers : taker[t].pc = "wait" => free["mem"] = <<>> /\ free["disk"] = <<>>
=============================================================================
