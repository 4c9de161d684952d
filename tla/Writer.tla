------------------------------- MODULE Writer -------------------------------
(***************************************************************************)
(* The write path of one inode: FileWriter, its ChunkWriters and           *)
(* SliceWriters, the SliceBuffer under each of them, the flusher task and  *)
(* the flush, fsync and last-close requests.                               *)
(*                                                                         *)
(* A cell written by the n-th write holds n.  What a flush leaves behind   *)
(* is `store`, the staged blocks, and `meta`, the slices of every chunk:   *)
(* both survive a crash, everything else is memory.  The stage itself is   *)
(* module FileCache; here a block is staged or the stage call fails.       *)
(***************************************************************************)
EXTENDS ChunkLayout, SequencesExt

CONSTANTS
    Clients,        \* concurrent write requests
    Chunks,         \* chunk indexes 0 .. n
    WriterLimit,    \* 1000 in FileWriter::write
    EarlyFlush,     \* 3 in ChunkWriter::find_writable_slice_writer
    Plans           \* of the exploration: who writes which <<offset, length>>
                    \* pairs ("append" at the end, "disjoint" or "any") and how
                    \* often, the other requests issued, the failures considered

ASSUME WriterConstants == \A p \in Plans :
    /\ p.clients \subseteq Clients /\ p.writes \in Nat
    /\ p.extents \subseteq Nat \X (Nat \ {0})
    /\ p.workload \in {"any", "append", "disjoint"}
    /\ p.kinds \subseteq {"flush", "fsync", "close"}
    /\ p.faults \subseteq {"pages", "stage", "commit", "remote"}

VARIABLES
    sw,         \* every SliceWriter ever made, in _internal_seq order
    chunks,     \* the keys of chunk_writers
    queue,      \* slice_flush_queue
    fl,         \* the FileWriterFlusher
    err,        \* flush_error is set
    count,      \* total_slice_writer_cnt
    published,  \* published_slices
    score, stop,\* WriterPattern
    length,     \* FileWriter.length
    permit,     \* slice_done_notify of every chunk holds a permit
    wr,         \* the write request of every client
    fin,        \* the request that holds operation_lock for writing
    store,      \* staged blocks: <<slice id, block, size>> -> cells
    meta,       \* slices of every chunk, in commit order
    remote,     \* slices that a flush_slice confirmed in the object store
    hist,       \* the writes: extent, the writes over before it began, status
    plan        \* the member of Plans this behaviour keeps to

mem == <<sw, chunks, queue, fl, err, count, published, score, stop, length, permit>>
durable == <<store, meta, remote>>
vars == <<mem, durable, wr, fin, hist, plan>>

Blocks == 0 .. ChunkSize \div BlockSize - 1
Stale == -2         \* a cell of a fresh page that no write has filled

Idle == [pc |-> "idle"]
NoReq == [kind |-> "none"]

Init ==
    /\ sw = <<>> /\ chunks = {} /\ queue = <<>>
    /\ fl = [pc |-> "idle", req |-> NoReq]
    /\ err = FALSE /\ count = 0 /\ published = {}
    /\ score = 0 /\ stop = 0 /\ length = 0
    /\ permit = [c \in Chunks |-> FALSE]
    /\ wr = [c \in Clients |-> Idle]
    /\ fin = [pc |-> "none"]
    /\ store = [k \in {} |-> <<>>] /\ meta = [c \in Chunks |-> <<>>] /\ remote = {}
    /\ hist = <<>> /\ plan \in Plans

-----------------------------------------------------------------------------
(* SliceBuffer. A block slot is Empty, <<>>, or holds its cells from 0 to   *)
(* the length of the data block.                                            *)

\* SliceBuffer::write_at once its pages are reserved: write n fills the
\* positions off .. off + len - 1 of the slice.
Buffered(s, off, len, n) ==
    LET cells(b) ==
            LET old == s.blocks[b]
                lo  == Greater(off, b * BlockSize) - b * BlockSize
                hi  == Lesser(off + len, (b + 1) * BlockSize) - b * BlockSize
            IN IF lo >= hi THEN old
               ELSE [i \in 1 .. Greater(Len(old), hi) |->
                        IF i > lo /\ i <= hi THEN n
                        ELSE IF i <= Len(old) THEN old[i] ELSE Stale]
    IN [s EXCEPT !.blocks = [b \in Blocks |-> cells(b)],
                 !.len = Greater(@, off + len)]

\* SliceBuffer::stage: the blocks that end at or before `limit`, in order.
Pending(s, limit) == {b \in Blocks : s.blocks[b] # <<>> /\ (b + 1) * BlockSize <= limit}

\* Mutant: the last, partial block is not part of a full flush.
NoRoundUp(n) == n

\* flush_v2 rounds the length up to whole blocks.
RoundUp(n) == ((n - 1) \div BlockSize + 1) * BlockSize

\* The buffer once the blocks of `bs` are staged.
Staged(s, bs) ==
    [s EXCEPT !.blocks = [b \in Blocks |-> IF b \in bs THEN <<>> ELSE @[b]],
              !.flushed = LET ends == {b * BlockSize + Len(s.blocks[b]) : b \in bs} \cup {@}
                          IN CHOOSE e \in ends : \A f \in ends : f <= e]

\* FileCache::stage keeps the block that is already there under the key.
Stored(i, bs) ==
    LET key(b) == <<i, b, Len(sw[i].blocks[b])>>
        new == {key(b) : b \in bs} \ DOMAIN store
    IN [k \in DOMAIN store \cup new |->
            IF k \in new THEN [x \in 0 .. k[3] - 1 |-> sw[i].blocks[k[2]][x + 1]]
            ELSE store[k]]

-----------------------------------------------------------------------------
(* SliceWriter: the flush requests and the state they leave behind.         *)

\* WriterPattern::is_seq.
IsSeq == score >= 0

\* Mutant: a SliceWriter that is being flushed is asked for again.
FlushReqAgain(i, seq, finish) ==
    IF sw[i].st = "Idle" /\ finish THEN <<[kind |-> "commit", s |-> i]>>
    ELSE IF sw[i].st \in {"Dirty", "Flushing"} /\ (finish \/ sw[i].len = ChunkSize)
         THEN <<[kind |-> "full", s |-> i]>>
    ELSE <<>>

\* make_flush_req: no request or one.
FlushReqOf(i, seq, finish) ==
    LET s == sw[i]
    IN IF s.st = "Idle" /\ finish THEN <<[kind |-> "commit", s |-> i]>>
       ELSE IF s.st = "Dirty" /\ (finish \/ s.len = ChunkSize)
            THEN <<[kind |-> "full", s |-> i]>>
       ELSE IF s.st = "Dirty" /\ s.len - s.flushed >= BlockSize /\ ~seq
            THEN <<[kind |-> "bulk", s |-> i, off |-> s.len]>>
       ELSE <<>>

ReqState(req) == IF req.kind = "commit" THEN "Committing" ELSE "Flushing"

\* The SliceWriters once the requests of `reqs` are made.
Requested(reqs) ==
    [i \in DOMAIN sw |->
        LET mine == {k \in DOMAIN reqs : reqs[k].s = i}
        IN IF mine = {} THEN sw[i]
           ELSE [sw[i] EXCEPT !.st = ReqState(reqs[CHOOSE k \in mine : TRUE])]]

SetState(i, st) == [sw EXCEPT ![i].st = st]

\* Mutant: the waiting finish is not notified.
NotifyNobody(i) == permit' = permit

Notify(i) == permit' = [permit EXCEPT ![sw[i].chunk] = TRUE]

-----------------------------------------------------------------------------
(* FileWriter::write, holding operation_lock for reading.                   *)

Over == {n \in DOMAIN hist : hist[n].st # "run"}
Write(e, st) == [off |-> e[1], len |-> e[2], before |-> Over, st |-> st]

Overlap(h, e) == h.off < e[1] + e[2] /\ e[1] < h.off + h.len

\* The environment: what the applications write.
CanStart(c, e) ==
    /\ wr[c].pc = "idle" /\ fin.pc = "none"
    /\ Len(hist) < plan.writes
    /\ plan.workload = "append" => e[1] = length
    /\ plan.workload = "disjoint" => \A n \in DOMAIN hist : ~Overlap(hist[n], e)

\* A background error is taken and the write refused.
WriteRefused(c, e) ==
    /\ CanStart(c, e) /\ err
    /\ err' = FALSE
    /\ hist' = Append(hist, Write(e, "err"))
    /\ UNCHANGED <<durable, sw, chunks, queue, fl, count, published, score, stop,
                   length, permit, wr, fin, plan>>

\* monitor_write_at: -5 and 20 are MAX_RANDOM_SCORE and MAX_SEQ_SCORE.
MonitorWriteAt(off, len) ==
    /\ stop' = off + len
    /\ score' = IF stop = off THEN Lesser(score + 1, 20) ELSE Greater(score - 1, -5)

WriteBegin(c, e) ==
    /\ CanStart(c, e) /\ ~err
    /\ MonitorWriteAt(e[1], e[2])
    /\ hist' = Append(hist, Write(e, "run"))
    /\ wr' = [wr EXCEPT ![c] = [pc |-> "limit", n |-> Len(hist) + 1,
                                parts |-> LocateChunk(e[1], e[2])]]
    /\ UNCHANGED <<durable, sw, chunks, queue, fl, err, count, published, length,
                   permit, fin, plan>>

\* The SliceWriters of a chunk, newest first.
NewestFirst(ch) ==
    Reverse(SetToSortSeq({i \in DOMAIN sw : sw[i].live /\ sw[i].chunk = ch}, <))

\* find_writable_slice_writer enters the next chunk of request w.
ScanOf(w, picks) ==
    [pc |-> "scan", n |-> w.n, parts |-> w.parts, picks |-> picks, k |-> 1,
     list |-> NewestFirst(w.parts[Len(picks) + 1].idx)]

\* The wait for total_slice_writer_cnt to fall below the limit.
PassLimit(c) ==
    /\ wr[c].pc = "limit" /\ count < WriterLimit
    /\ wr' = [wr EXCEPT ![c] = ScanOf(@, <<>>)]
    /\ chunks' = chunks \cup {p.idx : p \in Range(wr[c].parts)}
    /\ UNCHANGED <<durable, sw, queue, fl, err, count, published, score, stop,
                   length, permit, fin, hist, plan>>

Part(c) == wr[c].parts[Len(wr[c].picks) + 1]

\* The lengths are read under the buffer lock, the state after it.
ScanRead(c) ==
    /\ wr[c].pc = "scan" /\ wr[c].k <= Len(wr[c].list)
    /\ LET s == sw[wr[c].list[wr[c].k]]
       IN wr' = [wr EXCEPT ![c] = [flushed |-> s.flushed, len |-> s.len] @@ [@ EXCEPT !.pc = "try"]]
    /\ UNCHANGED <<mem, durable, fin, hist, plan>>

\* What the client does once it owns SliceWriter i for the current part.
Picked(c, i, before) ==
    LET w == wr[c]
        picks == Append(w.picks, [s |-> i, before |-> before])
    IN IF Len(picks) < Len(w.parts) THEN ScanOf(w, picks)
       ELSE [pc |-> "write", n |-> w.n, parts |-> w.parts, picks |-> picks, k |-> 1]

\* The states that a write may take a SliceWriter from.
Writable(st) == st \in {"Idle", "Dirty"}

\* The window of a SliceWriter that starts at `start`: what is buffered and
\* the position after it.
InWindow(start, flushed, len, pos) == start + flushed <= pos /\ pos <= start + len

ScanTake(c) ==
    /\ wr[c].pc = "try"
    /\ LET i == wr[c].list[wr[c].k]
       IN /\ Writable(sw[i].st)
          /\ InWindow(sw[i].off, wr[c].flushed, wr[c].len, Part(c).pos)
          /\ sw' = SetState(i, "Writing")
          /\ wr' = [wr EXCEPT ![c] = Picked(c, i, sw[i].st)]
    /\ UNCHANGED <<durable, chunks, queue, fl, err, count, published, score, stop,
                   length, permit, fin, hist, plan>>

ScanNext(w) == [pc |-> "scan", n |-> w.n, parts |-> w.parts, picks |-> w.picks,
                k |-> w.k + 1, list |-> w.list]

\* Not usable; from the fourth on it is also flushed in advance.
ScanSkip(c) ==
    /\ wr[c].pc = "try"
    /\ LET i == wr[c].list[wr[c].k]
           fits == InWindow(sw[i].off, wr[c].flushed, wr[c].len, Part(c).pos)
           reqs == IF Writable(sw[i].st) /\ wr[c].k > EarlyFlush
                   THEN FlushReqOf(i, IsSeq, TRUE) ELSE <<>>
       IN /\ ~(Writable(sw[i].st) /\ fits)
          /\ queue' = queue \o reqs
          /\ sw' = Requested(reqs)
    /\ wr' = [wr EXCEPT ![c] = ScanNext(@)]
    /\ UNCHANGED <<durable, chunks, fl, err, count, published, score, stop, length,
                   permit, fin, hist, plan>>

ScanNew(c) ==
    /\ wr[c].pc = "scan" /\ wr[c].k > Len(wr[c].list)
    /\ sw' = Append(sw, [chunk |-> Part(c).idx, off |-> Part(c).pos, st |-> "Writing",
                         len |-> 0, flushed |-> 0, blocks |-> [b \in Blocks |-> <<>>],
                         id |-> FALSE, live |-> TRUE])
    /\ count' = count + 1
    /\ wr' = [wr EXCEPT ![c] = Picked(c, Len(sw) + 1, "Idle")]
    /\ UNCHANGED <<durable, chunks, queue, fl, err, published, score, stop, length,
                   permit, fin, hist, plan>>

\* SliceWriter::write_at for part k, then the transition to Dirty.
WriteAt(c) ==
    /\ wr[c].pc = "write"
    /\ LET p == wr[c].parts[wr[c].k]
           i == wr[c].picks[wr[c].k].s
           off == p.pos - sw[i].off
       IN /\ off >= sw[i].flushed
          /\ sw' = [sw EXCEPT ![i] = [Buffered(@, off, p.len, wr[c].n) EXCEPT !.st = "Dirty"]]
    /\ wr' = [wr EXCEPT ![c].pc = "request"]
    /\ UNCHANGED <<durable, chunks, queue, fl, err, count, published, score, stop,
                   length, permit, fin, hist, plan>>

\* The page pool is exhausted, or the position has been flushed meanwhile:
\* the write returns with the remaining SliceWriters still Writing.
WriteFails(c) ==
    /\ wr[c].pc = "write"
    /\ LET p == wr[c].parts[wr[c].k]
           pick == wr[c].picks[wr[c].k]
       IN /\ "pages" \in plan.faults \/ p.pos - sw[pick.s].off < sw[pick.s].flushed
          /\ sw' = SetState(pick.s, pick.before)
          /\ Notify(pick.s)
    /\ wr' = [wr EXCEPT ![c] = Idle]
    /\ hist' = [hist EXCEPT ![wr[c].n].st = "err"]
    /\ UNCHANGED <<durable, chunks, queue, fl, err, count, published, score, stop,
                   length, fin, plan>>

\* make_flush_req after the part, then the next part.
WriteRequest(c) ==
    /\ wr[c].pc = "request"
    /\ LET reqs == FlushReqOf(wr[c].picks[wr[c].k].s, IsSeq, FALSE)
       IN /\ queue' = queue \o reqs
          /\ sw' = Requested(reqs)
    /\ wr' = [wr EXCEPT ![c].pc = IF wr[c].k < Len(wr[c].parts) THEN "write" ELSE "length",
                        ![c].k = @ + 1]
    /\ UNCHANGED <<durable, chunks, fl, err, count, published, score, stop, length,
                   permit, fin, hist, plan>>

\* The compare-exchange loop on the file length, and the return.
WriteEnd(c) ==
    /\ wr[c].pc = "length"
    /\ length' = Greater(length, hist[wr[c].n].off + hist[wr[c].n].len)
    /\ hist' = [hist EXCEPT ![wr[c].n].st = "ok"]
    /\ wr' = [wr EXCEPT ![c] = Idle]
    /\ UNCHANGED <<durable, sw, chunks, queue, fl, err, count, published, score, stop,
                   permit, fin, plan>>

-----------------------------------------------------------------------------
(* FileWriterFlusher::run: one request at a time, in order.                 *)

FlusherTake ==
    /\ fl.pc = "idle" /\ queue # <<>>
    /\ fl' = [pc |-> IF Head(queue).kind = "commit" THEN "commit" ELSE "stage",
              req |-> Head(queue)]
    /\ queue' = Tail(queue)
    /\ UNCHANGED <<durable, sw, chunks, err, count, published, score, stop, length,
                   permit, wr, fin, hist, plan>>

Limit(req) == IF req.kind = "bulk" THEN req.off ELSE RoundUp(sw[req.s].len)

\* Every block up to the limit is staged: a bulk flush ends in Idle, a full
\* one goes on to the metadata.
StageOk ==
    /\ fl.pc = "stage"
    /\ LET i == fl.req.s
           bs == Pending(sw[i], Limit(fl.req))
           done == [Staged(sw[i], bs) EXCEPT !.id = TRUE]
       IN /\ sw[i].flushed <= Limit(fl.req)
          /\ store' = Stored(i, bs)
          /\ IF fl.req.kind = "bulk"
             THEN /\ sw' = [sw EXCEPT ![i] = [done EXCEPT !.st = "Idle"]]
                  /\ Notify(i)
                  /\ fl' = [pc |-> "idle", req |-> NoReq]
             ELSE /\ sw' = [sw EXCEPT ![i] = done]
                  /\ fl' = [fl EXCEPT !.pc = "commit"]
                  /\ permit' = permit
    /\ UNCHANGED <<chunks, queue, err, count, published, score, stop, length, meta,
                   remote, wr, fin, hist, plan>>

\* A stage call fails after the blocks of a proper prefix.
StageFails ==
    /\ fl.pc = "stage" /\ "stage" \in plan.faults
    /\ LET i == fl.req.s
           all == Pending(sw[i], Limit(fl.req))
       IN \E b \in all :
            LET bs == {x \in all : x < b}
            IN /\ store' = Stored(i, bs)
               /\ sw' = [sw EXCEPT ![i] = [Staged(@, bs) EXCEPT !.id = TRUE]]
    /\ fl' = [fl EXCEPT !.pc = "fail"]
    /\ UNCHANGED <<chunks, queue, err, count, published, score, stop, length, permit,
                   meta, remote, wr, fin, hist, plan>>

SliceOf(i) == [pos |-> sw[i].off, id |-> IF sw[i].id THEN i ELSE 0, len |-> sw[i].len]

\* stage_chunk_slice: an identical slice is not added again.
WithSlice(ch, slice) ==
    [meta EXCEPT ![ch] = IF slice \in Range(@) THEN @ ELSE Append(@, slice)]

\* The end of flush_and_commit and of commit_partial.
Committed(i) ==
    /\ sw' = SetState(i, "Done")
    /\ count' = count - 1
    /\ Notify(i)

\* write_slice and record_published_slice, then the transition to Done.
CommitOk ==
    /\ fl.pc = "commit"
    /\ LET i == fl.req.s
       IN /\ IF sw[i].len = 0 THEN UNCHANGED <<meta, published>>
             ELSE /\ meta' = WithSlice(sw[i].chunk, SliceOf(i))
                  /\ published' = published \cup {SliceOf(i).id}
          /\ Committed(i)
    /\ fl' = [pc |-> "idle", req |-> NoReq]
    /\ UNCHANGED <<chunks, queue, err, score, stop, length, store, remote, wr, fin, hist, plan>>

\* The metadata transaction reports an error, before or after it took effect.
CommitFails ==
    /\ fl.pc = "commit" /\ "commit" \in plan.faults /\ sw[fl.req.s].len # 0
    /\ \/ meta' = meta
       \/ meta' = WithSlice(sw[fl.req.s].chunk, SliceOf(fl.req.s))
    /\ fl' = [fl EXCEPT !.pc = "fail"]
    /\ UNCHANGED <<sw, chunks, queue, err, count, published, score, stop, length,
                   permit, store, remote, wr, fin, hist, plan>>

\* record_flush_error comes before the SliceWriter is given back.
RecordError ==
    /\ fl.pc = "fail"
    /\ err' = TRUE
    /\ fl' = [fl EXCEPT !.pc = "reset"]
    /\ UNCHANGED <<durable, sw, chunks, queue, count, published, score, stop, length,
                   permit, wr, fin, hist, plan>>

\* reset_after_flush_failure and reset_after_commit_failure.
Reset ==
    /\ fl.pc = "reset"
    /\ sw' = SetState(fl.req.s, IF fl.req.kind = "commit" THEN "Idle" ELSE "Dirty")
    /\ Notify(fl.req.s)
    /\ fl' = [pc |-> "idle", req |-> NoReq]
    /\ UNCHANGED <<durable, chunks, queue, err, count, published, score, stop, length,
                   wr, fin, hist, plan>>

Flusher == FlusherTake \/ StageOk \/ StageFails \/ CommitOk \/ CommitFails \/ RecordError \/ Reset

-----------------------------------------------------------------------------
(* flush_to, holding operation_lock for writing: finish_local, then the     *)
(* published slices for an fsync; close ends with the writer retired.       *)

FinishBegin(kind) ==
    /\ fin.pc = "none" /\ \A c \in Clients : wr[c].pc = "idle"
    /\ fin' = [pc |-> "start", kind |-> kind]
    /\ UNCHANGED <<mem, durable, wr, hist, plan>>

\* finish_local up to the start of the ChunkWriters.
FinishStart ==
    /\ fin.pc = "start"
    /\ err' = FALSE
    /\ fin' = IF err THEN [fin EXCEPT !.pc = "err"]
              ELSE [pc |-> "chunks", kind |-> fin.kind, ch |-> [c \in chunks |-> "scan"]]
    /\ UNCHANGED <<durable, sw, chunks, queue, fl, count, published, score, stop, length,
                   permit, wr, hist, plan>>

Live(c) == {i \in DOMAIN sw : sw[i].live /\ sw[i].chunk = c}

\* One round of ChunkWriter::finish. A round removes what is Done, asks for
\* what is Idle or Dirty, and waits unless nothing is left.
FinishRound(c) ==
    /\ fin.pc = "chunks" /\ c \in DOMAIN fin.ch /\ fin.ch[c] = "scan"
    /\ IF err THEN /\ fin' = [fin EXCEPT !.ch[c] = "done"]
                   /\ UNCHANGED <<sw, queue>>
       ELSE LET order == SetToSortSeq(Live(c), <)
                reqs == FlattenSeq([k \in DOMAIN order |-> FlushReqOf(order[k], FALSE, TRUE)])
                left == {i \in Live(c) : sw[i].st # "Done"}
            IN /\ queue' = queue \o reqs
               /\ sw' = [i \in DOMAIN sw |->
                            [Requested(reqs)[i] EXCEPT !.live = @ /\ (i \in Live(c) => i \in left)]]
               /\ fin' = [fin EXCEPT !.ch[c] = IF left = {} THEN "done" ELSE "wait"]
    /\ UNCHANGED <<durable, chunks, fl, err, count, published, score, stop, length,
                   permit, wr, hist, plan>>

FinishWake(c) ==
    /\ fin.pc = "chunks" /\ c \in DOMAIN fin.ch /\ fin.ch[c] = "wait" /\ permit[c]
    /\ fin' = [fin EXCEPT !.ch[c] = "scan"]
    /\ permit' = [permit EXCEPT ![c] = FALSE]
    /\ UNCHANGED <<durable, sw, chunks, queue, fl, err, count, published, score, stop,
                   length, wr, hist, plan>>

\* After join_all: an error keeps the chunk writers for a retry.
FinishJoin ==
    /\ fin.pc = "chunks" /\ \A c \in DOMAIN fin.ch : fin.ch[c] = "done"
    /\ err' = FALSE
    /\ chunks' = IF err THEN chunks ELSE {}
    /\ sw' = [i \in DOMAIN sw |-> [sw[i] EXCEPT !.live = @ /\ err]]
    /\ fin' = [kind |-> fin.kind, todo |-> published,
               pc |-> IF err THEN "err" ELSE IF fin.kind = "fsync" THEN "sync" ELSE "ok"]
    /\ UNCHANGED <<durable, queue, fl, count, published, score, stop, length, permit, wr,
                   hist, plan>>

\* flush_published_slices: FileCache::flush_slice returns Ok only once the
\* object store holds the slice.
SyncSlice(s) ==
    /\ fin.pc = "sync" /\ s \in fin.todo
    /\ remote' = remote \cup {s}
    /\ published' = published \ {s}
    /\ fin' = [fin EXCEPT !.todo = @ \ {s}]
    /\ UNCHANGED <<store, meta, sw, chunks, queue, fl, err, count, score, stop, length,
                   permit, wr, hist, plan>>

\* Mutant: the error of flush_slice is dropped.
SyncFailsUnnoticed ==
    /\ fin.pc = "sync" /\ fin.todo # {} /\ "remote" \in plan.faults
    /\ fin' = [fin EXCEPT !.pc = "ok"]
    /\ UNCHANGED <<mem, durable, wr, hist, plan>>

SyncFails ==
    /\ fin.pc = "sync" /\ fin.todo # {} /\ "remote" \in plan.faults
    /\ fin' = [fin EXCEPT !.pc = "err"]
    /\ UNCHANGED <<mem, durable, wr, hist, plan>>

SyncEnd ==
    /\ fin.pc = "sync" /\ fin.todo = {}
    /\ fin' = [fin EXCEPT !.pc = "ok"]
    /\ UNCHANGED <<mem, durable, wr, hist, plan>>

\* The request returns and operation_lock is released.
FinishReturn ==
    /\ fin.pc \in {"ok", "err"} /\ fin.kind # "close"
    /\ fin' = [pc |-> "none"]
    /\ UNCHANGED <<mem, durable, wr, hist, plan>>

SetMax(S) == CHOOSE x \in S : \A y \in S : y <= x
MetaLength ==
    SetMax({0} \cup UNION {{c * ChunkSize + s.pos + s.len : s \in Range(meta[c])} : c \in Chunks})

\* FileWriter::close of the last handle, which ignores the error of finish,
\* and open_file_writer of the next one. The requests still queued are
\* dropped with the flusher.
CloseWriter ==
    /\ fin.pc \in {"ok", "err"} /\ fin.kind = "close" /\ fl.pc = "idle"
    /\ sw' = [i \in DOMAIN sw |-> [sw[i] EXCEPT !.live = FALSE]]
    /\ chunks' = {} /\ queue' = <<>> /\ fl' = fl
    /\ err' = FALSE /\ count' = 0 /\ published' = {}
    /\ score' = 0 /\ stop' = 0 /\ length' = MetaLength
    /\ permit' = [c \in Chunks |-> FALSE]
    /\ hist' = [n \in DOMAIN hist |->
                    IF fin.pc = "err" THEN [hist[n] EXCEPT !.st = "err"] ELSE hist[n]]
    /\ fin' = [pc |-> "none"]
    /\ UNCHANGED <<durable, wr, plan>>

Finish == \/ FinishStart \/ FinishJoin \/ SyncFails \/ SyncEnd \/ FinishReturn \/ CloseWriter
          \/ \E c \in Chunks : FinishRound(c) \/ FinishWake(c)
          \/ \E s \in published : SyncSlice(s)

WriteStep(c) == \/ PassLimit(c) \/ ScanRead(c) \/ ScanTake(c) \/ ScanSkip(c) \/ ScanNew(c)
                \/ WriteAt(c) \/ WriteFails(c) \/ WriteRequest(c) \/ WriteEnd(c)

Next == \/ \E c \in plan.clients, e \in plan.extents : WriteRefused(c, e) \/ WriteBegin(c, e)
        \/ \E c \in Clients : WriteStep(c)
        \/ \E kind \in plan.kinds : FinishBegin(kind)
        \/ Finish \/ Flusher

Spec == Init /\ [][Next]_vars

\* The runtime runs every task that is ready: the flusher, the requests.
FairSpec == Spec /\ WF_vars(Flusher) /\ WF_vars(Finish)
                 /\ \A c \in Clients : WF_vars(WriteStep(c))

-----------------------------------------------------------------------------
States == {"Idle", "Writing", "Dirty", "Flushing", "Committing", "Done"}

\* Every SliceWriter has a state of SliceWriterState, flushes no more than
\* it was given and stays inside its chunk.
TypeOK ==
    /\ \A i \in DOMAIN sw :
        /\ sw[i].st \in States /\ sw[i].chunk \in Chunks
        /\ sw[i].flushed \in 0 .. sw[i].len /\ sw[i].off + sw[i].len <= ChunkSize
    /\ chunks \subseteq Chunks /\ published \subseteq DOMAIN sw
    /\ err \in BOOLEAN /\ count \in Nat /\ score \in -5 .. 20 /\ length \in Nat
    /\ permit \in [Chunks -> BOOLEAN] /\ remote \subseteq DOMAIN sw
    /\ fl.pc \in {"idle", "stage", "commit", "fail", "reset"}
    /\ fin.pc \in {"none", "start", "chunks", "sync", "ok", "err"}

Requests == IF fl.pc = "idle" THEN queue ELSE <<fl.req>> \o queue
HoldsForWriting(c) ==
    LET w == wr[c]
    IN IF w.pc \in {"scan", "try"} THEN {w.picks[k].s : k \in DOMAIN w.picks}
       ELSE IF w.pc = "write" THEN {w.picks[k].s : k \in w.k .. Len(w.picks)}
       ELSE IF w.pc = "request" THEN {w.picks[k].s : k \in w.k + 1 .. Len(w.picks)}
       ELSE {}

\* A SliceWriter has one owner: a state of Flushing or Committing stands for
\* exactly one request at the flusher, no request exists in any other state,
\* and no two writes hold the same SliceWriter, which is then Writing.
OneOwner ==
    /\ \A i \in DOMAIN sw :
        LET mine == {k \in DOMAIN Requests : Requests[k].s = i}
        IN sw[i].live =>
            /\ Cardinality(mine) = IF sw[i].st \in {"Flushing", "Committing"} THEN 1 ELSE 0
            /\ \A k \in mine : sw[i].st = ReqState(Requests[k])
    /\ \A c \in Clients : \A i \in HoldsForWriting(c) :
        /\ sw[i].st = "Writing"
        /\ \A d \in Clients \ {c} : i \notin HoldsForWriting(d)

\* total_slice_writer_cnt counts the SliceWriters that are not committed:
\* the limit of FileWriter::write neither leaks nor underflows.
SlicesCounted == count = Cardinality({i \in DOMAIN sw : sw[i].live /\ sw[i].st # "Done"})

\* Metadata never names a block that is not staged, whatever fails and
\* whenever the process is killed: a reader of a published slice never gets
\* ObjectBlockNotFound.
PublishedIsStaged ==
    \A c \in Chunks : \A s \in Range(meta[c]) :
        \A b \in 0 .. (s.len - 1) \div BlockSize :
            <<s.id, b, ObjectBlockSize(s.len, b)>> \in DOMAIN store

Read(p) == ReadCell(store, meta[ChunkIdx(p)], ChunkPos(p))
Covering(p) == {n \in DOMAIN hist : hist[n].off <= p /\ p < hist[n].off + hist[n].len}
Done(p) == {n \in Covering(p) : hist[n].st = "ok"}

\* What a cell may hold once every write is over: the value of a write that
\* no later write replaced, or of one that reported an error.
Allowed(p) ==
    {n \in Done(p) : \A m \in Done(p) : n \notin hist[m].before} \cup (Covering(p) \ Done(p))

\* When flush, fsync or close returns Ok, what is on disk, the staged blocks
\* and the metadata, holds the data of every write that returned Ok and the
\* file is long enough to read it: a crash after the return loses nothing.
FlushedIsReadable ==
    fin.pc = "ok" =>
        \A n \in DOMAIN hist : hist[n].st = "ok" =>
            /\ hist[n].off + hist[n].len <= MetaLength
            /\ \A p \in hist[n].off .. hist[n].off + hist[n].len - 1 : Read(p) \in Allowed(p)

\* Where nothing was written below the end of the file, a read after a flush
\* gives zeros.
HolesReadAsZeros ==
    fin.pc = "ok" =>
        \A p \in 0 .. MetaLength - 1 : Covering(p) = {} => Read(p) = Hole

\* When fsync returns Ok every slice of the file is in the object store.
FsyncIsRemote ==
    fin.pc = "ok" /\ fin.kind = "fsync" =>
        \A c \in Chunks : \A s \in Range(meta[c]) : s.id \in remote

\* A write that fails is refused for a reason: the pages ran out or an
\* earlier background error is reported. It is never refused because of the
\* position it writes to.
LegalWriteAccepted ==
    \A c \in Clients : wr[c].pc = "write" =>
        LET i == wr[c].picks[wr[c].k].s
        IN wr[c].parts[wr[c].k].pos - sw[i].off >= sw[i].flushed

\* A flush, fsync or close returns, whatever fails under it.
FinishReturns == fin.pc # "none" ~> fin.pc = "none"

\* A write returns.
WriteReturns == \A c \in Clients : wr[c].pc # "idle" ~> wr[c].pc = "idle"
=============================================================================
