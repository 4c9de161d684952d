---------------------------- MODULE VfsHandles -----------------------------
(***************************************************************************)
(* The file operations of KisekiVFS on one file: open, read, write, flush, *)
(* fsync, truncate and release, from the handle table through the lock of  *)
(* each handle (module FileHandle) to the FileReader of each handle, the   *)
(* one FileWriter the handles share, and the open reference and the length *)
(* the metadata keeps. Requests are served concurrently; a step is what a  *)
(* request does between two points at which another may run.               *)
(*                                                                         *)
(* What a FileWriter does with the data is module Writer: here a writer    *)
(* has a length and the end of what it has not committed yet.              *)
(***************************************************************************)
EXTENDS FileHandle, FiniteSetsExt

CONSTANTS
    Opened,         \* the handles that are open at the start
    Number,         \* the number of each handle
    Modes,          \* the access modes the handles may have
    Ends,           \* where a write may end
    Sizes,          \* to what a truncate may set the length
    Kinds,          \* the operations that are requested
    Faults          \* whether opens, writes, flushes and truncates may fail

ASSUME VfsHandlesConstants ==
    /\ Number \in [Handles -> Nat] /\ IsInjective(Number) /\ Opened \subseteq Handles
    /\ \A m \in Modes : m \in [Handles -> {"r", "w"}] /\ \E h \in Opened : m[h] = "w"
    /\ Ends \subseteq Nat \ {0} /\ Sizes \subseteq Nat /\ Faults \in BOOLEAN

VARIABLES
    req,        \* the operation of each request, with what it remembers
    table,      \* HandleTable: the handles of the file
    mode,       \* the access mode of each handle: "r" or "w"
    fw, entry,  \* every FileWriter, and the one in file_writers (0: none)
    ref,        \* the FileWriter of each handle (0: none)
    rlen,       \* FileReader.length of each handle in file_readers (-1: none)
    mlen,       \* the length of the file in the metadata
    opens       \* the open references the metadata counts

fileVars == <<table, mode, fw, entry, ref, rlen, mlen, opens>>
vars == <<lockVars, req, fileVars>>

None == [kind |-> "none"]
Busy(r) == pc[r] \notin {"idle", "done"}
NewWriter(len) == [len |-> len, pend |-> 0, refs |-> 1, failed |-> FALSE]

\* Some handles are open; the writer of those that write counts them all.
Init ==
    /\ LockInit
    /\ req = [r \in Requests |-> None]
    /\ table = Opened
    /\ mode \in Modes
    /\ fw = <<[NewWriter(1) EXCEPT !.refs = Cardinality({h \in Opened : mode[h] = "w"})]>>
    /\ entry = 1
    /\ ref = [h \in Handles |-> IF h \in Opened /\ mode[h] = "w" THEN 1 ELSE 0]
    /\ rlen = [h \in Handles |-> IF h \in Opened THEN 1 ELSE -1]
    /\ mlen = 1
    /\ opens = Cardinality(Opened)

\* Handles the kernel may still use: open, and no release was sent for them.
Usable == {h \in table : ~\E r \in Requests : req[r].kind = "release" /\ req[r].h = h}

\* The kernel sends a request: on a handle it has open, a release once no
\* other request on that handle is unanswered, a truncate of the file with or
\* without a handle.
Begin(r, q, step, h) ==
    /\ pc[r] = "idle"
    /\ req' = [req EXCEPT ![r] = q]
    /\ Goto(r, step)
    /\ cur' = [cur EXCEPT ![r] = h]
    /\ UNCHANGED <<counters, guards, parked, ahead, fileVars>>

BeginRead(r, h) == h \in Usable /\ Begin(r, [kind |-> "read", h |-> h], "rcheck", h)

\* write_lock answers None for a handle without a writer: write and fsync
\* return EINTR, flush leaves the lock alone.
NeedsLock(h) == IF ref[h] = 0 THEN "done" ELSE "announce"
BeginWrite(r, h, e) == h \in Usable /\ Begin(r, [kind |-> "write", h |-> h, end |-> e], NeedsLock(h), h)
BeginFlush(r, h) == h \in Usable /\ Begin(r, [kind |-> "flush", h |-> h], NeedsLock(h), h)

BeginRelease(r, h) ==
    /\ h \in Usable
    /\ ~\E x \in Requests : Busy(x) /\ req[x].kind \in {"read", "write", "flush", "truncate"} /\ req[x].h = h
    /\ Begin(r, [kind |-> "release", h |-> h], "drain", h)

\* truncate takes the handles there are, by number. Only a handle that
\* cannot write makes a difference when the request names one.
BeginTruncate(r, h, size) ==
    /\ h \in {x \in Usable : ref[x] = 0} \cup {NoHandle}
    /\ Begin(r, [kind |-> "truncate", h |-> h, size |-> size, all |-> table, rest |-> table],
             "tnext", NoHandle)

BeginOpen(r, h) ==
    /\ h \notin Opened /\ ~\E x \in Requests : req[x].kind = "open" /\ req[x].h = h
    /\ Begin(r, [kind |-> "open", h |-> h], "open", NoHandle)
-----------------------------------------------------------------------------
\* One step of r outside the lock.
Step(r, from, to) == pc[r] = from /\ Goto(r, to) /\ UNCHANGED <<counters, cur, guards, parked, ahead>>
Is(r, kinds) == req[r].kind \in kinds

\* FileWriter::finish: what is not committed is, and the length with it. A
\* failure is recorded and reported, the data stays with the writer.
Finish(w) ==
    /\ mlen' = Max({mlen, fw[w].pend})
    /\ fw' = [fw EXCEPT ![w].pend = 0]

FinishFails(w) ==
    /\ Faults
    /\ fw' = [fw EXCEPT ![w].failed = TRUE]
    /\ UNCHANGED mlen

\* direct_flush: the writer of the file, whoever opened it.
DirectFlush == IF entry = 0 THEN UNCHANGED <<mlen, fw>> ELSE Finish(entry)

\* truncate_reader: the length is stored in every reader there is.
TruncateReader(len) == rlen' = [h \in Handles |-> IF rlen[h] = -1 THEN -1 ELSE len]

\* read: flush the file, then read up to the length of the reader; an error
\* drops the guard as well.
ReadFlush(r) ==
    /\ Step(r, "rlocked", "rflushed") /\ DirectFlush
    /\ UNCHANGED <<req, table, mode, entry, ref, rlen, opens>>

ReadFlushFails(r) ==
    /\ Step(r, "rlocked", "rdrop") /\ entry # 0 /\ FinishFails(entry)
    /\ UNCHANGED <<req, table, mode, entry, ref, rlen, opens>>

ReadData(r) ==
    /\ Step(r, "rflushed", "rdrop")
    /\ UNCHANGED <<req, fileVars>>

\* write: the data goes to the writer, the lengths of the readers follow in
\* two more steps.
WriteData(r) ==
    LET w == ref[req[r].h] IN
    /\ Is(r, {"write"}) /\ Step(r, "wlocked", "wrote")
    /\ fw' = [fw EXCEPT ![w].len = Max({@, req[r].end}), ![w].pend = Max({@, req[r].end})]
    /\ UNCHANGED <<req, table, mode, entry, ref, rlen, mlen, opens>>

\* (a write that fails has written a part, which goes with the next flush, or
\* nothing; the lengths stay as they are)
WriteFails(r) ==
    LET w == ref[req[r].h] IN
    /\ Faults /\ Is(r, {"write"}) /\ Step(r, "wlocked", "wdrop")
    /\ \E part \in {e \in Ends : e <= req[r].end} \cup {0} : fw' = [fw EXCEPT ![w].pend = Max({@, part})]
    /\ UNCHANGED <<req, table, mode, entry, ref, rlen, mlen, opens>>

WriteGetLength(r) ==
    /\ Step(r, "wrote", "wlength")
    /\ req' = [req EXCEPT ![r].end = fw[ref[req[r].h]].len]
    /\ UNCHANGED fileVars

WriteTruncateReader(r) ==
    /\ Step(r, "wlength", "wdrop")
    /\ TruncateReader(req[r].end)
    /\ UNCHANGED <<req, table, mode, fw, entry, ref, mlen, opens>>

\* flush, and fsync up to what it adds in module Writer.
FlushWriter(r) ==
    /\ Is(r, {"flush"}) /\ Step(r, "wlocked", "wdrop")
    /\ Finish(ref[req[r].h]) \/ FinishFails(ref[req[r].h])
    /\ UNCHANGED <<req, table, mode, entry, ref, rlen, opens>>
-----------------------------------------------------------------------------
\* truncate: lock the next handle. One that cannot write is passed over, or
\* refused with EACCES when the request came with it.
TruncateNext(r) ==
    /\ pc[r] = "tnext"
    /\ \E h \in req[r].rest :
        /\ \A x \in req[r].rest : Number[h] <= Number[x]
        /\ req' = [req EXCEPT ![r].rest = @ \ {h}]
        /\ IF ref[h] # 0 THEN Goto(r, "announce") /\ cur' = [cur EXCEPT ![r] = h]
           ELSE Goto(r, IF req[r].h = h THEN "wdrop" ELSE "tnext") /\ UNCHANGED cur
    /\ UNCHANGED <<counters, guards, parked, ahead, fileVars>>

\* Mutant: each guard is dropped before the next handle is locked.
TruncateLockedDrops(r) ==
    /\ Is(r, {"truncate"}) /\ pc[r] = "wlocked" /\ Goto(r, "tnext")
    /\ exclusive_locking' = [exclusive_locking EXCEPT ![cur[r]] = FALSE]
    /\ guards' = [guards EXCEPT ![r] = <<>>]
    /\ parked' = parked \ ParkedAt(cur[r], {"rwait", "wwait", "dwait"})
    /\ UNCHANGED <<reader_cnt, write_wait_cnt, cur, ahead, req, fileVars>>

TruncateLocked(r) ==
    /\ Is(r, {"truncate"}) /\ Step(r, "wlocked", "tnext")
    /\ UNCHANGED <<req, fileVars>>

\* All are locked: flush the file, ...
TruncateFlush(r) ==
    /\ pc[r] = "tnext" /\ req[r].rest = {}
    /\ \/ Goto(r, "tmeta") /\ DirectFlush
       \/ Goto(r, "wdrop") /\ entry # 0 /\ FinishFails(entry)
    /\ UNCHANGED <<counters, cur, guards, parked, ahead, req, table, mode, entry, ref, rlen, opens>>

\* ... set the length in the metadata, in the writer and in the readers.
TruncateMeta(r) ==
    /\ Step(r, "tmeta", "tlen")
    /\ mlen' = req[r].size
    /\ UNCHANGED <<req, table, mode, fw, entry, ref, rlen, opens>>

\* (an error of the metadata is returned with the guards held so far)
TruncateMetaFails(r) ==
    /\ Faults /\ Step(r, "tmeta", "wdrop")
    /\ UNCHANGED <<req, fileVars>>

TruncateSetLength(r) ==
    /\ Step(r, "tlen", "treaders")
    /\ fw' = IF entry = 0 THEN fw ELSE [fw EXCEPT ![entry].len = req[r].size]
    /\ UNCHANGED <<req, table, mode, entry, ref, rlen, mlen, opens>>

TruncateReaders(r) ==
    /\ Step(r, "treaders", "wdrop")
    /\ TruncateReader(req[r].size)
    /\ UNCHANGED <<req, table, mode, fw, entry, ref, mlen, opens>>
-----------------------------------------------------------------------------
\* open: the metadata counts the reference and answers the length ...
OpenInode(r) ==
    /\ Step(r, "open", "olen")
    /\ opens' = opens + 1
    /\ req' = [req EXCEPT ![r] = [kind |-> "open", h |-> @.h, len |-> mlen]]
    /\ UNCHANGED <<table, mode, fw, entry, ref, rlen, mlen>>

\* ... try_update_file_reader_length: the writer may know a longer file; if
\* it knows a shorter one, or there is none, the readers are told, ...
OpenLength(r) ==
    LET len == IF entry = 0 THEN 0 ELSE fw[entry].len IN
    /\ Step(r, "olen", IF len < req[r].len THEN "otell" ELSE "oreader")
    /\ req' = [req EXCEPT ![r].len = Max({@, len})]
    /\ UNCHANGED fileVars

OpenTellReaders(r) ==
    /\ Step(r, "otell", "oreader")
    /\ TruncateReader(req[r].len)
    /\ UNCHANGED <<req, table, mode, fw, entry, ref, mlen, opens>>

\* ... the handle gets a reader of that length, ...
OpenReader(r) ==
    /\ Step(r, "oreader", IF mode[req[r].h] = "w" THEN "owriter" ELSE "oinsert")
    /\ rlen' = [rlen EXCEPT ![req[r].h] = req[r].len]
    /\ UNCHANGED <<req, table, mode, fw, entry, ref, mlen, opens>>

\* Mutant: the reference is counted for a new writer only.
OpenWriterUncounted(r) ==
    /\ Step(r, "owriter", "oinsert")
    /\ IF entry # 0 THEN UNCHANGED <<fw, entry>>
       ELSE fw' = Append(fw, NewWriter(req[r].len)) /\ entry' = Len(fw) + 1
    /\ ref' = [ref EXCEPT ![req[r].h] = entry']
    /\ UNCHANGED <<req, table, mode, rlen, mlen, opens>>

\* ... the writer of the file or a new one, counted under the lock of its
\* map entry, ...
OpenWriter(r) ==
    /\ Step(r, "owriter", "oinsert")
    /\ IF entry # 0 THEN fw' = [fw EXCEPT ![entry].refs = @ + 1] /\ UNCHANGED entry
       ELSE fw' = Append(fw, NewWriter(req[r].len)) /\ entry' = Len(fw) + 1
    /\ ref' = [ref EXCEPT ![req[r].h] = entry']
    /\ UNCHANGED <<req, table, mode, rlen, mlen, opens>>

\* (a new writer is refused while the mount drains: the open fails, its
\* reference and its reader stay)
OpenRefused(r) ==
    /\ Faults /\ entry = 0 /\ Step(r, "owriter", "done")
    /\ UNCHANGED <<req, fileVars>>

\* ... and is put into the table.
OpenInsert(r) ==
    /\ Step(r, "oinsert", "done")
    /\ table' = table \cup {req[r].h}
    /\ UNCHANGED <<req, mode, fw, entry, ref, rlen, mlen, opens>>
-----------------------------------------------------------------------------
\* release: wait for the operations on the handle (again once it is out of
\* the table), ...
ReleaseDrain(r) ==
    /\ DrainCheck(r, IF cur[r] \in table THEN "lflush" ELSE "lreader")
    /\ UNCHANGED <<req, fileVars>>

\* ... flush its writer without the lock; an error ends the release here, ...
ReleaseFlush(r) ==
    LET w == ref[req[r].h] IN
    /\ \/ Step(r, "lflush", "lmeta") /\ IF w = 0 THEN UNCHANGED <<mlen, fw>> ELSE Finish(w)
       \/ Step(r, "lflush", "done") /\ w # 0 /\ FinishFails(w)
    /\ UNCHANGED <<req, table, mode, entry, ref, rlen, opens>>

\* Mutant: an open handle takes its reference back twice.
ReleaseMetaTwice(r) ==
    /\ Step(r, "lmeta", "lremove")
    /\ opens' = opens - 2
    /\ UNCHANGED <<req, table, mode, fw, entry, ref, rlen, mlen>>

\* ... give the reference of the metadata back (flock, set_lk and close of the
\* engine answer Ok in every case), ...
ReleaseMeta(r) ==
    /\ Step(r, "lmeta", "lremove")
    /\ opens' = opens - 1
    /\ UNCHANGED <<req, table, mode, fw, entry, ref, rlen, mlen>>

\* ... release_file_handle: out of the table, ...
ReleaseRemove(r) ==
    /\ Step(r, "lremove", "drain")
    /\ table' = table \ {req[r].h}
    /\ UNCHANGED <<req, mode, fw, entry, ref, rlen, mlen, opens>>

\* ... FileReader::close ...
ReleaseReader(r) ==
    /\ Step(r, "lreader", IF ref[req[r].h] = 0 THEN "done" ELSE "lfinish")
    /\ rlen' = [rlen EXCEPT ![req[r].h] = -1]
    /\ UNCHANGED <<req, table, mode, fw, entry, ref, mlen, opens>>

\* ... and FileWriter::close: a last finish whose error is only logged, ...
ReleaseFinish(r) ==
    LET w == ref[req[r].h] IN
    /\ Step(r, "lfinish", "lclose")
    /\ Finish(w) \/ FinishFails(w)
    /\ UNCHANGED <<req, table, mode, entry, ref, rlen, opens>>

\* Mutant: the writer is retired although it was opened again.
ReleaseWriterAlways(r) ==
    LET h == req[r].h IN
    /\ Step(r, "lclose", "done")
    /\ fw' = [fw EXCEPT ![ref[h]].refs = @ - 1]
    /\ entry' = 0
    /\ ref' = [ref EXCEPT ![h] = 0]
    /\ UNCHANGED <<req, table, mode, rlen, mlen, opens>>

\* ... then, under the lock of the map entry, one reference less, and the
\* last one retires the writer. Nothing happens when the entry is not, or no
\* longer, the writer of this handle.
ReleaseWriter(r) ==
    LET h == req[r].h
        w == ref[h]
    IN /\ Step(r, "lclose", "done")
       /\ IF entry # w \/ fw[w].refs = 0 THEN UNCHANGED <<fw, entry>>
          ELSE /\ fw' = [fw EXCEPT ![w].refs = @ - 1]
               /\ entry' = IF fw[w].refs = 1 THEN 0 ELSE entry
       /\ ref' = [ref EXCEPT ![h] = 0]
       /\ UNCHANGED <<req, table, mode, rlen, mlen, opens>>
-----------------------------------------------------------------------------
Arrive(r) ==
    \/ "open" \in Kinds /\ \E h \in Handles : BeginOpen(r, h)
    \/ \E h \in Handles :
         \/ "read" \in Kinds /\ BeginRead(r, h)
         \/ "flush" \in Kinds /\ BeginFlush(r, h)
         \/ "release" \in Kinds /\ BeginRelease(r, h)
         \/ "write" \in Kinds /\ \E e \in Ends : BeginWrite(r, h, e)
    \/ "truncate" \in Kinds /\ \E h \in Handles \cup {NoHandle}, n \in Sizes : BeginTruncate(r, h, n)

Serve(r) ==
    \/ /\ LockStep(r) /\ UNCHANGED fileVars
       /\ req' = IF pc'[r] = "done" THEN [req EXCEPT ![r] = None] ELSE req
    \/ ReadFlush(r) \/ ReadFlushFails(r) \/ ReadData(r)
    \/ WriteData(r) \/ WriteFails(r) \/ WriteGetLength(r) \/ WriteTruncateReader(r)
    \/ FlushWriter(r)
    \/ TruncateNext(r) \/ TruncateLocked(r) \/ TruncateFlush(r)
    \/ TruncateMeta(r) \/ TruncateMetaFails(r) \/ TruncateSetLength(r) \/ TruncateReaders(r)
    \/ OpenInode(r) \/ OpenLength(r) \/ OpenTellReaders(r) \/ OpenReader(r)
    \/ OpenWriter(r) \/ OpenRefused(r) \/ OpenInsert(r)
    \/ ReleaseDrain(r) \/ ReleaseFlush(r) \/ ReleaseMeta(r) \/ ReleaseRemove(r)
    \/ ReleaseReader(r) \/ ReleaseFinish(r) \/ ReleaseWriter(r)

Next == \E r \in Requests : Arrive(r) \/ Serve(r)

Spec == Init /\ [][Next]_vars
-----------------------------------------------------------------------------
Quiet == \A r \in Requests : ~Busy(r)

\* Counters are natural numbers, writers and references are those there are.
TypeOK ==
    /\ \A h \in Handles : reader_cnt[h] >= 0 /\ write_wait_cnt[h] >= 0 /\ ref[h] \in 0 .. Len(fw)
    /\ entry \in 0 .. Len(fw) /\ table \subseteq Handles /\ parked \subseteq Requests

\* Two write guards of one handle never exist at the same time, although
\* losers of the compare_exchange go back through the checks and a truncate
\* collects the guards of several handles.
OneWriter == \A h \in Handles, v, w \in Requests : HoldsWrite(v, h) /\ HoldsWrite(w, h) => v = w

\* Writer preference: a reader that began its last check when a writer was
\* already waiting or in never holds the handle together with that writer,
\* whatever happens between the two loads of the check and the fetch_add.
NoReaderBesideEarlierWriter ==
    \A h \in Handles, r, w \in Requests : HoldsRead(r, h) /\ HoldsWrite(w, h) => w \notin ahead[r]

\* When every request has been answered, also with an error, the counters of
\* the handles are back at zero: wait_all_operations_done can end and every
\* handle can be released.
Quiescent ==
    Quiet => \A h \in Handles : reader_cnt[h] = 0 /\ write_wait_cnt[h] = 0 /\ ~exclusive_locking[h]

\* "All file handle share the single one [FileWriter]" (writer.rs:62): from
\* open_file_writer to the end of FileWriter::close the writer of a handle is
\* the one in file_writers, however opens and last closes interleave. A
\* handle with a writer of its own would publish over the other's data.
HandleKeepsWriter == \A h \in Handles : ref[h] # 0 => entry = ref[h]

\* A writer that left file_writers has committed everything written through
\* it, unless one of its flushes failed: no interleaving of writes, closes
\* and opens retires a writer with data.
NoWriteLost == \A w \in DOMAIN fw : w # entry /\ ~fw[w].failed => fw[w].pend = 0

\* The metadata counts at least the handles in use, so that an unlinked file
\* is not deleted under one: an open counts its reference before its handle is
\* in the table, a release gives it back only when the handle is in no request
\* any more, and the errors in between only leave references behind.
ReferencesCoverHandles == opens >= Cardinality(Usable)

\* "we hold all the locks for the exists file handles" (kiseki.rs:383): while
\* truncate changes the lengths no write is under way on a handle that was
\* open when it began.
TruncateAlone ==
    \A t, w \in Requests :
        pc[t] \in {"tmeta", "tlen", "treaders"} /\ pc[w] \in {"wrote", "wlength"}
            => req[w].h \notin req[t].all

\* "Updates file reader length after write to maintain consistency"
\* (file_io.rs:263): once no request is under way every open handle reads up
\* to the end of the file.
ReadersKnowLength ==
    Quiet => \A h \in Usable : rlen[h] = (IF entry = 0 THEN mlen ELSE fw[entry].len)

\* "[`Self::write_lock`] blocks until it gets the exclusive lock"
\* (handle.rs:298): while a write guard exists nobody else has a guard.
ExclusiveLock == \A h \in Handles, r, w \in Requests : ~(HoldsWrite(w, h) /\ HoldsRead(r, h))

\* The runtime polls every request that can make progress.
FairSpec == Spec /\ \A r \in Requests : WF_vars(Serve(r))

\* A request that waits for a lock is answered in the end.
RequestsReturn == \A r \in Requests : Busy(r) ~> ~Busy(r)
=============================================================================
