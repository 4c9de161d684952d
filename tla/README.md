# Specifications of kisekifs in TLA+

kisekifs is a FUSE file system: file data goes to an object store as immutable
blocks, metadata to RocksDB, and a local stage directory takes the writes until
the object store has them. This directory models the parts of it where several
actors meet or where a failure can fall between two steps, checks them with TLC on
small instances, and proves the invariants of eight of them with TLAPS for
instances of any size. `PROJECT.json` maps every definition to the lines it
stands for; paths below are relative to `src/`.

Run from this directory:

    tlc -workers 2 -config MCWriter.cfg MCWriter
    tlapm ProcessProofs.tla

## 1. The system

Inventory of the components, what they keep, what changes it, and whom they meet.

| component | state | operations | meets |
|---|---|---|---|
| FUSE sessions (`components/fuse`, `components/fuse-backend`) | session thread(s); "fbr" has N workers, "fuser" one thread | decode, gate, call VFS, reply | lifecycle, VFS |
| mount lifecycle (`components/vfs/src/lifecycle.rs`, `kiseki.rs`, `components/binary/src/cmd/mount.rs`) | state, active operations, notifications, deadline, exit status | begin_operation, init, begin_draining, wait_for_operations, run_shutdown, signal handling | everything |
| ready file (`ReadyFileGuard` in `cmd/mount.rs`) | lease, public record, temporary and retired names | create, reclaim, remove_if_owned, drop | other mounts, other programs |
| task registry (`components/storage/src/task_registry.rs`) | accepting, abort handles, counters, tracker | try_spawn, completion, close, abort_all, wait | stage cache, metadata deletion, lifecycle |
| VFS file operations (`components/vfs/src/kiseki/file_io.rs`, `kiseki.rs`) | handle table, per-inode writers and readers, open references | open, read, write, flush, fsync, release, truncate | writer, reader, metadata |
| VFS names (`components/vfs/src/kiseki/namespace.rs`, `metadata.rs`) | directory handles with their cached children, statfs counters | checks of names, lookup, readdir, readdirplus, statfs | front ends, metadata |
| file handle (`components/vfs/src/handle.rs`) | two counters, a flag, two `Notify` | read_lock, write_lock, guards, waiting for all operations | every request of the handle |
| file writer (`components/vfs/src/writer.rs`) | chunk writers, slice writers, flush queue, flusher, published slices, length | write, flush, finish, fsync, close | slice buffer, stage, metadata |
| slice buffer (`components/storage/src/slice_buffer.rs`) | pages of a slice, flushed length | write_at, read_at, stage, flush_bulk_to, flush | page pools, stage cache |
| page pools (`components/storage/src/pool`) | queues of free memory and disk pages | try_acquire_page, acquire_page, drop of a page | every slice buffer |
| file reader (`components/vfs/src/reader.rs`) | length, chunk/slice lookup | read, truncate_reader | metadata, stage cache |
| stage cache (`components/storage/src/cache/file_cache.rs`, `uring.rs`) | block files, staged index, TTL index, stage space | stage, get, flush_slice, flush_all, migrations, recovery | disk, object store, registry |
| metadata engine and RocksDB backend (`components/meta/src`) | entries, inodes, slices, counters, open files, deletion records | namespace operations, truncate, open, close, write_slice, deletion task | VFS, writer, reader |
| read cache, object store setup, format/unmount, configuration | — | — | not modelled, see section 8 |

What makes it hard: requests of different threads interleave at every `.await`
and at every atomic operation; the flusher and the migrations work behind the
requests; the object store, the disk and the metadata commit fail one by one; the
process can be killed between any two steps and is restarted on what it left; a
shutdown with a deadline runs against all of it. The correctness at stake:
acknowledged data is not lost and is what readers see, `fsync` means what it
says, no call waits for ever, counters and locks stay exact, the name space stays
a tree whose link counts are right, and the process ends when it is told to.

## 2. Modules

| module | models | state that matters |
|---|---|---|
| `BlockDurability` | the promise of the stage cache, abstractly | where each block's stable copy is |
| `FileCache` | `storage/src/cache/file_cache.rs`, `uring.rs` | disk, index, space, one `stage` chain per block, four kinds of migration, a flush, a reader per block, the process |
| `ChunkLayout` | `Slices`, the range map, chunk and block arithmetic | none: operators shared by Writer and Reader |
| `Writer` | `vfs/src/writer.rs`, the slice buffer, `commit_slice` | slice writers, queue, flusher, requests; `store` and `meta` survive |
| `Reader` | `vfs/src/reader.rs`, `get_chunk_slices` | committed slices, staged blocks, lengths told to readers |
| `PagePool` | the page pools of `storage/src/pool` | the two queues, the bytes of the pages, permit and waiters of `Notify` |
| `SliceBuffer` | `storage/src/slice_buffer.rs` over `PagePool` | blocks with their pages, the operation of each buffer, what was stored |
| `FileHandle` | the lock of `vfs/src/handle.rs` | every atomic access is a step |
| `VfsHandles` | the file operations of the VFS over `FileHandle` | the requests, the handle table, the shared writer with its references, reader lengths, open references |
| `VfsNames` | names, directory handles and statfs, from both front ends to the stored entries | entries, what the kernel was told, listings in progress, the two counters |
| `TaskRegistry` | the registry of background tasks | mutex, handles, counters, tracker |
| `MountLifecycle` | `vfs/src/lifecycle.rs`, shutdown, main thread of `mount`, both sessions | gate, drain, deadline, exit |
| `ReadyFile` | the readiness record | the names in its directory and the lease |
| `Metadata` | `meta/src/engine.rs`, `open_files`, `backend/rocksdb.rs` | database, inode ids, open files, deletions, write batches in flight |

`*Proofs` modules hold theorems (`ProcessProofs` about the stage cache, the lifecycle
and the task registry; `ComponentProofs` about slice buffers, names and the readiness
file; `Vfs*Proofs` about `FileHandle` and `VfsHandles`; `Metadata*Proofs` about
`Metadata`), `MC*` modules the instances for TLC. Modules whose proofs share a module
have no name in common, hence `RegistryInit`, `LifecycleNext`, `NamesSpec`, and
`admitting` for the flag `accepting` of the registry. `Ordered` has no state: it gives
the ascending sequence of a set of integers. Mutated forms of operations (comments
begin with "Mutant:") are kept next to the operation they break; each shows that a
checked property depends on the code it is about.

How the components are joined: `Writer` stages blocks and lets a stage call fail,
and `FileCache` is what such a call does; `BlockDurability` is the contract
between the two. `Reader` takes writes at their commit, which is the last step of
`Writer`. `MountLifecycle` treats a background task as running or not and the
write buffers as the set of requests whose data they hold; `TaskRegistry` and
`Writer` have the details. `Metadata` and `Writer` both have a length of the file:
in `Metadata` the flusher's slice commit is one more request against an inode.
`VfsHandles` composes the lock of every handle with what the requests do under it;
what it says of a writer is its length, its references and the end of what is not
committed, the rest is `Writer`. `SliceBuffer` composes the buffers with the pools
they compete for; `Writer` sees a buffer as cells and a page that cannot be had
as a failed write. `VfsNames` changes the entries of a directory in one step,
`Metadata` interleaves the steps of those changes.

### FileCache

A block is a key. Each actor (the `stage` call of a block, the migrations started
by eviction, by pressure and by recovery, an explicit flush, a reader) moves
between the code's await points, so disk and object-store answers of different
actors arrive in any order. Every I/O step has a failing twin. `Crash` empties the
memory and keeps `local`, `tmp` and `remote`; the restart is
`recover_stage_index`, which either rebuilds the index (`Recover`) or refuses the
directory (`RecoverRefused`).
`same_generation` only compares entries of one mount: slice ids are never reused,
so "the entry is current" is "the key is in the index". `moka` is external and may
evict anything at any time. Crashes are process crashes: what the code has
written survives, `fsync` of the disk is not distinguished from a write.

### Writer, ChunkLayout and Reader

The n-th write fills its cells with n, so a cell tells which write it is from.
`Stale` is a page cell no write filled, `Hole` a cell no slice covers. A write
request runs `FileWriter::write`: it waits at the writer limit, finds or makes a
slice writer for every chunk it crosses, copies the data, may flush complete
blocks in bulk and gives old or full slice writers to the flusher. The flusher
takes one slice at a time: stage the blocks, then commit to the metadata, then
tell the chunk; each can fail. `finish` is what flush, fsync and the last close
do under `operation_lock`. `Plans` bound an exploration: who writes which extents
how often, which requests are issued and which failures are considered.

When the last close fails to flush, the writer is dropped and its unflushed data
with it: `CloseWriter` then marks the acknowledged writes as reported lost, as the
caller got an error, and `FlushedIsReadable` no longer claims them.

`Reader` checks the lookup against the file as the writes define it, cell by cell:
`ChunkLayout` is the code's range map, `file` the reference definition.

### PagePool and SliceBuffer

A page has an owner: a queue, a block of a buffer, a write that is still reserving,
or a caller of `acquire_page`. `write_at` reserves page by page, and other buffers
take and return pages in between; it gives back what it has when one is missing.
`stage`/`flush_v2` and `flush_bulk_to`/`flush` store block by block, drop the pages of
a stored block and may fail at each. Bytes are kept, so that a page that comes
back with another slice's data would show in `ReadsBack`: the memory pool clears a
returned page, the disk pool does not. It does not have to, because a write never starts
past the end of a slice (`find_writable_slice_writer`; `MaxGap` is 0), so every byte
below the length was written. `Notify` is modelled with its permit and its queue.

`sealed` is the slice writer on top of the buffer: from the last flush to the commit it
takes no write. A flush that fails returns it to `Dirty`, a commit that fails
(`CommitFails`) to `Idle`, and both take writes again. In the second case the short last
block is stored already, and is stored again under another size when the slice has grown;
`torn` remembers such blocks. `ReadsBack` speaks of every byte but those of a torn
block that was written again (`Superseded`). `RetryReadsBack` speaks of those too and
does not hold (section 6).

### FileHandle and VfsHandles

`read_lock` and `write_lock` are protocols over two counters, a flag and two
`tokio::sync::Notify`; each load, store, read-modify-write, registration and
`notify_waiters` is a step of its own, so the lock is checked at the granularity
at which it can go wrong. Atomics are taken as sequentially consistent. A request
becomes cancellable only after it has the lock, so the cancellation arms of the
loops have no step.

`VfsHandles` is one file with its handles. A request is at a step `pc` and, while it is at a
lock, at a handle `cur`; a truncate collects the guards of all the handles there
were when it began. An open takes the reference of the metadata, works out the
length, inserts its reader, gets the writer (or makes it) under the lock of the map
entry and enters the table; a release undoes this in its own order, waits for the
operations on the handle twice, and returns early when a flush fails. Between any
two of these another request may run. Flushes, writes, truncates and opens may fail
(`Faults`) and return at that point with what they have done so far: a write that fails in its
second chunk has data in the writer and tells no reader a length. `flock`, `set_lk` and `close` of
the metadata engine, which release calls, answer Ok in every case. The kernel is an environment that sends a release once the other requests on the handle are
answered and uses a handle only between open and release.

### VfsNames

A name goes from the kernel through one of the two front ends (which differ in how
they convert a name that is not UTF-8), through the checks of `KisekiVFS` to the key
it is stored under; the model keeps what the kernel was told about each name. A
directory handle caches its children at offset 0; listings are served in pages of
any size while other requests change the directory. The statfs counters have
`CounterValues` values (2^64 in the code, 8 in the run) and wrap, as they count from
the mount on and removals of older entries take them below zero. `since` is history: the
inodes that were stored at the mount, those that renames have replaced and the regular
files that were removed since then. `StatfsFigures` states with it what the figures of
statfs are worth: each operation moves the counters by what it believes it made or freed,
and only a comparison with what is stored shows whether that was so (a hard link makes no
inode, the removal of one of two names frees none).

### TaskRegistry

The mutex around admission, the tracker, the map of abort handles, the
`CompletionGuard` of a task and its flag are separate steps: a task may end before
its handle is registered, while the registry closes, or by a panic.

### MountLifecycle

The main thread of `mount`, the request gate, `KisekiVFS::init`, the session of
the chosen backend, `run_shutdown` with its deadline, background tasks and the
signal handler. Backend and shutdown policy are chosen in `LifecycleInit`, so a single run
covers the four combinations. "fuser" has one session thread: its requests are
serial, and it runs `destroy` itself; "fbr" has workers that end on their own.
Requests and background tasks may hang for ever.

### ReadyFile

All mounts given one path, the lease, and every name in the directory. SIGKILL can
fall at every step, a dead process's pid can be taken by another program, and
other programs put entries at the path and remove them at any time. An entry is
its own identity, hence the device and inode numbers the code compares next to the
token add nothing here. I/O errors of the renames and of `remove_file` are not modelled; neither is
another program replacing the lease file, which the runbook forbids.

### Metadata

An operation of the backend reads through a transaction, collects a write batch
and writes it in one step, outside the transaction: what it read is not
validated. So every request has two steps, the read that computes the batch and
the write that applies it, and any other request may run between. Only
`commit_slice` uses `get_for_update` and is refused when a key it tracks changed
(`Conflict`). What keeps requests apart is the locking of the Linux VFS above
FUSE (`Held`, external): the directories whose entries change, the inode linked,
removed, replaced or changed, and a directory that is moved. The flusher's slice
commit holds none of these. After-effects in memory (open-file table, deletion
task) are atomic with the write. `Crash` drops the memory and keeps the database.

Left out of an attribute: permissions, flags, times, the link count of a directory
and the per-parent link counts (written, never read by the code). `skip_dir_mtime`
is zero, so a parent is always written back; `open_cache` is zero, so `getattr`
reads the database. A refused call is no step. A truncation to the length a file
already has in the database panics (`assert_ne!`, rocksdb.rs:1321) and is no step.
A `create` of an existing name is `Open`.

## 3. Runs

Passing runs:

| cfg | question | properties |
|---|---|---|
| `MCFileCache` | can failures, cancellation, kills, restarts and racing migrations lose a block, leak stage space or strand a flush? | `NoAckedBlockLost` `FlushedIsRemote` `ReaderNeverLoses` `SpaceAccounted`; refinement `ImplementsBlockDurability`; liveness `RecoveredBlocksMigrate` `PressureFlagReleased` |
| `MCSliceBuffer` | with fewer pages than two slices want: is a page ever lost, shared or miscounted, and does every byte read back as written, whatever fails, the commit included? | `PagesConserved` `CountCoversPages` `ReadsBack` |
| `MCWriter` | for appending, and for concurrent writes of whole blocks: is data on disk and readable after a flush, remote after fsync, whatever fails? | `OneOwner` `FlushedIsReadable` `FsyncIsRemote`; liveness `FinishReturns` |
| `MCReader` | does a read return the last write at every position, over all overlaps of extents across two chunks? | `ReadsLastWriter` |
| `MCVfsHandles` | with opens, reads, writes, flushes, truncates and releases of one file interleaved: are the locks right, does everybody share one writer that keeps its data, are the references enough? | `OneWriter` `NoReaderBesideEarlierWriter` `Quiescent` `HandleKeepsWriter` `NoWriteLost` `ReferencesCoverHandles` `TruncateAlone` |
| `MCVfsNames` | do names of every sort mean the same to the kernel and to the store, are listings in pages exact while the directory changes, what do the figures of statfs count? | `ListingExact` `KernelViewHolds` `StatfsFigures` |
| `MCMetadata` | do interleaved read-then-write operations keep link counts, the tree and the deletion records right? | `LinkCountExact` `NamespaceIsTree` `DeletionExact` `OpenFileKept` |
| `MCTaskRegistry` | does shutdown reach every task, and when `wait` returned is it quiet? | `DrainMissesNoTask` `WaitMeansQuiet`; liveness `DrainCompletes` |
| `MCMountLifecycle` | are writers flushed while nobody writes, does exit 0 mean the data is safe, does a signal end the process? | `QuietAfterDrain` `WakeupPending` `CleanExitKeepsWrites` `ReadyIsTruthful`; liveness `SignalEndsProcess` |
| `MCReadyFile` | do mounts sharing a path keep, remove and preserve the right records? | `ReadyRecordStays` `OwnerRemovesRecord` `ForeignPreserved` |

Runs that end in a counterexample, each for one sentence of the repository that
the code does not keep:

| cfg | property | what the trace shows |
|---|---|---|
| `MCWriter_tail` | `FlushedIsReadable` | an unaligned write whose full blocks were flushed in bulk is published with its length although its tail was never staged |
| `MCVfsHandles_length` | `ReadersKnowLength` | an open works out the length, a write grows the file and tells the readers there are, and the open inserts its reader with the old length |

`MCWriter` and `MCWriter_tail` check the same property: it holds for the append
and whole-block plans, and fails for one unaligned write that starts inside a
block. The two cfgs delimit which use of the write path is safe.

### Bounds

- `MCFileCache`: two blocks of one slice in a stage of one block. Two blocks are
  what pressure and two calls in competition need; a stage of one makes
  reservation, refusal and pressure happen. Two blocks are never staged at the same time, so
  that a flush has one entry to migrate: for a flush over several, and for every size, the
  safety part rests on the proofs.
- `MCSliceBuffer`: pages of two bytes, blocks of two pages, slices of two blocks:
  two slices want eight pages and the pools have two in memory and one on disk, so
  reservations fail half way and fall through to the disk pool. One caller of
  `acquire_page` beside the buffers. Writes of one and of four bytes end inside a
  page and cross a block; three of them, to two slices, reach a slice with a
  stored block, a partial block and a competitor. Both sinks.
- `MCVfsHandles`: two open handles and one to open, three requests, one operation
  each. Two writers and a reader on one handle, a truncate over two handles
  against a write, a close of the last writer against an open, all need three.
  Two assignments of access modes: a reader and a writer at the start and a writer
  opened later, and the reverse. Writes end at 2 in a file of length 1, truncates
  go to 0. Requests are symmetric: handles are told apart by their numbers, requests
  by nothing. The proofs lift all seven properties to any number of
  handles and requests.
- `MCVfsNames`: plan `Listing` has one listing process and three names that are
  created, removed and moved; `Below` and `AtRoot` have all requests on names of the
  greatest length, longer, internal, not UTF-8 (two that become one text) and ".".
  At the root nothing is moved onto an internal name (section 6). Three inodes; counters of
  three bits, so that they wrap; one remount.
- `MCWriter`: blocks of 2 cells, chunks of 4, two chunks. Plan `Appends`: one
  client, three writes of any extent of one to three cells at the end, so that
  writes end inside a block, at its end, across a block and across a chunk; with
  flush and fsync and failing stage and remote calls. Plan `Disjoint`: two clients
  writing whole blocks at once, with flush and close and failing pages, stage
  and commit. `EarlyFlush` is 0 instead of 3, so that a slice writer is handed to
  the flusher early with the few there are; `WriterLimit` is the code's 1000 and is
  not reached (see `Spread` in section 7).
- `MCReader`: three writes over every extent that spans the chunk boundary, one
  writing client, reads inside, at and past the end.
- `MCTaskRegistry`: three spawn calls; one each to be refused, finished and alive
  at the close.
- `MCMountLifecycle`: two requests (one in the gate, one running) and one task.
- `MCReadyFile`: three mounts (a stale one, the one reclaiming, a competitor) and
  two foreign entries (one retired, one placed while it is).
- `MCMetadata`: two concurrent requests, two names. `Bounds` pairs what would be
  too large together: four inodes with symlinks and no data, which is what a rename
  over an existing entry in another directory needs, or three inodes that are
  opened, written, truncated and deleted. Two handles per inode, files of length
  up to one. Names and requests are symmetric: no property or action tells their
  members apart. `Step` 2 makes the id table refill.

Deadlock is checked except where the system may end: when every request on the file
is answered (or one sleeps, section 7), the writes of a plan are used up and
nothing is requested, the registry has drained, the process has exited, or every
mount has ended.

The `TypeOK` of every module holds on its instance too, as do `SlicesCounted` and
`PublishedIsStaged` of `Writer`; they are not kept in the cfgs, which name what could be
wrong.

## 4. Fairness

- `FileCache`: tokio polls every task and call that can step (weak fairness of
  the steps of a migration, of the flush and of a stage call that has begun, and
  of the dropping of cancelled tasks). Strong fairness of a successful upload and of
  a successful deletion of a block: an outage is not permanent, so what is retried
  again and again (`migrate_with_retry`) succeeds in the end. Nothing makes a crash,
  an eviction or a flush happen.
- `Writer`: the flusher task, a write that has begun and a finish that has begun
  are polled. No fairness says that a stage call or a commit succeeds:
  `FinishReturns` holds when all of them fail for ever.
- `TaskRegistry`: calls run to their end, a task that was aborted ends at its next
  await, `abort_all` and `wait` are called. A task body that was not aborted may
  hang.
- `MountLifecycle`: the clock (both deadlines), the main thread, `init` and the
  shutdown, all bounded by the code. None for requests, background tasks and
  sessions: `SignalEndsProcess` holds although all of them hang.
- `VfsHandles`: `FairSpec` polls every request that can step. It is used for
  `RequestsReturn` only, which fails (section 6): no fairness of the runtime makes up
  for a wakeup that was never stored.

## 5. Proofs

`tlapm` checks them for every value of the constants under the named assumptions.

**ProcessProofs, the stage cache** (assumes `KeysFinite`, `SliceOfType`,
`MaxStageType`: finitely many blocks, each with a slice, a positive stage size).

- `Invariant` proves `Inv`, the conjunction behind all other theorems. That no
  acknowledged block is lost is not inductive: the deletion of a file is safe only
  because the deleting migration has confirmed the object (`Migrated`), which
  stays true only while nobody else works on the entry (`LockHeld`); a reader
  that finds no file is safe only because a file vanishes after the confirmation
  (`Readers`); a flush that finds no entry is right only because an acknowledged
  block leaves the index after its confirmation (`LeftIndexIsRemote`, `Flusher`);
  and a stage call that is not over owns its file (`Unpublished`). `Spawned` says
  that a kind of task exists once per block and `Down` that a dead process has
  no actors left. The three groups `Locking`, `Reach` and `Spawned` are shown to be kept
  one by one (`NextLocking`, `NextReach`, `NextSpawned`), each from all of `Inv`.
- `AckedNeverLost`, `FlushIsDurable`, `ReadersSafe`, `TypeCorrect` follow from it.
- `StageSpace` (`SpaceAccounted` and `StageBounded`): exact accounting needs the
  disk too, as a restart sets the counter from the directory. `SpaceInv` adds that
  the files of the directory are covered by entries and reservations;
  cardinalities come from `FiniteSetTheorems`.
- `EntriesHaveFiles`, `DeletesAreConfirmed`: an invariant of its own and an action
  property from `Inv`.
- `Refinement`: `Spec => ImplementsBlockDurability`. Every step maps, under `Place`,
  to a step of `BlockDurability` or to stuttering; a crash and a restart are
  stuttering, which is what the stage promises its users.

**ProcessProofs, the task registry** (assumes `SpawnsFinite`). `Mutex` ties the
steps of a spawn call to the holder of the mutex (`admission`), `Stages` ties a
task's stage to its call, token and flag, `Reachable` says a live registered task
has a handle or was aborted. `DrainIsComplete`, `HandlesDoNotLeak`,
`ClosingIsFinal`, `WaitIsQuiet`; with cardinalities `CountersAreExact`, from which
`RegistryTypeCorrect` (no counter underflows).

**ComponentProofs, the readiness file** (assumes `ReadyFileConstants`: names are
distinct). `LeaseHeld` says at exactly which steps a process has the lease,
`Records` at which steps its record and temporary file may exist, `RetirementFree`
that a name for retirement is free when needed: otherwise a second retirement would
overwrite a foreign entry. `RecordStays`, `RecordRemoved`, `ForeignSafe`,
`ReadyTypeCorrect`.

**VfsLockProofs, VfsFileProofs, VfsWriterProofs** (assume `FileHandleConstants` and
`VfsHandlesConstants`: finitely many handles and requests, some handle open for
writing at the start). Any number of handles, requests and faults.

- The lock. `LockInv` says that `reader_cnt` and `write_wait_cnt` are the numbers of
  requests at the steps they stand for (`Counts`), that `exclusive_locking` is set
  exactly while a guard of the handle exists (`Flagged`), and how far a writer that
  a reader found ahead of it must have come (`Passed`: still in, or past the point
  of no return, when the reader loads the flag; gone once it has passed).
  `RequestsOK` ties the steps to the operations: a counter is right only because a
  read never takes the path of a write. `WritersExclude`, `WritersPreferred`,
  `LockQuiescent`.
- The handles. `Effect` sums up what serving a request can do to the requests, the
  table and the handles' writers; `Once`, `Existing` and `Held` follow from it
  alone: a handle is opened and released once and in this order, and keeps its
  place and its writer while it is used. With them `Locked` (a write has the guard of
  its handle, a truncate the guards of all it has passed, which stay enough because a
  handle that exists never gets a writer later) gives `TruncateExcludesWrites`,
  and `Counting` (the metadata counts the handles whose reference was taken and not
  given back) gives `OpenFilesCounted`.
- The writer. `Writers` says that the writer in `file_writers` counts exactly the
  handles that use it, and that data it has not committed has a user that is yet
  to flush it. The second half is what `RetiredIsCommitted` needs: the last close
  flushes before it takes the lock of the map entry, so another handle may write after
  that flush, and then it is not the last. `WriterIsShared` is the first half.

**ProcessProofs, the lifecycle** (assumes `LifecycleConstants`: finitely many requests and
background tasks, the backends and policies there are). `LifecycleInvariant` proves
`LifecycleInv`, any number of requests and tasks:

- `Gate`: `active_operations` is the number of requests between `begin_operation` and
  `finish_operation`. That the drain flushes alone (`FlushIsAlone`) needs it together
  with `Shut` (once the drain began nothing makes the mount ready again): a request
  that counts itself after the drain looked finds the state changed when it
  looks a second time. `NoLostWakeup` is the same for the notification.
- `Clean` follows the shutdown: while its report has no error, everything acknowledged
  is flushed as far as it has come. `Mounting`, `Readiness` and `Finishing` say where
  the main thread can be in the meantime, with either backend. From them
  `ZeroExitIsDurable` and `ReadinessIsTrue`.

**MetadataTreeProofs, MetadataBatchProofs, MetadataProofs** (assume
`MetadataConstants`: inode numbers from 1 to a bound, finitely many names, `None` is
none of the values). Any number of inodes, names and concurrent requests. A batch is
collected in one step and written in a later one, so that a namespace is a tree now
says nothing of the write to come. The argument has four parts.

- `Namespace(D, A)` says of entries and attributes, not of the state, that they form
  a tree with exact link counts. Seven lemmas show it of what each operation makes
  of a namespace it is written over at once (`MetadataTreeProofs`), and the batches
  that the requests collect are such changes (`MetadataBatchProofs`). That rename
  ties no ring is stated without recursion: of any set of directories without the
  root one has its parent outside.
- `Compose`: two such changes that touch different entries and inodes, and do not both
  change parents, leave a namespace behind together. Neither alone shows that: two renames
  that are right one by one can tie a ring, hence the condition on parents.
- `Sound` says of a request in flight what its locks cover (`EntriesLocked`,
  `InodesLocked`), that chunks of the files it removes are marked, and that its
  batch leaves a namespace behind. `StillSound`: it stays so when another batch is
  written under locks that exclude its own. This is where the locks of the kernel
  are used, and the validation of `commit_slice`, which has no lock: a commit whose
  attribute was written is stale.
- `Inv` adds that locks in flight exclude each other and an inode that a request
  makes is nobody else's (`Apart`, `NewInodes`), for which every number in use is below
  the next of `IdTable` (`Used`), also after a restart that takes a new range.

`LinksExact`, `DirectoriesAreTree`, `DeletionsExact` and `OpenFilesKept` follow. The last
has its condition from the model: a file that is opened while its last name goes,
after unlink has looked, may lose its inode (`late`).

**ComponentProofs, the names** (assumes `VfsNamesConstants`: among others a fixed order
of the stored names, and plans over names that have a text). Any names, plans and
handles, pages of any size, counters that wrap at any value.

- `NamesCore`: types, and the kernel's view. A request that changes an entry has been
  told the view of its name by a lookup, so the name is one that goes to the stored
  entries (`VisibleIsPlain`), and names of one text that go there are told alike
  (`ViewKept`). `KernelViewIsTrue` has the hypothesis `RenamesVisible`: no plan
  renames onto the name of an internal node, which the code permits and which hides the
  file (section 6, `InternalNotStored`). The plans of the run satisfy it, and the
  proof needs it in the step of rename alone.
- `Listings`: what each listing in progress is owed. What it has is the names of the
  first `offset` children of its handle (`Paged`), and those children are a listing of the
  directory since it began (`Lists`): every name present all along once, none that
  never was. A directory may change at every step, but the names present all along
  only get fewer and those ever present only more (`WitnessListings`).
  `ListingsAreExact` is the state in which the end is reached.
- `Accounts`: the two counters are what the stored inodes have grown by since the mount, plus
  the replaced ones, and for the space also the removed files (`Sums`), modulo the width;
  no inode above `made` is stored, and every entry has an inode that is. The last two are needed
  for the counting: a new inode was not stored before, and a removed name had an inode to
  remove. Each request changes the stored inodes by one or not at all
  (`StoredChanges`, `KeptAccounts`), and `StatfsFiguresHold` follows.

**ComponentProofs, the slice buffers** (assumes `PagePoolConstants` and
`SliceBufferConstants`: pages, blocks and chunks have some bytes, and the larger is a
multiple of the smaller). Any sizes, pages and buffers. `SliceInv` speaks of one buffer
and its operation (`Counted`): the count is at least the number of places that hold
a page, plus what a running stage has released and not yet subtracted; an upload
owes nothing, because it subtracts block by block. A write adds the length of the list
of places it found lacking, and fills no more places than that list has
(`PlacesFilled`); storing a block empties as many places as it had pages
(`PlacesEmptied`). `PagesCounted` follows. That the count is not exact (section 7,
`PageCountExact`) is the case of a stage that fails after its first block.

`Ordered` defines the ascending sequence of a finite set of integers by rank;
that it has each element once (`AscendingBijective`) is a lemma, which could not be
had from a recursive definition.

Only model-checked: all liveness properties (TLAPS has no support for fairness);
`ReadsLastWriter` and `FlushedIsReadable`, which say what the lookup of `Reader` and
`ChunkLayout` computes over a sequence of slices (an induction over data); `ReadsBack`
and `PagesConserved` of `SliceBuffer` (contents built page by page, a sum over buffers);
`FsyncIsRemote`, which like `FlushedIsReadable` depends on the plan (section 7 has plans
for which they fail), so that no theorem for every plan exists; and `OneOwner`, for
which no proof has been written.

## 6. Disagreements between the code and its documentation

The two with a run are in section 3. Others, found while modelling, with a property
of a module and an instance that shows them (section 7 has the settings):

- a kill between writing `<block>.uring.tmp` and its rename leaves a name that
  recovery does not know, and the mount is refused (`RestartNotRefused`);
- an eviction between the insertion in the policy cache and the one in the
  staged index finds nothing to migrate, and nothing migrates the block later
  (`EvictedBlocksMigrate`);
- a reader that has tested and not yet counted itself and a writer that has tested
  and not yet set its flag both enter (`ExclusiveLock`);
- a writer of a handle can miss the wakeup of the last holder (`RequestsReturn`);
- after a commit grew the file, a truncation to the length it had when opened
  returns without doing anything (`TruncateTruncates`);
- a file whose name has the greatest length can be made and not be removed or
  renamed (`StoredIsRemovable`);
- a rename onto the name of an internal node hides the file (`InternalNotStored`);
- full entries of a listing carry the inode of the directory (`PlusNamesInode`);
- when a later block of a stage call fails, the pages of the earlier ones stay
  counted (`PageCountExact`);
- a later write into an older slice writer is hidden by a newer slice that is
  committed after it (`FlushedIsReadable`, plan `Overlap3`);
- after a failed commit the same slice takes more data and is published with a
  last block staged at its old size (`FlushedIsReadable`, plan `Retry`, and
  `RetryReadsBack` of the slice buffer);
- statfs answers with counters that start at zero with every mount and ignore what a
  rename replaces, and not with figures of the volume (`StatfsCountsVolume`);
- a write fails on its offset when its slice writer is flushed between the choice
  and the write (`LegalWriteAccepted`, plan `Rewrite`);
- when pages run out in the first chunk of a write across two, the second slice
  writer stays in `Writing` and `finish` waits for ever (`FinishReturns`, `Cross`);
- at the writer limit a write can wait for slices nobody flushes (`WriteReturns`,
  `Spread`);
- a hole that spans a chunk cannot be read (`HolesReadAsZeros`, `Sparse`);
- fsync after a close and a reopen confirms nothing (`FsyncIsRemote`, `Reopen`);
- draining leaves `Failed`, and `mark_failed` overwrites (`LifecycleMonotonic`).

Read in the metadata code, without a property yet: `rocksdb.rs:70` promises
isolation, but `chmod`, `link`, `rename` and `unlink` write back an attribute that a
concurrent `commit_slice` has changed, and may undo its length; an `open` that races
the removal of the last name loses the inode under the handle (`late` keeps these
cases out of `OpenFileKept`); `delete_chunk_after` and `sustained` records are not
replayed after a restart; `close` leaves the inode of a sustained file; `rmdir`
within `skip_dir_mtime` of the last change keeps the parent's old link count, and
`rename` changes the parents' link counts for every kind of entry; `do_link` tests
the parent of the child after having zeroed it.

Visible in the models, without a sentence of the repository against it: `release`
returns before `meta.close` when its flush fails, and an `open` that is refused its
writer keeps its reference and its reader (`ReferencesCoverHandles` is therefore an
inequality); a write or an fsync on a handle that cannot write is answered EINTR;
`acquire_page` waits at the disk pool only, and sleeps on when a memory page is freed
(`NoSleeperBesideFreePage`; no caller in the write path waits for a page); a
listing with attributes fails as a whole when one entry is removed under it.

## 7. Further instances

Not kept as cfg files; each is one of the existing MC modules with these settings
and the property alone, and ends in a counterexample.

`MCWriter` with `Clients <- OneClient`, `BlockSize = 2`, `ChunkSize = 4`,
`EarlyFlush = 3`, `WriterLimit = 1000` unless given, `CHECK_DEADLOCK FALSE`:

| `Plans <-` | `Chunks <-` | specification | property |
|---|---|---|---|
| `Overlap3` | `OneChunk` | `Spec` | `FlushedIsReadable` |
| `Retry` | `OneChunk` | `Spec` | `FlushedIsReadable` |
| `Rewrite` | `OneChunk` | `Spec` | `LegalWriteAccepted` |
| `Cross` | `TwoChunks` | `FairSpec` | `FinishReturns` |
| `Spread`, `WriterLimit = 2` | `ThreeChunks` | `FairSpec` | `WriteReturns` |
| `Sparse` | `TwoChunks` | `Spec` | `HolesReadAsZeros` |
| `Reopen` | `OneChunk` | `Spec` | `FsyncIsRemote` |

`MCVfsNames` with the constants of its cfg: `StoredIsRemovable` and `PlusNamesInode` with
`Plans <- AllPlans`, `InternalNotStored` with `Plans <- MoveOntoInternal`,
`StatfsCountsVolume` as it is.

`MCVfsHandles` with the constants of its cfg: `ExclusiveLock` with `Faults = FALSE`;
`RequestsReturn` with `FairSpec`, `Faults = FALSE`, `Requests <- TwoRequests` and no
symmetry.

Others: `MCFileCache`, `FairSpec`, `EvictedBlocksMigrate`, or `Spec`,
`RestartNotRefused`; `MCSliceBuffer`, `PageCountExact`, `RetryReadsBack` or
`NoSleeperBesideFreePage`; `MCMetadata` with `Calls = {c1}`, `Bounds <- WithData`,
no symmetry, `TruncateTruncates`; `MCMountLifecycle` with `Backends = {"fuser"}`,
`Policies = {"local"}`, `LifecycleMonotonic`.

These hold and are proved rather than kept in a run: `StageBounded`, `StagedHasFile`,
`DeleteOnlyConfirmed`, `CountersAgree`, `ClosedStaysClosed`, `NoHandleLeak`, `TypeOK` of
`FileCache`, `RegistryTypeOK`, `ReadyTypeOK`, `LifecycleTypeOK` and `NamesTypeOK`.

## 8. Not modelled

- The read cache, a bounded `moka` cache of immutable blocks, and the set-up of the
  object store: libraries; their answers and failures are environment steps.
- `format`, `umount`, configuration, logging, metrics, key and value encodings,
  FUSE argument decoding (but for names) and replies: one-shot calls and pure conversions.
- `readlink`, `access` and permission checks, which change nothing; times, quotas and
  directory statistics. The attribute and slice caches of the open-file table: they
  are off with the default `open_cache` of zero.
- Threads that block: `direct_flush` holds the guard of a `DashMap` shard across an
  await, so opens and closes in that shard block their runtime thread until the
  flush ends. The model takes an access to a map as one step that is always possible.
- Power loss (as against a killed process) and weak memory: atomics are taken as
  sequentially consistent.
- The startup probes and the health report of `mount`.

## 9. Plan

The order in which the project was and is to be built:

1. Stage cache with its abstract specification, its refinement and proofs; handle
   lock; task registry with proofs. Done.
2. Write path and read path over one layout of chunks and slices. Done.
3. Mount lifecycle with both backends, ready file with proofs. Done.
4. Name space, open files and deletion. Done for single requests over the kernel's
   locks.
5. Page pools with the slice buffers on top; names, listings and statfs. Done.
6. The file operations of the VFS over the handle locks, with proofs. Done.
7. `Metadata` with the length: isolation against `commit_slice`, and the replay of
   deletions after a restart.
8. An abstract file (content and length) that `Writer`, `Reader` and `VfsHandles`
   together implement.
9. Proofs about the lifecycle, the metadata, the names and the count of the slice
   buffers. Done. To do: `OneOwner` of the writer.
