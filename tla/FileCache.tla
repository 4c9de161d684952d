----------------------------- MODULE FileCache -----------------------------
(***************************************************************************)
(* The write-back stage cache (storage/src/cache/file_cache.rs) with its   *)
(* io_uring writer (storage/src/uring.rs): blocks are staged as files, an  *)
(* index holds them until the object store confirms them, background tasks *)
(* and explicit flushes migrate them, and a restart recovers the index     *)
(* from the directory.  Steps are the code's await points, so every actor  *)
(* below interleaves with every other one, and the process may die between *)
(* any two of them.                                                        *)
(*                                                                         *)
(* A block is a key.  Blocks are immutable and slice ids are never reused, *)
(* so a key is staged successfully at most once and `same_generation`      *)
(* compares entries of one mount only: "the entry is current" is "the key  *)
(* is in staged_index".  Every block counts one unit of stage space.       *)
(***************************************************************************)
EXTENDS Integers, FiniteSets

CONSTANTS
    Keys,       \* the blocks (SliceKey) of the slices being written
    Slices,     \* slice ids
    SliceOf,    \* the slice of each block
    MaxStage    \* Config::max_stage_size, in blocks

ASSUME KeysFinite == IsFiniteSet(Keys)
ASSUME SliceOfType == SliceOf \in [Keys -> Slices]
ASSUME MaxStageType == MaxStage \in Nat \ {0}

VARIABLES
    local,          \* canonical files in the stage directory
    tmp,            \* `<key>.uring.tmp` files in the stage directory
    remote,         \* complete objects in the object store
    staged_index,   \* blocks not yet confirmed remote
    index,          \* the TTL/capacity index (moka)
    staged_bytes,   \* reserved stage space
    stg,            \* progress of the one `stage` call chain of each block
    mig,            \* progress of each migration of each block
    lock,           \* holder of each entry's migration_lock
    pressure,       \* pressure_migration_active
    todo,           \* keys the explicit flush in progress has still to do
    promised,       \* acknowledged blocks that flush was asked to cover
    flushing,       \* an explicit flush (flush_slice, flush_all) is running
    rd,             \* progress of a reader of each block
    up,             \* "up", "down" (killed) or "refused" (recovery failed)
    accepting,      \* the task registry still accepts background tasks
    cancelled,      \* the registry's cancellation token has fired
    acked,          \* history: blocks whose `stage` answered Ok
    durable         \* history: blocks covered by an Ok of a flush

disk == <<local, tmp, remote>>
stageVars == <<staged_index, index, staged_bytes, stg>>
migVars == <<mig, lock, pressure>>
flushVars == <<todo, promised, flushing>>
mountVars == <<up, accepting, cancelled>>
history == <<acked, durable>>
vars == <<disk, stageVars, migVars, flushVars, rd, mountVars, history>>

Tasks == {"evict", "recover", "pressure"}
Procs == Tasks \cup {"flush"}
None == "none"
StageSteps == {"new", "reserved", "writing", "renamed", "staged", "dead"}
MigSteps == {"off", "lock", "copy", "delete", "unindex"}
ReadSteps == {"off", "hit", "missing", "lost"}
InFlight == {k \in Keys : stg[k] \in {"reserved", "writing", "renamed"}}
Holding == {"copy", "delete", "unindex"}

FlagsOK ==
    /\ pressure \in BOOLEAN /\ flushing \in BOOLEAN
    /\ accepting \in BOOLEAN /\ cancelled \in BOOLEAN

DataOK ==
    /\ local \subseteq Keys /\ tmp \subseteq Keys /\ remote \subseteq Keys
    /\ staged_index \subseteq Keys /\ index \subseteq Keys
    /\ staged_bytes \in Int
    /\ stg \in [Keys -> StageSteps]
    /\ mig \in [Procs -> [Keys -> MigSteps]]
    /\ lock \in [Keys -> Procs \cup {None}]
    /\ todo \subseteq Keys /\ promised \subseteq Keys
    /\ rd \in [Keys -> ReadSteps]
    /\ up \in {"up", "down", "refused"}
    /\ acked \subseteq Keys /\ durable \subseteq Keys

\* Blocks, tasks and counters of the stage keep their types: only known blocks
\* are staged, indexed or remote and every task is at a step of the code.
TypeOK == DataOK /\ FlagsOK

Init ==
    /\ local = {} /\ tmp = {} /\ remote = {}
    /\ staged_index = {} /\ index = {} /\ staged_bytes = 0
    /\ stg = [k \in Keys |-> "new"]
    /\ mig = [p \in Procs |-> [k \in Keys |-> "off"]]
    /\ lock = [k \in Keys |-> None]
    /\ pressure = FALSE
    /\ todo = {} /\ promised = {} /\ flushing = FALSE
    /\ rd = [k \in Keys |-> "off"]
    /\ up = "up" /\ accepting = TRUE /\ cancelled = FALSE
    /\ acked = {} /\ durable = {}
-----------------------------------------------------------------------------
(***************************************************************************)
(* stage                                                                   *)
(***************************************************************************)
\* reserve_stage_bytes: current + block_length <= max_stage_size.
Fits == staged_bytes + 1 <= MaxStage

\* `stage` for a block not in the index reserves its space (one CAS).
StageReserve(k) ==
    /\ up = "up" /\ stg[k] = "new" /\ k \notin staged_index
    /\ Fits
    /\ staged_bytes' = staged_bytes + 1
    /\ stg' = [stg EXCEPT ![k] = "reserved"]
    /\ UNCHANGED <<disk, staged_index, index, migVars, flushVars, rd,
                   mountVars, history>>

\* No room: one pressure migration of some staged block is scheduled, unless
\* one is active, nothing is staged or the registry is draining; the caller
\* gets ErrStageNoMoreSpace and may try again later.
StageNoSpace(k) ==
    /\ up = "up" /\ stg[k] = "new" /\ k \notin staged_index
    /\ ~Fits
    /\ IF pressure \/ staged_index = {} \/ ~accepting
       THEN UNCHANGED <<mig, pressure>>
       ELSE /\ pressure' = TRUE
            /\ \E e \in staged_index :
                  mig' = [mig EXCEPT !["pressure"][e] = "lock"]
    /\ UNCHANGED <<disk, stageVars, lock, flushVars, rd, mountVars, history>>

\* write_atomic creates the sibling temporary file.
StageCreateTmp(k) ==
    /\ up = "up" /\ stg[k] = "reserved"
    /\ tmp' = tmp \cup {k}
    /\ stg' = [stg EXCEPT ![k] = "writing"]
    /\ UNCHANGED <<local, remote, staged_index, index, staged_bytes, migVars,
                   flushVars, rd, mountVars, history>>

\* Mutated form of StageWriteFails: the reservation is not given back.
StageWriteFailsLeaking(k) ==
    /\ up = "up" /\ stg[k] \in {"reserved", "writing"}
    /\ tmp' = tmp \ {k}
    /\ stg' = [stg EXCEPT ![k] = "new"]
    /\ UNCHANGED <<local, remote, staged_index, index, staged_bytes, migVars,
                   flushVars, rd, mountVars, history>>

\* Gathering, creating, writing, syncing or renaming fails: the temporary file
\* is removed, the reservation released, the error returned.
StageWriteFails(k) ==
    /\ up = "up" /\ stg[k] \in {"reserved", "writing"}
    /\ tmp' = tmp \ {k}
    /\ staged_bytes' = staged_bytes - 1
    /\ stg' = [stg EXCEPT ![k] = "new"]
    /\ UNCHANGED <<local, remote, staged_index, index, migVars, flushVars, rd,
                   mountVars, history>>

\* Rename into place; try_get_with then enters the block in the TTL index.
StageRename(k) ==
    /\ up = "up" /\ stg[k] = "writing"
    /\ tmp' = tmp \ {k}
    /\ local' = local \cup {k}
    /\ index' = index \cup {k}
    /\ stg' = [stg EXCEPT ![k] = "renamed"]
    /\ UNCHANGED <<remote, staged_index, staged_bytes, migVars, flushVars, rd,
                   mountVars, history>>

\* The entry is published in staged_index and `stage` answers Ok.
StageInsert(k) ==
    /\ up = "up" /\ stg[k] = "renamed"
    /\ staged_index' = staged_index \cup {k}
    /\ stg' = [stg EXCEPT ![k] = "staged"]
    /\ acked' = acked \cup {k}
    /\ UNCHANGED <<disk, index, staged_bytes, migVars, flushVars, rd,
                   mountVars, durable>>
-----------------------------------------------------------------------------
(***************************************************************************)
(* Eviction from the TTL index, and the outcomes of one migration          *)
(***************************************************************************)
\* The eviction listener: spawn migrate_with_retry, or only warn while the
\* mount is draining.
OnEvict(k, m) == IF accepting THEN [m EXCEPT !["evict"][k] = "lock"] ELSE m

\* moka evicts a block for size or age, at any moment it likes.
Evict(k) ==
    /\ up = "up" /\ k \in index
    /\ index' = index \ {k}
    /\ mig' = OnEvict(k, mig)
    /\ UNCHANGED <<disk, staged_index, staged_bytes, stg, lock, pressure,
                   flushVars, rd, mountVars, history>>

Off(p, k) == [mig EXCEPT ![p][k] = "off"]

\* Mutated form of PressureAfter: the flag guard is never dropped.
PressureNeverCleared(p) == pressure

\* The guard of the pressure task clears the flag when the task ends.
PressureAfter(p) == IF p = "pressure" THEN FALSE ELSE pressure

\* migrate_once answered Ok: a task ends; flush_key goes on to drop the block
\* from the TTL index, which runs the eviction listener, and to the next key.
MigrateOk(p, k) ==
    /\ pressure' = PressureAfter(p)
    /\ IF p = "flush"
       THEN /\ todo' = todo \ {k}
            /\ index' = index \ {k}
            /\ mig' = IF k \in index THEN OnEvict(k, Off(p, k)) ELSE Off(p, k)
       ELSE /\ mig' = Off(p, k)
            /\ UNCHANGED <<todo, index>>
    /\ UNCHANGED <<promised, flushing>>

\* Mutated form of MigrateErr: flush_key drops the error and goes on.
MigrateErrIgnored(p, k) ==
    /\ mig' = [mig EXCEPT ![p][k] = IF p = "flush" THEN "off" ELSE "lock"]
    /\ todo' = IF p = "flush" THEN todo \ {k} ELSE todo
    /\ UNCHANGED <<flushing, promised, pressure, index>>

\* Mutated form of MigrateErr: a task does not try again.
MigrateErrOnce(p, k) ==
    /\ mig' = Off(p, k)
    /\ pressure' = PressureAfter(p)
    /\ IF p = "flush" THEN flushing' = FALSE /\ todo' = {} /\ promised' = {}
                      ELSE UNCHANGED flushVars
    /\ UNCHANGED index

\* migrate_once failed: a task sleeps and retries, a flush gives up and
\* returns the error to its caller.
MigrateErr(p, k) ==
    /\ IF p = "flush"
       THEN /\ mig' = Off(p, k)
            /\ flushing' = FALSE /\ todo' = {} /\ promised' = {}
       ELSE /\ mig' = [mig EXCEPT ![p][k] = "lock"]
            /\ UNCHANGED flushVars
    /\ UNCHANGED <<pressure, index>>

\* same_generation(current entry, migrated entry): see the module comment.
IsCurrent(k) == k \in staged_index

\* Take the entry's migration_lock and look whether the entry is current.
MigrateLock(p, k) ==
    /\ up = "up" /\ mig[p][k] = "lock" /\ lock[k] = None
    /\ IF IsCurrent(k)
       THEN /\ lock' = [lock EXCEPT ![k] = p]
            /\ mig' = [mig EXCEPT ![p][k] = "copy"]
            /\ UNCHANGED <<index, pressure, flushVars>>
       ELSE /\ MigrateOk(p, k)
            /\ UNCHANGED lock
    /\ UNCHANGED <<disk, staged_index, staged_bytes, stg, rd, mountVars,
                   history>>

\* The copy was written, flushed and its size read back from the store.
UploadOk(p, k) ==
    /\ up = "up" /\ mig[p][k] = "copy" /\ k \in local
    /\ remote' = remote \cup {k}
    /\ mig' = [mig EXCEPT ![p][k] = "delete"]
    /\ UNCHANGED <<local, tmp, stageVars, lock, pressure, flushVars, rd,
                   mountVars, history>>

\* Mutated form of UploadFails: the result of the copy is not looked at.
UploadFailsUnnoticed(p, k) ==
    /\ up = "up" /\ mig[p][k] = "copy"
    /\ mig' = [mig EXCEPT ![p][k] = "delete"]
    /\ UNCHANGED <<disk, stageVars, lock, pressure, flushVars, rd, mountVars,
                   history>>

\* The copy fails: the local file is missing, the store refuses the write or
\* the confirming read (the object may then be there all the same).
UploadFails(p, k) ==
    /\ up = "up" /\ mig[p][k] = "copy"
    /\ remote' \in IF k \in local THEN {remote, remote \cup {k}} ELSE {remote}
    /\ lock' = [lock EXCEPT ![k] = None]
    /\ MigrateErr(p, k)
    /\ UNCHANGED <<local, tmp, staged_index, staged_bytes, stg, rd, mountVars,
                   history>>

\* The staged file is deleted only now.
DeleteOk(p, k) ==
    /\ up = "up" /\ mig[p][k] = "delete"
    /\ local' = local \ {k}
    /\ mig' = [mig EXCEPT ![p][k] = "unindex"]
    /\ UNCHANGED <<tmp, remote, stageVars, lock, pressure, flushVars, rd,
                   mountVars, history>>

DeleteFails(p, k) ==
    /\ up = "up" /\ mig[p][k] = "delete"
    /\ lock' = [lock EXCEPT ![k] = None]
    /\ MigrateErr(p, k)
    /\ UNCHANGED <<disk, staged_index, staged_bytes, stg, rd, mountVars,
                   history>>

\* Space given back with an entry that is still current (a reader may have
\* removed it first).  The fetch_sub follows the removal with no await.
Freed(k) == IF k \in staged_index THEN 1 ELSE 0

\* The entry leaves staged_index and the migration has succeeded.
Unindex(p, k) ==
    /\ up = "up" /\ mig[p][k] = "unindex"
    /\ staged_index' = staged_index \ {k}
    /\ staged_bytes' = staged_bytes - Freed(k)
    /\ lock' = [lock EXCEPT ![k] = None]
    /\ MigrateOk(p, k)
    /\ UNCHANGED <<disk, stg, rd, mountVars, history>>
-----------------------------------------------------------------------------
(***************************************************************************)
(* Explicit flushes: flush_slice (fsync) and flush_all (shutdown)          *)
(***************************************************************************)
\* What a flush may be asked to cover: the blocks of one slice, or all.
Targets == {{k \in Keys : SliceOf[k] = s} : s \in Slices} \cup {Keys}

\* The keys are collected from staged_index once, when the call starts.
\* promised remembers which acknowledged blocks the caller is asking about.
FlushStart(T) ==
    /\ up = "up" /\ ~flushing
    /\ flushing' = TRUE
    /\ todo' = T \cap staged_index
    /\ promised' = T \cap acked
    /\ UNCHANGED <<disk, stageVars, migVars, rd, mountVars, history>>

\* flush_key: migrate the block if it is still staged, else only drop it from
\* the TTL index.  Keys are done one after the other; any order is allowed.
FlushKey(k) ==
    /\ up = "up" /\ k \in todo
    /\ \A j \in Keys : mig["flush"][j] = "off"
    /\ IF k \in staged_index
       THEN /\ mig' = [mig EXCEPT !["flush"][k] = "lock"]
            /\ UNCHANGED <<index, pressure, flushVars>>
       ELSE MigrateOk("flush", k)
    /\ UNCHANGED <<disk, staged_index, staged_bytes, stg, lock, rd, mountVars,
                   history>>

\* Every key is done: Ok.
FlushDone ==
    /\ up = "up" /\ flushing /\ todo = {}
    /\ durable' = durable \cup promised
    /\ flushing' = FALSE /\ promised' = {}
    /\ UNCHANGED <<disk, stageVars, migVars, todo, rd, mountVars, acked>>
-----------------------------------------------------------------------------
(***************************************************************************)
(* Reads (get, get_range).  A block is read only after `stage` answered Ok *)
(* for it: slice metadata is published later than that.                    *)
(***************************************************************************)
\* Mutated form of RemoteConfirmed: a missing file is never looked up remotely.
NeverConfirmed(k) == FALSE

\* remote_block_is_confirmed: the object exists with the block's size.
RemoteConfirmed(k) == k \in remote

\* contains_key: a hit goes on to the local file, a miss to the object store.
ReadStart(k) ==
    /\ up = "up" /\ k \in acked /\ rd[k] = "off"
    /\ rd' = [rd EXCEPT ![k] = IF k \in staged_index THEN "hit"
                               ELSE IF k \in remote THEN "off" ELSE "lost"]
    /\ UNCHANGED <<disk, stageVars, migVars, flushVars, mountVars, history>>

\* The local file is read, or turns out to be gone.
ReadLocal(k) ==
    /\ up = "up" /\ rd[k] = "hit"
    /\ rd' = [rd EXCEPT ![k] = IF k \in local THEN "off" ELSE "missing"]
    /\ UNCHANGED <<disk, stageVars, migVars, flushVars, mountVars, history>>

\* NotFound: a confirmed remote copy heals the index and serves the read,
\* otherwise the block is lost.
ReadConfirm(k) ==
    /\ up = "up" /\ rd[k] = "missing"
    /\ IF RemoteConfirmed(k)
       THEN /\ staged_index' = staged_index \ {k}
            /\ staged_bytes' = staged_bytes - Freed(k)
            /\ rd' = [rd EXCEPT ![k] = "off"]
       ELSE /\ rd' = [rd EXCEPT ![k] = "lost"]
            /\ UNCHANGED <<staged_index, staged_bytes>>
    /\ UNCHANGED <<disk, index, stg, migVars, flushVars, mountVars, history>>

\* The object store does not answer the confirming request: a transient error.
ReadUnavailable(k) ==
    /\ up = "up" /\ rd[k] = "missing"
    /\ rd' = [rd EXCEPT ![k] = "off"]
    /\ UNCHANGED <<disk, stageVars, migVars, flushVars, mountVars, history>>
-----------------------------------------------------------------------------
(***************************************************************************)
(* Shutdown, death and restart of the mount process                        *)
(***************************************************************************)
\* The registry stops accepting tasks, later fires its cancellation token.
BeginDraining ==
    /\ up = "up" /\ accepting
    /\ accepting' = FALSE
    /\ UNCHANGED <<disk, stageVars, migVars, flushVars, rd, up, cancelled,
                   history>>

Cancel ==
    /\ up = "up" /\ ~accepting /\ ~cancelled
    /\ cancelled' = TRUE
    /\ UNCHANGED <<disk, stageVars, migVars, flushVars, rd, up, accepting,
                   history>>

\* A cancelled task stops at whatever await point it is suspended at, which
\* drops its lock guard and, for the pressure task, its flag guard.
CancelTask(p, k) ==
    /\ up = "up" /\ cancelled /\ mig[p][k] # "off"
    /\ mig' = Off(p, k)
    /\ lock' = IF lock[k] = p THEN [lock EXCEPT ![k] = None] ELSE lock
    /\ pressure' = PressureAfter(p)
    /\ UNCHANGED <<disk, stageVars, flushVars, rd, mountVars, history>>

\* The process dies (SIGKILL, or the end of a shutdown).  Files survive it;
\* blocks that were not acknowledged are gone for good, since their slice id
\* died with the writer.
Crash ==
    /\ up = "up"
    /\ up' = "down"
    /\ staged_index' = {} /\ index' = {} /\ staged_bytes' = 0
    /\ stg' = [k \in Keys |-> IF stg[k] = "staged" THEN "staged" ELSE "dead"]
    /\ mig' = [p \in Procs |-> [k \in Keys |-> "off"]]
    /\ lock' = [k \in Keys |-> None]
    /\ pressure' = FALSE
    /\ todo' = {} /\ promised' = {} /\ flushing' = FALSE
    /\ rd' = [k \in Keys |-> "off"]
    /\ UNCHANGED <<disk, accepting, cancelled, history>>

\* FileCache::new spawns one migration per recovered block.
RecoveryTasks ==
    [mig EXCEPT !["recover"] = [k \in Keys |-> IF k \in local THEN "lock" ELSE "off"]]

\* recover_stage_index reads the directory; every canonical file is indexed
\* again and its space accounted for.
Recover ==
    /\ up = "down" /\ tmp = {}
    /\ up' = "up" /\ accepting' = TRUE /\ cancelled' = FALSE
    /\ staged_index' = local
    /\ staged_bytes' = Cardinality(local)
    /\ mig' = RecoveryTasks
    /\ UNCHANGED <<disk, index, stg, lock, pressure, flushVars, rd, history>>

\* `<key>.uring.tmp` is neither a `.<key>.tmp-<n>-<n>` file, which would be
\* removed, nor a slice key: recovery fails, and so does the mount.
RecoverRefused ==
    /\ up \in {"down", "refused"} /\ tmp # {}
    /\ up' = "refused"
    /\ UNCHANGED <<disk, stageVars, migVars, flushVars, rd, accepting,
                   cancelled, history>>
-----------------------------------------------------------------------------
Stage(k) ==
    \/ StageReserve(k) \/ StageNoSpace(k) \/ StageCreateTmp(k)
    \/ StageWriteFails(k) \/ StageRename(k) \/ StageInsert(k)

MigrateStep(p, k) ==
    \/ MigrateLock(p, k) \/ UploadOk(p, k) \/ UploadFails(p, k)
    \/ DeleteOk(p, k) \/ DeleteFails(p, k) \/ Unindex(p, k)

Read(k) ==
    ReadStart(k) \/ ReadLocal(k) \/ ReadConfirm(k) \/ ReadUnavailable(k)

Next ==
    \/ \E k \in Keys : Stage(k) \/ Evict(k) \/ FlushKey(k) \/ Read(k)
    \/ \E p \in Procs, k \in Keys : MigrateStep(p, k)
    \/ \E p \in Tasks, k \in Keys : CancelTask(p, k)
    \/ \E T \in Targets : FlushStart(T)
    \/ FlushDone \/ BeginDraining \/ Cancel
    \/ Crash \/ Recover \/ RecoverRefused

Spec == Init /\ [][Next]_vars

(***************************************************************************)
(* Fairness: a call, a task or a flush that can step does, and a cancelled *)
(* task is dropped (the runtime polls them); an outage of the object store *)
(* or of the disk is not permanent, so copying or deleting a block that is *)
(* tried again and again succeeds in the end.                              *)
(***************************************************************************)
Fairness ==
    /\ WF_vars(\E p \in Tasks, k \in Keys : CancelTask(p, k))
    /\ WF_vars(FlushDone \/ \E k \in Keys : FlushKey(k))
    /\ WF_vars(\E k \in Keys : stg[k] # "new" /\ Stage(k))
    /\ \A k \in Keys :
          /\ \A p \in Procs : WF_vars(MigrateStep(p, k))
          /\ SF_vars(\E p \in Procs : UploadOk(p, k))
          /\ SF_vars(\E p \in Procs : DeleteOk(p, k))

FairSpec == Spec /\ Fairness
-----------------------------------------------------------------------------
(***************************************************************************)
(* Properties                                                              *)
(***************************************************************************)
\* A block whose `stage` call answered Ok is in the local stage directory or
\* in the object store, whatever migrations, cancellations, read repairs and
\* process deaths happen afterwards (migrate_from_local_to_remote, crash).
NoAckedBlockLost == acked \subseteq local \cup remote

\* flush_slice and flush_all answer Ok only when every block acknowledged
\* before the call is in the object store, also for the keys they did not
\* find in staged_index ("A missing staged entry is already
\* remote-confirmed", file_cache.rs:345).
FlushedIsRemote == durable \subseteq remote

\* get/get_range never tell a reader that a published block is lost: between
\* the index lookup, the file read and the remote lookup, a migration may
\* delete the file and the entry.
ReaderNeverLoses == \A k \in Keys : rd[k] # "lost"

\* staged_bytes is the space of the staged entries and of the reservations
\* in flight, through failed writes, read repairs and racing migrations.
SpaceAccounted ==
    up = "up" => staged_bytes = Cardinality(staged_index) + Cardinality(InFlight)

\* The stage directory never holds more than max_stage_size, and neither does
\* a directory recovered by a restart.
StageBounded ==
    /\ staged_bytes <= MaxStage
    /\ Cardinality(local) <= MaxStage

\* While no task has been cancelled, a staged entry has its file unless the
\* migration holding its lock has just deleted it: an explicit flush never
\* fails with a missing local file for a block that is safe.
StagedHasFile ==
    up = "up" /\ ~cancelled =>
        \A k \in staged_index :
            k \in local \/ \E p \in Procs : mig[p][k] = "unindex"

\* No step removes a staged file of an acknowledged block before the object
\* store holds that block ("removes local only after remote confirmation").
DeleteOnlyConfirmed ==
    [][\A k \in acked : k \in local /\ k \notin local' => k \in remote]_vars

\* A block recovered at a restart reaches the object store, unless the mount
\* is stopped again first (migrate_with_retry).
RecoveredBlocksMigrate ==
    \A k \in Keys :
        mig["recover"][k] # "off" ~> k \in remote \/ cancelled \/ up # "up"

\* The pressure flag is never left set: space pressure can always schedule
\* another migration later.
PressureFlagReleased == pressure ~> ~pressure

\* What the module comment of file_cache.rs (lines 30-35) and the one on
\* `index` ("Eviction schedules migration") say: an evicted block goes to the
\* object store.
EvictedBlocksMigrate ==
    \A k \in Keys :
        mig["evict"][k] # "off" ~> k \in remote \/ ~accepting \/ up # "up"

\* A mount that was killed can be started again on the same stage directory.
RestartNotRefused == up # "refused"

\* The cache implements the promise of BlockDurability.
Place == [k \in Keys |-> IF k \in remote THEN "remote"
                         ELSE IF k \in local THEN "local" ELSE "absent"]
Abs == INSTANCE BlockDurability WITH place <- Place
ImplementsBlockDurability == Abs!Spec
=============================================================================
