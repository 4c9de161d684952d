--------------------------- MODULE MountLifecycle ---------------------------
(***************************************************************************)
(* A mounted process from its start to its exit: the main thread of mount, *)
(* the lifecycle state and the gate in front of every FUSE request, the    *)
(* FUSE session of either backend, and the shutdown with its deadline. The *)
(* background tasks are a set here; TaskRegistry has their registry. The   *)
(* atomics are sequentially consistent.                                    *)
(***************************************************************************)
EXTENDS Naturals, FiniteSets

CONSTANTS
    Ops,        \* FUSE requests
    MountTasks, \* background tasks that run once the file system is created
    Backends,   \* of {"fbr" (worker threads), "fuser" (one session thread)}
    Policies    \* ShutdownPolicy, of {"local", "remote"}

ASSUME LifecycleConstants ==
    /\ IsFiniteSet(Ops) /\ IsFiniteSet(MountTasks)
    /\ Backends \subseteq {"fbr", "fuser"} /\ Policies \subseteq {"local", "remote"}

VARIABLES
    backend, policy,    \* the options of the mount command
    state,              \* MountLifecycle.state
    init,               \* where KisekiVFS::init is
    active_operations, op,  \* where each request is
    taken,              \* requests whose data was taken into the write buffers
    staged, uploaded,   \* those whose data is staged, is in the object store
    sd, waiter,         \* where run_shutdown is; its Notified future
    late, dirt,         \* its deadline passed; timed_out, an error, or not is_clean
    running, anyPanicked,   \* tasks still running; some task panicked
    session,            \* "none", "up", "closing", "destroying", "down"
    main, signal,       \* where mount() is; the latch of the signal handler
    cause,              \* why mount() stops: "none", "signal", "failure"
    ready,              \* the readiness file is published
    overdue,            \* termination_deadline has passed
    err,                \* another terminal error
    exit                \* exit status of the process

options == <<backend, policy>>
life == <<state, init>>
gate == <<active_operations, op, taken>>
data == <<staged, uploaded>>
draining == <<sd, waiter, late, dirt>>
tasks == <<running, anyPanicked>>
proc == <<main, signal, cause, ready, overdue, err, exit>>
lifecycleVars == <<options, life, gate, data, draining, tasks, session, proc>>

LifecycleInit ==
    /\ backend \in Backends /\ policy \in Policies
    /\ state = "Starting" /\ init = "idle"
    /\ active_operations = 0 /\ op = [o \in Ops |-> "idle"] /\ taken = {}
    /\ staged = {} /\ uploaded = {}
    /\ sd = "none" /\ waiter = "none" /\ late = FALSE /\ dirt = FALSE
    /\ running = {} /\ anyPanicked = FALSE
    /\ session = "none" /\ main = "start" /\ signal = FALSE /\ cause = "none"
    /\ ready = FALSE /\ overdue = FALSE /\ err = FALSE /\ exit = "none"
-----------------------------------------------------------------------------
(* begin_operation, the request and the drop of its guard.                  *)

OpsInFlight == {o \in Ops : op[o] \notin {"idle", "over"}}

\* A fuser session answers one request at a time, and none before init.
OpCheck(o) ==
    /\ op[o] = "idle" /\ session = "up"
    /\ backend = "fuser" => init = "ok" /\ OpsInFlight = {}
    /\ op' = [op EXCEPT ![o] = IF state = "Ready" THEN "checked" ELSE "over"]
    /\ UNCHANGED <<life, active_operations, taken, data, draining, tasks,
                   session, proc>>

OpCount(o) ==
    /\ op[o] = "checked"
    /\ active_operations' = active_operations + 1
    /\ op' = [op EXCEPT ![o] = "counted"]
    /\ UNCHANGED <<life, taken, data, draining, tasks, session, proc>>

\* Mutant: the state is not read again once the request is counted.
OpAdmitCounted(o) ==
    /\ op[o] = "counted"
    /\ op' = [op EXCEPT ![o] = "running"]
    /\ UNCHANGED <<life, active_operations, taken, data, draining, tasks,
                   session, proc>>

OpRecheck(o) ==
    /\ op[o] = "counted"
    /\ op' = [op EXCEPT ![o] = IF state = "Ready" THEN "running" ELSE "leaving"]
    /\ UNCHANGED <<life, active_operations, taken, data, draining, tasks,
                   session, proc>>

OpServe(o) ==
    /\ op[o] = "running"
    /\ op' = [op EXCEPT ![o] = "leaving"]
    /\ taken' \in {taken, taken \cup {o}}
    /\ UNCHANGED <<life, active_operations, data, draining, tasks, session,
                   proc>>

\* Mutant: the last one is told by the new value of the counter.
OpFinishOffByOne(o) ==
    /\ op[o] = "leaving"
    /\ active_operations' = active_operations - 1
    /\ op' = [op EXCEPT ![o] = IF active_operations = 0 THEN "notify" ELSE "over"]
    /\ UNCHANGED <<life, taken, data, draining, tasks, session, proc>>

\* finish_operation: the last one out notifies.
OpFinish(o) ==
    /\ op[o] = "leaving"
    /\ active_operations' = active_operations - 1
    /\ op' = [op EXCEPT ![o] = IF active_operations = 1 THEN "notify" ELSE "over"]
    /\ UNCHANGED <<life, taken, data, draining, tasks, session, proc>>

\* notify_waiters wakes a future that exists already, awaited or not.
OpNotify(o) ==
    /\ op[o] = "notify"
    /\ op' = [op EXCEPT ![o] = "over"]
    /\ waiter' = IF waiter = "armed" THEN "woken" ELSE waiter
    /\ UNCHANGED <<life, active_operations, taken, data, sd, late, dirt, tasks,
                   session, proc>>

Operation(o) == \/ OpCheck(o) \/ OpCount(o) \/ OpRecheck(o) \/ OpServe(o) \/ OpFinish(o)
                \/ OpNotify(o)
-----------------------------------------------------------------------------
(* KisekiVFS::init, on the main thread (fbr) or on the session's (fuser).   *)

\* mark_ready is a compare-and-exchange.
InitOk ==
    /\ init = "run"
    /\ state' = IF state = "Recovering" THEN "Ready" ELSE state
    /\ init' = "ok"
    /\ UNCHANGED <<gate, data, draining, tasks, session, proc>>

\* mark_failed loads the state and stores Failed in a second step.
InitFails ==
    /\ init = "run"
    /\ init' = IF state \in {"Draining", "Stopped"} THEN "err" ELSE "failing"
    /\ UNCHANGED <<state, gate, data, draining, tasks, session, proc>>

InitStoresFailed ==
    /\ init = "failing"
    /\ state' = "Failed" /\ init' = "err"
    /\ UNCHANGED <<gate, data, draining, tasks, session, proc>>

InitStep == InitOk \/ InitFails \/ InitStoresFailed
-----------------------------------------------------------------------------
(* shutdown: OnceCell runs it once, whoever asks first.                     *)

Entered == IF sd = "none" THEN "begin" ELSE sd

BeginMountDraining ==
    /\ sd = "begin"
    /\ state' = IF state \in {"Draining", "Stopped"} THEN state ELSE "Draining"
    /\ sd' = "arm"
    /\ UNCHANGED <<init, gate, data, waiter, late, dirt, tasks, session, proc>>

\* wait_for_operations creates the future before it reads the counter.
WaitArm ==
    /\ sd = "arm"
    /\ waiter' = "armed" /\ sd' = "check"
    /\ UNCHANGED <<life, gate, data, late, dirt, tasks, session, proc>>

WaitCheck ==
    /\ sd = "check"
    /\ sd' = IF active_operations = 0 THEN "flush" ELSE "park"
    /\ UNCHANGED <<life, gate, data, waiter, late, dirt, tasks, session, proc>>

WaitWake ==
    /\ sd = "park" /\ waiter = "woken"
    /\ sd' = "arm"
    /\ UNCHANGED <<life, gate, data, waiter, late, dirt, tasks, session, proc>>

\* After a timeout nothing is flushed.
WaitTimeout ==
    /\ sd = "park" /\ late
    /\ sd' = "cancel" /\ dirt' = TRUE
    /\ UNCHANGED <<life, gate, data, waiter, late, tasks, session, proc>>

\* flush_all_writers_local: each writer succeeds or adds an error, and the
\* deadline may cut the loop short.
FlushWriters ==
    /\ sd = "flush"
    /\ \E done \in SUBSET taken, timeout \in {FALSE, late} :
        /\ staged' = staged \cup done
        /\ dirt' = (dirt \/ timeout \/ done # taken)
        /\ sd' = IF policy = "remote" /\ ~timeout THEN "remote" ELSE "cancel"
    /\ UNCHANGED <<life, gate, uploaded, waiter, late, tasks, session, proc>>

\* flush_all of the stage, under the remote policy.
FlushStage ==
    /\ sd = "remote"
    /\ \E done \in SUBSET staged, timeout \in {FALSE, late} :
        /\ uploaded' = uploaded \cup done
        /\ dirt' = (dirt \/ timeout \/ done # staged)
    /\ sd' = "cancel"
    /\ UNCHANGED <<life, gate, staged, waiter, late, tasks, session, proc>>

\* Mutant: the wait for the tasks is not bounded by the deadline.
WaitTasksForever ==
    /\ sd = "cancel" /\ running = {}
    /\ sd' = "snapshot"
    /\ UNCHANGED <<life, gate, data, waiter, late, dirt, tasks, session, proc>>

\* Cancel and wait; past the deadline abort, and leave after the grace.
WaitTasks ==
    /\ sd = "cancel"
    /\ running = {} \/ late
    /\ dirt' = (dirt \/ running # {})
    /\ sd' = "snapshot"
    /\ UNCHANGED <<life, gate, data, waiter, late, tasks, session, proc>>

\* The report. busy: try_pending_count found the index locked.
Snapshot ==
    /\ sd = "snapshot"
    /\ state' = IF running = {} THEN "Stopped" ELSE "Failed"
    /\ \E busy \in BOOLEAN : dirt' = (dirt \/ busy \/ anyPanicked \/ running # {})
    /\ sd' = "over"
    /\ UNCHANGED <<init, gate, data, waiter, late, tasks, session, proc>>

Shutdown == \/ BeginMountDraining \/ WaitArm \/ WaitCheck \/ WaitWake \/ WaitTimeout
            \/ FlushWriters \/ FlushStage \/ WaitTasks \/ Snapshot

\* A background task returns, is aborted, or panics.
TaskEnds(t) ==
    /\ t \in running
    /\ running' = running \ {t}
    /\ anyPanicked' \in {anyPanicked, TRUE}
    /\ UNCHANGED <<life, gate, data, draining, session, proc>>
-----------------------------------------------------------------------------
(* The FUSE session. It may be unmounted from outside at any time.          *)

ExternalUnmount ==
    /\ session = "up"
    /\ session' = "closing"
    /\ UNCHANGED <<life, gate, data, draining, tasks, proc>>

\* fbr: the last worker thread has answered its request and ended.
WorkersEnd ==
    /\ backend = "fbr" /\ session = "closing" /\ OpsInFlight = {}
    /\ session' = "down"
    /\ UNCHANGED <<life, gate, data, draining, tasks, proc>>

\* fuser: the session thread runs destroy before it ends.
Destroy ==
    /\ backend = "fuser" /\ session = "closing"
    /\ OpsInFlight = {} /\ init \notin {"run", "failing"}
    /\ session' = "destroying" /\ sd' = Entered
    /\ UNCHANGED <<life, gate, data, waiter, late, dirt, tasks, proc>>

DestroyReturns ==
    /\ session = "destroying" /\ sd = "over"
    /\ session' = "down"
    /\ UNCHANGED <<life, gate, data, draining, tasks, proc>>

SessionStep == WorkersEnd \/ Destroy \/ DestroyReturns
-----------------------------------------------------------------------------
(* mount(), the signal and the two deadlines.                               *)

Signal ==
    /\ ~signal
    /\ signal' = TRUE
    /\ UNCHANGED <<life, gate, data, draining, tasks, session, main, cause,
                   ready, overdue, err, exit>>

DeadlinePasses ==
    /\ sd \notin {"none", "over"} /\ ~late
    /\ late' = TRUE
    /\ UNCHANGED <<life, gate, data, sd, waiter, dirt, tasks, session, proc>>

TerminationOverdue ==
    /\ main \in {"draining", "stop", "join"} /\ ~overdue
    /\ overdue' = TRUE
    /\ UNCHANGED <<life, gate, data, draining, tasks, session, main, signal,
                   cause, ready, err, exit>>

\* new_checked races with the signal.
Create ==
    /\ main = "start"
    /\ \/ /\ main' = "created" /\ state' = "Recovering" /\ running' = MountTasks
          /\ UNCHANGED exit
       \/ /\ exit' = "error"
          /\ UNCHANGED <<main, state, running>>
       \/ /\ signal /\ exit' = "ok"
          /\ UNCHANGED <<main, state, running>>
    /\ UNCHANGED <<init, gate, data, draining, anyPanicked, session, signal,
                   cause, ready, overdue, err>>

\* The signal is looked at once more before anything is mounted.
Created ==
    /\ main = "created"
    /\ IF signal THEN main' = "cancelling" /\ sd' = Entered /\ UNCHANGED init
                 ELSE /\ main' = IF backend = "fbr" THEN "init" ELSE "mount"
                      /\ init' = IF backend = "fbr" THEN "run" ELSE init
                      /\ UNCHANGED sd
    /\ UNCHANGED <<state, gate, data, waiter, late, dirt, tasks, session,
                   signal, cause, ready, overdue, err, exit>>

\* fbr: a failed init ends the process at once.
InitReturns ==
    /\ main = "init"
    /\ \/ init = "ok" /\ main' = "mount" /\ UNCHANGED exit
       \/ init = "err" /\ exit' = "error" /\ UNCHANGED main
    /\ UNCHANGED <<life, gate, data, draining, tasks, session, signal, cause,
                   ready, overdue, err>>

Mount ==
    /\ main = "mount"
    /\ session' = "up" /\ main' = "startup"
    /\ init' = IF backend = "fuser" THEN "run" ELSE init
    /\ UNCHANGED <<state, gate, data, draining, tasks, signal, cause, ready,
                   overdue, err, exit>>

\* Only the fuser path drains when it cannot mount.
MountFails ==
    /\ main = "mount"
    /\ IF backend = "fuser" THEN main' = "cancelling" /\ sd' = Entered /\ UNCHANGED exit
                            ELSE exit' = "error" /\ UNCHANGED <<main, sd>>
    /\ err' = TRUE
    /\ UNCHANGED <<life, gate, data, waiter, late, dirt, tasks, session,
                   signal, cause, ready, overdue>>

Cancelled ==
    /\ main = "cancelling" /\ sd = "over"
    /\ exit' = IF dirt \/ err THEN "error" ELSE "ok"
    /\ UNCHANGED <<life, gate, data, draining, tasks, session, main, signal,
                   cause, ready, overdue, err>>

\* The startup loop. The stat of the mount point may fail, so a Ready state
\* does not rule out the other ways to leave it, the timeout among them.
Startup ==
    /\ main = "startup"
    /\ \/ state = "Ready" /\ main' = "publish" /\ UNCHANGED cause
       \/ cause' = "failure" /\ main' = "drain"
       \/ signal /\ cause' = "signal" /\ main' = "drain"
    /\ UNCHANGED <<life, gate, data, draining, tasks, session, signal, ready,
                   overdue, err, exit>>

\* Publish the readiness file, if one is asked for and it can be created.
Publish ==
    /\ main = "publish"
    /\ \/ ready' \in BOOLEAN /\ main' = "serve" /\ UNCHANGED cause
       \/ cause' = "failure" /\ main' = "drain" /\ UNCHANGED ready
    /\ UNCHANGED <<life, gate, data, draining, tasks, session, signal, overdue,
                   err, exit>>

Serve ==
    /\ main = "serve"
    /\ \/ session = "down" /\ UNCHANGED cause
       \/ signal /\ cause' = "signal"
    /\ main' = "drain"
    /\ UNCHANGED <<life, gate, data, draining, tasks, session, signal, ready,
                   overdue, err, exit>>

\* Mutant: readiness is retracted only when the drain is over.
DrainKeepsReady ==
    /\ main = "drain"
    /\ sd' = IF backend = "fbr" \/ cause # "none" THEN Entered ELSE sd
    /\ main' = IF backend = "fbr" \/ cause # "none" THEN "draining" ELSE "join"
    /\ UNCHANGED <<life, gate, data, waiter, late, dirt, tasks, session,
                   signal, cause, ready, overdue, err, exit>>

\* The readiness file is dropped, then shutdown is called.
Drain ==
    /\ main = "drain"
    /\ ready' = FALSE
    /\ sd' = IF backend = "fbr" \/ cause # "none" THEN Entered ELSE sd
    /\ main' = IF backend = "fbr" \/ cause # "none" THEN "draining" ELSE "join"
    /\ UNCHANGED <<life, gate, data, waiter, late, dirt, tasks, session,
                   signal, cause, overdue, err, exit>>

Drained ==
    /\ main = "draining" /\ sd = "over"
    /\ main' = IF cause = "none" THEN "join" ELSE "stop"
    /\ UNCHANGED <<life, gate, data, draining, tasks, session, signal, cause,
                   ready, overdue, err, exit>>

\* The unmount may fail; fbr has woken its workers before it.
Stop ==
    /\ main = "stop"
    /\ \E failed \in BOOLEAN :
        /\ err' = failed
        /\ session' = IF session = "up" /\ (backend = "fbr" \/ ~failed) THEN "closing"
                                                                       ELSE session
    /\ main' = "join"
    /\ UNCHANGED <<life, gate, data, draining, tasks, signal, cause, ready,
                   overdue, exit>>

\* fbr: the terminal errors.
ExitFbr ==
    /\ backend = "fbr" /\ main = "join"
    /\ session = "down" \/ overdue
    /\ LET drained == ~dirt /\ session = "down" /\ ~overdue
       IN exit' = IF cause = "failure" \/ dirt \/ err \/ (cause # "none" /\ ~drained)
                  THEN "error" ELSE "ok"
    /\ UNCHANGED <<life, gate, data, draining, tasks, session, main, signal,
                   cause, ready, overdue, err>>

\* fuser: join_session_until, then shutdown if it was not called before.
JoinFuser ==
    /\ backend = "fuser" /\ main = "join"
    /\ session = "down" \/ overdue
    /\ err' \in {err \/ session # "down", TRUE}
    /\ sd' = Entered /\ main' = "last"
    /\ UNCHANGED <<life, gate, data, waiter, late, dirt, tasks, session,
                   signal, cause, ready, overdue, exit>>

\* Mutant: the report of the shutdown is not looked at.
ExitFuserAnyway ==
    /\ main = "last" /\ sd = "over"
    /\ exit' = IF cause = "failure" \/ err THEN "error" ELSE "ok"
    /\ UNCHANGED <<life, gate, data, draining, tasks, session, main, signal,
                   cause, ready, overdue, err>>

ExitFuser ==
    /\ main = "last" /\ sd = "over"
    /\ exit' = IF cause = "failure" \/ err \/ dirt THEN "error" ELSE "ok"
    /\ UNCHANGED <<life, gate, data, draining, tasks, session, main, signal,
                   cause, ready, overdue, err>>

MainStep == \/ Create \/ Created \/ InitReturns \/ Mount \/ MountFails \/ Cancelled \/ Startup
            \/ Publish \/ Serve \/ Drain \/ Drained \/ Stop \/ ExitFbr \/ JoinFuser \/ ExitFuser

LifecycleNext ==
    /\ exit = "none"
    /\ \/ \E o \in Ops : Operation(o)
       \/ \E t \in MountTasks : TaskEnds(t)
       \/ InitStep \/ Shutdown \/ ExternalUnmount \/ SessionStep
       \/ Signal \/ DeadlinePasses \/ TerminationOverdue \/ MainStep
    /\ UNCHANGED options

LifecycleSpec == LifecycleInit /\ [][LifecycleNext]_lifecycleVars

Alive(Step) == exit = "none" /\ Step /\ UNCHANGED options

\* Requests and background tasks may hang; the clock, the main thread, init
\* (a read of the local metadata) and the bounded shutdown do not.
LifecycleFairSpec ==
    /\ LifecycleSpec
    /\ WF_lifecycleVars(Alive(MainStep)) /\ WF_lifecycleVars(Alive(Shutdown))
    /\ WF_lifecycleVars(Alive(InitStep))
    /\ WF_lifecycleVars(Alive(DeadlinePasses)) /\ WF_lifecycleVars(Alive(TerminationOverdue))
-----------------------------------------------------------------------------
\* The lifecycle, the shutdown and every operation are at a step of the code,
\* and the operation counter counts natural numbers.
LifecycleTypeOK ==
    /\ backend \in Backends /\ policy \in Policies
    /\ state \in {"Starting", "Recovering", "Ready", "Draining", "Stopped", "Failed"}
    /\ init \in {"idle", "run", "failing", "ok", "err"}
    /\ active_operations \in Nat
    /\ op \in [Ops -> {"idle", "checked", "counted", "running", "leaving", "notify", "over"}]
    /\ taken \subseteq Ops /\ staged \subseteq taken /\ uploaded \subseteq staged
    /\ sd \in {"none", "begin", "arm", "check", "park", "flush", "remote", "cancel", "snapshot",
               "over"}
    /\ waiter \in {"none", "armed", "woken"}
    /\ {late, dirt, anyPanicked, signal, ready, overdue, err} \subseteq BOOLEAN
    /\ running \subseteq MountTasks
    /\ session \in {"none", "up", "closing", "destroying", "down"}
    /\ main \in {"start", "created", "init", "mount", "cancelling", "startup", "publish",
                 "serve", "drain", "draining", "stop", "join", "last"}
    /\ cause \in {"none", "signal", "failure"} /\ exit \in {"none", "ok", "error"}

\* begin_operation against begin_draining: once wait_for_operations has
\* returned, no request is or gets past the gate, so the writers are flushed
\* while nobody writes.
QuietAfterDrain ==
    sd \in {"flush", "remote"} => \A o \in Ops : op[o] # "running"

\* wait_for_operations misses no wakeup: if it sleeps although nothing is
\* counted, the request that was the last is about to notify it.
WakeupPending ==
    sd = "park" /\ waiter = "armed" /\ active_operations = 0 => \E o \in Ops : op[o] = "notify"

\* An exit status of zero: every acknowledged write reached the stage, and the
\* object store under the remote policy, and no task was left behind.
CleanExitKeepsWrites ==
    exit = "ok" => /\ taken \subseteq staged
                   /\ policy = "remote" => taken \subseteq uploaded
                   /\ running = {}

\* The readiness file names a mount that takes requests. Only a session that
\* was unmounted from outside can be behind it, until the main thread sees it;
\* the process never leaves the file.
ReadyIsTruthful ==
    ready => /\ exit = "none"
             /\ state = "Ready" \/ session \in {"destroying", "down"}

\* "waits only until --shutdown-deadline": a signal ends the process even if
\* requests and background tasks hang.
SignalEndsProcess == signal ~> exit # "none"

Rank == [Starting |-> 0, Recovering |-> 1, Ready |-> 2, Draining |-> 3, Stopped |-> 4,
         Failed |-> 5]

\* "Use one monotonic state enum", with Failed terminal: violated, draining
\* leaves Failed and mark_failed overwrites what it has not seen.
LifecycleMonotonic == [][Rank[state'] >= Rank[state]]_lifecycleVars
=============================================================================
