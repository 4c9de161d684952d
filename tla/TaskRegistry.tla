---------------------------- MODULE TaskRegistry ----------------------------
(***************************************************************************)
(* MountTaskRegistry: admission of background tasks, their abort handles   *)
(* and counters, and the closing of the registry. A task is named after    *)
(* the spawn call that makes it. The steps are the atomic operations and   *)
(* the critical sections of the code, so a task may finish at any point of *)
(* the call that spawns it.                                                *)
(***************************************************************************)
EXTENDS Naturals, FiniteSets

CONSTANTS Spawns, Free      \* the spawn calls; the mutex is not held

ASSUME SpawnsFinite == IsFiniteSet(Spawns) /\ Free \notin Spawns

VARIABLES
    admission,  \* who holds the mutex of `accepting`: a spawn call or Free
    admitting,  \* the flag `accepting` itself
    sp,         \* where each spawn call is
    task,       \* where each task is
    finished,   \* tasks whose `finished` flag is set
    handles,    \* keys of abort_handles
    aborted,    \* tasks that abort() was called on
    active, spawned, completed, panicked,   \* the counters
    tokens,     \* tasks that the TaskTracker waits for
    drain       \* "open", "closed", "waited": tracker.wait() has returned

registryVars == <<admission, admitting, sp, task, finished, handles, aborted, active, spawned,
                  completed, panicked, tokens, drain>>

RegistryInit ==
    /\ admission = Free /\ admitting = TRUE
    /\ sp = [s \in Spawns |-> "idle"] /\ task = [s \in Spawns |-> "none"]
    /\ finished = {} /\ handles = {} /\ aborted = {}
    /\ active = 0 /\ spawned = 0 /\ completed = 0 /\ panicked = 0
    /\ tokens = {} /\ drain = "open"
-----------------------------------------------------------------------------
(* spawn *)

Refused(s) ==
    /\ sp[s] = "idle" /\ admission = Free /\ ~admitting
    /\ sp' = [sp EXCEPT ![s] = "refused"]
    /\ UNCHANGED <<admission, admitting, task, finished, handles, aborted, active, spawned,
                   completed, panicked, tokens, drain>>

\* Admission: the mutex is kept until the handle is registered.
Admit(s) ==
    /\ sp[s] = "idle" /\ admission = Free /\ admitting
    /\ admission' = s
    /\ sp' = [sp EXCEPT ![s] = "admitted"]
    /\ active' = active + 1 /\ spawned' = spawned + 1
    /\ UNCHANGED <<admitting, task, finished, handles, aborted, completed, panicked,
                   tokens, drain>>

\* Mutant: the admission lock is released before the handle is registered.
TrackUnlocked(s) ==
    /\ sp[s] = "admitted"
    /\ admission' = Free
    /\ sp' = [sp EXCEPT ![s] = "tracked"]
    /\ task' = [task EXCEPT ![s] = "running"]
    /\ tokens' = tokens \cup {s}
    /\ UNCHANGED <<admitting, finished, handles, aborted, active, spawned, completed,
                   panicked, drain>>

\* tracker.spawn: the task runs from here on.
Track(s) ==
    /\ sp[s] = "admitted"
    /\ sp' = [sp EXCEPT ![s] = "tracked"]
    /\ task' = [task EXCEPT ![s] = "running"]
    /\ tokens' = tokens \cup {s}
    /\ UNCHANGED <<admission, admitting, finished, handles, aborted, active, spawned,
                   completed, panicked, drain>>

\* Mutant: no handle is registered.
RegisteredNever(s) == handles

\* The handles after the critical section of abort_handles.
Registered(s) == IF s \in finished THEN handles ELSE handles \cup {s}

Register(s) ==
    /\ sp[s] = "tracked"
    /\ handles' = Registered(s)
    /\ sp' = [sp EXCEPT ![s] = "registered"]
    /\ UNCHANGED <<admission, admitting, task, finished, aborted, active, spawned, completed,
                   panicked, tokens, drain>>

Return(s) ==
    /\ sp[s] = "registered"
    /\ sp' = [sp EXCEPT ![s] = "spawned"]
    /\ admission' = Free
    /\ UNCHANGED <<admitting, task, finished, handles, aborted, active, spawned, completed,
                   panicked, tokens, drain>>
-----------------------------------------------------------------------------
(* The task: it ends, panics or is aborted at an await, then CompletionGuard *)
(* is dropped field by field and at last the tracker's token.               *)

Panic(s) ==
    /\ task[s] = "running"
    /\ panicked' = panicked + 1
    /\ task' = [task EXCEPT ![s] = "ending"]
    /\ UNCHANGED <<admission, admitting, sp, finished, handles, aborted, active, spawned,
                   completed, tokens, drain>>

End(s) ==
    /\ task[s] = "running"
    /\ task' = [task EXCEPT ![s] = "ending"]
    /\ UNCHANGED <<admission, admitting, sp, finished, handles, aborted, active, spawned,
                   completed, panicked, tokens, drain>>

SetFinished(s) ==
    /\ task[s] = "ending"
    /\ finished' = finished \cup {s}
    /\ task' = [task EXCEPT ![s] = "finished"]
    /\ UNCHANGED <<admission, admitting, sp, handles, aborted, active, spawned, completed,
                   panicked, tokens, drain>>

RemoveHandle(s) ==
    /\ task[s] = "finished"
    /\ handles' = handles \ {s}
    /\ task' = [task EXCEPT ![s] = "removed"]
    /\ UNCHANGED <<admission, admitting, sp, finished, aborted, active, spawned, completed,
                   panicked, tokens, drain>>

Deactivate(s) ==
    /\ task[s] = "removed"
    /\ active' = active - 1
    /\ task' = [task EXCEPT ![s] = "inactive"]
    /\ UNCHANGED <<admission, admitting, sp, finished, handles, aborted, spawned, completed,
                   panicked, tokens, drain>>

Complete(s) ==
    /\ task[s] = "inactive"
    /\ completed' = completed + 1
    /\ task' = [task EXCEPT ![s] = "completed"]
    /\ UNCHANGED <<admission, admitting, sp, finished, handles, aborted, active, spawned,
                   panicked, tokens, drain>>

\* Mutant: the tracker forgets the task when its body ends.
ReleaseEarly(s) ==
    /\ task[s] # "running" /\ s \in tokens
    /\ tokens' = tokens \ {s}
    /\ task' = IF task[s] = "completed" THEN [task EXCEPT ![s] = "gone"] ELSE task
    /\ UNCHANGED <<admission, admitting, sp, finished, handles, aborted, active, spawned,
                   completed, panicked, drain>>

Release(s) ==
    /\ task[s] = "completed"
    /\ tokens' = tokens \ {s}
    /\ task' = [task EXCEPT ![s] = "gone"]
    /\ UNCHANGED <<admission, admitting, sp, finished, handles, aborted, active, spawned,
                   completed, panicked, drain>>
-----------------------------------------------------------------------------
BeginRegistryDraining ==
    /\ admission = Free /\ admitting
    /\ admitting' = FALSE
    /\ drain' = "closed"
    /\ UNCHANGED <<admission, sp, task, finished, handles, aborted, active, spawned, completed,
                   panicked, tokens>>

\* wait: the tracker is closed and empty.
Wait ==
    /\ drain = "closed" /\ tokens = {}
    /\ drain' = "waited"
    /\ UNCHANGED <<admission, admitting, sp, task, finished, handles, aborted, active, spawned,
                   completed, panicked, tokens>>

\* abort_all runs once the deadline of a shutdown has passed.
AbortAll ==
    /\ drain = "closed" /\ handles # {}
    /\ aborted' = aborted \cup handles
    /\ handles' = {}
    /\ UNCHANGED <<admission, admitting, sp, task, finished, active, spawned, completed,
                   panicked, tokens, drain>>

Spawn(s) == Refused(s) \/ Admit(s) \/ Track(s) \/ Register(s) \/ Return(s)
Drop(s) == SetFinished(s) \/ RemoveHandle(s) \/ Deactivate(s) \/ Complete(s) \/ Release(s)

RegistryNext ==
    \/ \E s \in Spawns : Spawn(s) \/ Panic(s) \/ End(s) \/ Drop(s)
    \/ BeginRegistryDraining \/ Wait \/ AbortAll

RegistrySpec == RegistryInit /\ [][RegistryNext]_registryVars

\* A task body may hang; one that abort() was called on ends at its next
\* await. Everything else is code that runs to its end.
RegistryFairSpec ==
    /\ RegistrySpec
    /\ \A s \in Spawns : /\ WF_registryVars(Spawn(s)) /\ WF_registryVars(Drop(s))
                         /\ WF_registryVars(s \in aborted /\ End(s))
    /\ WF_registryVars(AbortAll) /\ WF_registryVars(Wait)
-----------------------------------------------------------------------------
Live == {"running", "ending"}
Steps == {"idle", "refused", "admitted", "tracked", "registered", "spawned"}
TaskSteps == {"none", "running", "ending", "finished", "removed", "inactive", "completed",
              "gone"}
Admitted == {s \in Spawns : sp[s] \notin {"idle", "refused"}}
Undropped == {s \in Admitted : task[s] \notin {"inactive", "completed", "gone"}}
Dropped == {s \in Admitted : task[s] \in {"completed", "gone"}}

\* Spawn calls and tasks are at a step of the code, and no counter of the
\* registry goes below zero.
RegistryTypeOK ==
    /\ admission \in Spawns \cup {Free} /\ admitting \in BOOLEAN
    /\ sp \in [Spawns -> Steps] /\ task \in [Spawns -> TaskSteps]
    /\ finished \subseteq Spawns /\ handles \subseteq Spawns /\ aborted \subseteq Spawns
    /\ tokens \subseteq Spawns
    /\ active \in Nat /\ spawned \in Nat /\ completed \in Nat /\ panicked \in Nat
    /\ drain \in {"open", "closed", "waited"}

\* "Once draining starts, no task can slip into the tracker afterward", and
\* abort_all misses none: a task that is still alive after the registry
\* closed can be aborted or has been.
DrainMissesNoTask ==
    drain # "open" => \A s \in Spawns : task[s] \in Live => s \in handles \cup aborted

\* A handle never outlives its task, however the completion and the
\* registration are interleaved.
NoHandleLeak == \A s \in handles : task[s] \in {"running", "ending", "finished"}

\* The counters that the shutdown report is made of: what is active is what
\* was admitted and has not been dropped, what is completed was.
CountersAgree ==
    /\ active = Cardinality(Undropped)
    /\ completed = Cardinality(Dropped)
    /\ spawned = Cardinality(Admitted)

\* When wait returns, every task that was ever spawned is over, its
\* completion is counted, and none comes after it.
WaitMeansQuiet ==
    drain = "waited" => /\ \A s \in Spawns : task[s] \in {"none", "gone"}
                        /\ active = 0 /\ completed = spawned

\* The registry never takes a task once it is closed.
ClosedStaysClosed ==
    [][drain # "open" => tokens' \subseteq tokens /\ drain' # "open"]_registryVars

\* A registry that is closed is waited for successfully, even if no task
\* ends by itself: abort_all reaches all of them.
DrainCompletes == drain = "closed" ~> drain = "waited"
=============================================================================
