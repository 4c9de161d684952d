--------------------------- MODULE ProcessProofs ---------------------------
(***************************************************************************)
(* Proofs about the parts of the mount process that run beside the         *)
(* requests, each on its own: MountLifecycle for any number of requests    *)
(* and background tasks, FileCache for every set of blocks and every stage *)
(* size, and TaskRegistry for every set of spawn calls.                    *)
(***************************************************************************)
EXTENDS MountLifecycle, FileCache, TaskRegistry, FiniteSetTheorems, TLAPS

(* MountLifecycle. The inductive invariant has one part per question:       *)
(* what the counter counts (Gate), what the drain has closed (Shut), what a *)
(* shutdown report without an error says (Clean), and where the main thread *)
(* can be (Mounting, Readiness, Finishing).                                 *)

\* active_operations is the number of guards that begin_operation has made
\* and finish_operation has not yet given back.
Counted == {o \in Ops : op[o] \in {"counted", "running", "leaving"}}
Gate == active_operations = Cardinality(Counted)

\* Once begin_draining has stored its state nothing makes the mount ready
\* again; only init makes it ready, and it has returned by then.
Shut ==
    /\ sd \notin {"none", "begin"} => state \notin {"Starting", "Recovering", "Ready"}
    /\ state = "Ready" => init = "ok"

\* The steps of run_shutdown after wait_for_operations has returned.
Waited == {"flush", "remote", "cancel", "snapshot", "over"}

\* As long as the report has no error: no request is past the gate, and what
\* was acknowledged has been flushed as far as the shutdown has come.
Clean ==
    sd \in Waited /\ ~dirt =>
        /\ \A o \in Ops : op[o] # "running"
        /\ sd # "flush" => taken \subseteq staged
        /\ sd \notin {"flush", "remote"} /\ policy = "remote" => taken \subseteq uploaded
        /\ sd \in {"snapshot", "over"} => running = {}

\* Before it mounts, the main thread is alone.
Mounting ==
    /\ main = "start" => /\ sd = "none" /\ taken = {} /\ running = {} /\ init = "idle"
                         /\ state = "Starting" /\ session = "none"
                         /\ \A o \in Ops : op[o] = "idle"
    /\ main \in {"created", "init", "mount"} => sd = "none" /\ session = "none"
    /\ main = "created" => init = "idle"
    /\ main = "init" => backend = "fbr"
    /\ main = "mount" /\ backend = "fuser" => init = "idle"

\* While the main thread serves, only destroy of a session that was unmounted
\* from outside can have started the shutdown.
Readiness ==
    /\ main \in {"startup", "publish", "serve", "drain"} /\ sd # "none" =>
            session \in {"destroying", "down"}
    /\ main \in {"publish", "serve"} \/ ready =>
            state = "Ready" \/ session \in {"destroying", "down"}
    /\ ready => main \in {"serve", "drain"} /\ exit = "none"

\* mount() returns after the shutdown.
Finishing ==
    /\ main = "stop" \/ (main = "join" /\ backend = "fbr") => sd = "over"
    /\ exit = "ok" => (sd = "none" /\ main = "start") \/ (sd = "over" /\ ~dirt)

\* The inductive invariant.
Phases ==
    /\ Shut /\ Clean /\ Mounting /\ Readiness /\ Finishing
    /\ QuietAfterDrain /\ WakeupPending
LifecycleInv == LifecycleTypeOK /\ Gate /\ Phases
-----------------------------------------------------------------------------
(* The groups the model lists its variables in are always opened.           *)
USE DEF options, life, gate, data, draining, tasks, proc, OpsInFlight, Entered

\* Requests are finite in number, so those at the gate are.
LEMMA CountedFinite ==
    ASSUME LifecycleTypeOK PROVE IsFiniteSet(Counted) /\ Cardinality(Counted) \in Nat
<1>1. Counted \subseteq Ops
  BY Zenon DEF Counted
<1>2. IsFiniteSet(Counted)
  BY <1>1, LifecycleConstants, FS_Subset, Zenon
<1> QED BY <1>2, FS_CardinalityType, Zenon

\* Nothing is counted exactly when no request holds a guard: what
\* wait_for_operations reads from the counter.
LEMMA NoneCounted ==
    ASSUME LifecycleTypeOK, Gate, active_operations = 0
    PROVE  \A o \in Ops : op[o] \notin {"counted", "running", "leaving"}
<1>1. Counted = {}
  BY CountedFinite, FS_EmptySet, Zenon DEF Gate
<1> QED BY <1>1, Zenon DEF Counted

\* Only the three steps of a guard touch the counter: it is taken, it is given
\* back, and in between the request stays counted.
LEMMA GateStep == ASSUME LifecycleInv, [LifecycleNext]_lifecycleVars PROVE Gate'
<1>0. LifecycleTypeOK /\ Gate
  BY Zenon DEF LifecycleInv
<1>1. CASE UNCHANGED <<active_operations, op>>
  BY <1>0, <1>1, Zenon DEF Gate, Counted
<1>2. ASSUME NEW o \in Ops, Operation(o) PROVE Gate'
  <2>1. CASE OpCheck(o) \/ OpRecheck(o) \/ OpServe(o) \/ OpNotify(o)
    <3>1. Counted' = Counted /\ active_operations' = active_operations
      BY <1>0, <2>1, Zenon DEF LifecycleTypeOK, Counted, OpCheck, OpRecheck, OpServe, OpNotify
    <3> QED BY <1>0, <3>1, Zenon DEF Gate
  <2>2. CASE OpCount(o)
    <3>1. /\ Counted' = Counted \cup {o} /\ o \notin Counted
          /\ active_operations' = active_operations + 1
      BY <1>0, <1>2, <2>2, Zenon DEF LifecycleTypeOK, Counted, OpCount
    <3>2. Cardinality(Counted \cup {o}) = Cardinality(Counted) + 1
      BY <1>0, <3>1, CountedFinite, FS_AddElement, Zenon
    <3> QED BY <1>0, <3>1, <3>2, Zenon DEF Gate
  <2>3. CASE OpFinish(o)
    <3>1. /\ Counted' = Counted \ {o} /\ o \in Counted
          /\ active_operations' = active_operations - 1
      BY <1>0, <1>2, <2>3, Zenon DEF LifecycleTypeOK, Counted, OpFinish
    <3>2. Cardinality(Counted \ {o}) = Cardinality(Counted) - 1
      BY <1>0, <3>1, CountedFinite, FS_RemoveElement, Zenon
    <3> QED BY <1>0, <3>1, <3>2, Zenon DEF Gate
  <2> QED BY <1>2, <2>1, <2>2, <2>3, Zenon DEF Operation
<1>3. \/ \E o \in Ops : Operation(o)
      \/ UNCHANGED <<active_operations, op>>
  BY Zenon DEF LifecycleNext, lifecycleVars, InitStep, Shutdown, SessionStep, MainStep,
     TaskEnds, InitOk,
               InitFails, InitStoresFailed, BeginMountDraining, WaitArm, WaitCheck, WaitWake,
               WaitTimeout, FlushWriters, FlushStage, WaitTasks, Snapshot, WorkersEnd,
               Destroy, DestroyReturns, Create, Created, InitReturns, Mount, MountFails,
               Cancelled, Startup, Publish, Serve, Drain, Drained, Stop, ExitFbr, JoinFuser,
               ExitFuser, ExternalUnmount, Signal, DeadlinePasses, TerminationOverdue
<1> QED BY <1>1, <1>2, <1>3, Zenon

\* Every step keeps the types; finish_operation never takes the counter below
\* zero, since its request is counted.
LEMMA TypeStep == ASSUME LifecycleInv, [LifecycleNext]_lifecycleVars PROVE LifecycleTypeOK'
<1>1. CASE UNCHANGED lifecycleVars
  BY <1>1, SMTT(20) DEF lifecycleVars, LifecycleInv, LifecycleTypeOK
<1>2. ASSUME NEW o \in Ops, Operation(o), UNCHANGED options, exit = "none"
      PROVE LifecycleTypeOK'
  <2>1. CASE OpCheck(o)
    BY <1>2, <2>1 DEF OpCheck, LifecycleInv, LifecycleTypeOK
  <2>2. CASE OpCount(o)
    BY <1>2, <2>2 DEF OpCount, LifecycleInv, LifecycleTypeOK
  <2>3. CASE OpRecheck(o)
    BY <1>2, <2>3 DEF OpRecheck, LifecycleInv, LifecycleTypeOK
  <2>4. CASE OpServe(o)
    BY <1>2, <2>4 DEF OpServe, LifecycleInv, LifecycleTypeOK
  <2>5. CASE OpFinish(o)
    <3>1. o \in Counted /\ active_operations = Cardinality(Counted)
      BY <1>2, <2>5, Zenon DEF OpFinish, Counted, LifecycleInv, Gate
    <3>2. active_operations - 1 \in Nat
      BY <3>1, CountedFinite, FS_EmptySet DEF LifecycleInv
    <3> QED BY <3>2, <1>2, <2>5 DEF OpFinish, LifecycleInv, LifecycleTypeOK
  <2>6. CASE OpNotify(o)
    BY <1>2, <2>6 DEF OpNotify, LifecycleInv, LifecycleTypeOK
  <2> QED BY <1>2, <2>1, <2>2, <2>3, <2>4, <2>5, <2>6, Zenon DEF Operation
<1>3. ASSUME InitStep, UNCHANGED options, exit = "none" PROVE LifecycleTypeOK'
  <2>1. CASE InitOk
    BY <1>3, <2>1 DEF InitOk, LifecycleInv, LifecycleTypeOK
  <2>2. CASE InitFails
    BY <1>3, <2>2 DEF InitFails, LifecycleInv, LifecycleTypeOK
  <2>3. CASE InitStoresFailed
    BY <1>3, <2>3 DEF InitStoresFailed, LifecycleInv, LifecycleTypeOK
  <2> QED BY <1>3, <2>1, <2>2, <2>3, Zenon DEF InitStep
<1>4. ASSUME Shutdown, UNCHANGED options, exit = "none" PROVE LifecycleTypeOK'
  <2>1. CASE BeginMountDraining
    BY <1>4, <2>1 DEF BeginMountDraining, LifecycleInv, LifecycleTypeOK
  <2>2. CASE WaitArm
    BY <1>4, <2>2 DEF WaitArm, LifecycleInv, LifecycleTypeOK
  <2>3. CASE WaitCheck
    BY <1>4, <2>3 DEF WaitCheck, LifecycleInv, LifecycleTypeOK
  <2>4. CASE WaitWake
    BY <1>4, <2>4 DEF WaitWake, LifecycleInv, LifecycleTypeOK
  <2>5. CASE WaitTimeout
    BY <1>4, <2>5 DEF WaitTimeout, LifecycleInv, LifecycleTypeOK
  <2>6. CASE FlushWriters
    BY <1>4, <2>6 DEF FlushWriters, LifecycleInv, LifecycleTypeOK
  <2>7. CASE FlushStage
    BY <1>4, <2>7 DEF FlushStage, LifecycleInv, LifecycleTypeOK
  <2>8. CASE WaitTasks
    BY <1>4, <2>8 DEF WaitTasks, LifecycleInv, LifecycleTypeOK
  <2>9. CASE Snapshot
    BY <1>4, <2>9 DEF Snapshot, LifecycleInv, LifecycleTypeOK
  <2> QED BY <1>4, <2>1, <2>2, <2>3, <2>4, <2>5, <2>6, <2>7, <2>8, <2>9, Zenon DEF Shutdown
<1>5. ASSUME SessionStep, UNCHANGED options, exit = "none" PROVE LifecycleTypeOK'
  <2>1. CASE WorkersEnd
    BY <1>5, <2>1 DEF WorkersEnd, LifecycleInv, LifecycleTypeOK
  <2>2. CASE Destroy
    BY <1>5, <2>2 DEF Destroy, LifecycleInv, LifecycleTypeOK
  <2>3. CASE DestroyReturns
    BY <1>5, <2>3 DEF DestroyReturns, LifecycleInv, LifecycleTypeOK
  <2> QED BY <1>5, <2>1, <2>2, <2>3, Zenon DEF SessionStep
<1>6. ASSUME MainStep, UNCHANGED options, exit = "none" PROVE LifecycleTypeOK'
  <2>1. CASE Create
    BY <1>6, <2>1 DEF Create, LifecycleInv, LifecycleTypeOK
  <2>2. CASE Created
    BY <1>6, <2>2 DEF Created, LifecycleInv, LifecycleTypeOK
  <2>3. CASE InitReturns
    BY <1>6, <2>3 DEF InitReturns, LifecycleInv, LifecycleTypeOK
  <2>4. CASE Mount
    BY <1>6, <2>4 DEF Mount, LifecycleInv, LifecycleTypeOK
  <2>5. CASE MountFails
    BY <1>6, <2>5 DEF MountFails, LifecycleInv, LifecycleTypeOK
  <2>6. CASE Cancelled
    BY <1>6, <2>6 DEF Cancelled, LifecycleInv, LifecycleTypeOK
  <2>7. CASE Startup
    BY <1>6, <2>7 DEF Startup, LifecycleInv, LifecycleTypeOK
  <2>8. CASE Publish
    BY <1>6, <2>8 DEF Publish, LifecycleInv, LifecycleTypeOK
  <2>9. CASE Serve
    BY <1>6, <2>9 DEF Serve, LifecycleInv, LifecycleTypeOK
  <2>10. CASE Drain
    <3>1. {late, dirt, anyPanicked, signal, ready, overdue, err} \subseteq BOOLEAN
      BY Zenon DEF LifecycleInv, LifecycleTypeOK
    <3>2. {late, dirt, anyPanicked, signal, ready, overdue, err}' \subseteq BOOLEAN
      BY <3>1, <1>6, <2>10, Zenon DEF Drain
    <3> QED BY <3>2, <1>6, <2>10 DEF Drain, LifecycleInv, LifecycleTypeOK
  <2>11. CASE Drained
    BY <1>6, <2>11 DEF Drained, LifecycleInv, LifecycleTypeOK
  <2>12. CASE Stop
    BY <1>6, <2>12 DEF Stop, LifecycleInv, LifecycleTypeOK
  <2>13. CASE ExitFbr
    BY <1>6, <2>13 DEF ExitFbr, LifecycleInv, LifecycleTypeOK
  <2>14. CASE JoinFuser
    <3>1. {late, dirt, anyPanicked, signal, ready, overdue, err} \subseteq BOOLEAN
      BY Zenon DEF LifecycleInv, LifecycleTypeOK
    <3>2. {late, dirt, anyPanicked, signal, ready, overdue, err}' \subseteq BOOLEAN
      BY <3>1, <1>6, <2>14, Zenon DEF JoinFuser
    <3> QED BY <3>2, <1>6, <2>14 DEF JoinFuser, LifecycleInv, LifecycleTypeOK
  <2>15. CASE ExitFuser
    BY <1>6, <2>15 DEF ExitFuser, LifecycleInv, LifecycleTypeOK
  <2> QED BY <1>6, <2>1, <2>2, <2>3, <2>4, <2>5, <2>6, <2>7, <2>8, <2>9, <2>10, <2>11, <2>12,
             <2>13, <2>14, <2>15, Zenon DEF MainStep
<1>7. ASSUME NEW t \in MountTasks, TaskEnds(t), UNCHANGED options, exit = "none"
      PROVE LifecycleTypeOK'
  <2>1. {late, dirt, anyPanicked, signal, ready, overdue, err} \subseteq BOOLEAN
    BY Zenon DEF LifecycleInv, LifecycleTypeOK
  <2>2. {late, dirt, anyPanicked, signal, ready, overdue, err}' \subseteq BOOLEAN
    BY <2>1, <1>7, Zenon DEF TaskEnds
  <2> QED BY <2>2, <1>7 DEF TaskEnds, LifecycleInv, LifecycleTypeOK
<1>8. ASSUME ExternalUnmount, UNCHANGED options, exit = "none" PROVE LifecycleTypeOK'
  BY <1>8 DEF ExternalUnmount, LifecycleInv, LifecycleTypeOK
<1>9. ASSUME Signal, UNCHANGED options, exit = "none" PROVE LifecycleTypeOK'
  BY <1>9 DEF Signal, LifecycleInv, LifecycleTypeOK
<1>10. ASSUME DeadlinePasses, UNCHANGED options, exit = "none" PROVE LifecycleTypeOK'
  BY <1>10 DEF DeadlinePasses, LifecycleInv, LifecycleTypeOK
<1>11. ASSUME TerminationOverdue, UNCHANGED options, exit = "none" PROVE LifecycleTypeOK'
  BY <1>11, SMTT(20) DEF TerminationOverdue, LifecycleInv, LifecycleTypeOK
<1> QED BY <1>1, <1>2, <1>3, <1>4, <1>5, <1>6, <1>7, <1>8, <1>9, <1>10, <1>11,
           Zenon DEF LifecycleNext

\* Every step keeps the rest of the invariant.
LEMMA PhaseStep == ASSUME LifecycleInv, [LifecycleNext]_lifecycleVars PROVE Phases'
<1> USE DEF LifecycleInv, LifecycleTypeOK, Phases, Shut, Clean, Waited, Mounting, Readiness,
            Finishing, QuietAfterDrain, WakeupPending
<1>1. CASE UNCHANGED lifecycleVars
  BY <1>1, SMTT(20) DEF lifecycleVars
<1>2. ASSUME NEW o \in Ops, Operation(o), UNCHANGED options, exit = "none" PROVE Phases'
  <2>1. CASE OpCheck(o)
    BY <1>2, <2>1 DEF OpCheck
  <2>2. CASE OpCount(o)
    BY <1>2, <2>2 DEF OpCount
  <2>3. CASE OpRecheck(o)
    BY <1>2, <2>3 DEF OpRecheck
  <2>4. CASE OpServe(o)
    BY <1>2, <2>4 DEF OpServe
  <2>5. CASE OpFinish(o)
    BY <1>2, <2>5 DEF OpFinish
  <2>6. CASE OpNotify(o)
    BY <1>2, <2>6 DEF OpNotify
  <2> QED BY <1>2, <2>1, <2>2, <2>3, <2>4, <2>5, <2>6, Zenon DEF Operation
<1>3. ASSUME InitStep, UNCHANGED options, exit = "none" PROVE Phases'
  <2>1. CASE InitOk
    BY <1>3, <2>1 DEF InitOk
  <2>2. CASE InitFails
    BY <1>3, <2>2 DEF InitFails
  <2>3. CASE InitStoresFailed
    BY <1>3, <2>3 DEF InitStoresFailed
  <2> QED BY <1>3, <2>1, <2>2, <2>3, Zenon DEF InitStep
<1>4. ASSUME Shutdown, UNCHANGED options, exit = "none" PROVE Phases'
  <2>1. CASE BeginMountDraining
    BY <1>4, <2>1, Zenon DEF BeginMountDraining
  <2>2. CASE WaitArm
    BY <1>4, <2>2, Zenon DEF WaitArm
  <2>3. CASE WaitCheck
    <3>1. active_operations = 0 => \A o \in Ops : op[o] \notin {"counted", "running", "leaving"}
      BY NoneCounted, Zenon DEF LifecycleInv
    <3> QED BY <3>1, <1>4, <2>3, Zenon DEF WaitCheck
  <2>4. CASE WaitWake
    BY <1>4, <2>4, Zenon DEF WaitWake
  <2>5. CASE WaitTimeout
    BY <1>4, <2>5, Zenon DEF WaitTimeout
  <2>6. CASE FlushWriters
    <3>1. PICK done \in SUBSET taken, timeout \in {FALSE, late} :
            /\ staged' = staged \cup done
            /\ dirt' = (dirt \/ timeout \/ done # taken)
            /\ sd' = IF policy = "remote" /\ ~timeout THEN "remote" ELSE "cancel"
      BY <2>6, Zenon DEF FlushWriters
    <3>2. ~dirt' => ~dirt /\ done = taken /\ ~timeout
      BY <3>1, Zenon
    <3>3. ~dirt' => taken \subseteq staged'
      BY <3>1, <3>2, Zenon
    <3>4. ~dirt' => sd' = IF policy = "remote" THEN "remote" ELSE "cancel"
      BY <3>1, <3>2, Zenon
    <3> QED BY <3>1, <3>2, <3>3, <3>4, <1>4, <2>6, Zenon DEF FlushWriters
  <2>7. CASE FlushStage
    <3>1. PICK done \in SUBSET staged, timeout \in {FALSE, late} :
            /\ uploaded' = uploaded \cup done
            /\ dirt' = (dirt \/ timeout \/ done # staged)
      BY <2>7, Zenon DEF FlushStage
    <3>2. ~dirt' => ~dirt /\ done = staged
      BY <3>1, Zenon
    <3>3. ~dirt' => staged \subseteq uploaded'
      BY <3>1, <3>2, Zenon
    <3> QED BY <3>2, <3>3, <1>4, <2>7, Zenon DEF FlushStage
  <2>8. CASE WaitTasks
    BY <1>4, <2>8, Zenon DEF WaitTasks
  <2>9. CASE Snapshot
    BY <1>4, <2>9, Zenon DEF Snapshot
  <2> QED BY <1>4, <2>1, <2>2, <2>3, <2>4, <2>5, <2>6, <2>7, <2>8, <2>9, Zenon DEF Shutdown
<1>5. ASSUME SessionStep, UNCHANGED options, exit = "none" PROVE Phases'
  <2>1. CASE WorkersEnd
    BY <1>5, <2>1, Zenon DEF WorkersEnd
  <2>2. CASE Destroy
    BY <1>5, <2>2, Zenon DEF Destroy
  <2>3. CASE DestroyReturns
    BY <1>5, <2>3, Zenon DEF DestroyReturns
  <2> QED BY <1>5, <2>1, <2>2, <2>3, Zenon DEF SessionStep
<1>6. ASSUME MainStep, UNCHANGED options, exit = "none" PROVE Phases'
  <2>1. CASE Create
    BY <1>6, <2>1, Zenon DEF Create
  <2>2. CASE Created
    BY <1>6, <2>2, Zenon DEF Created
  <2>3. CASE InitReturns
    BY <1>6, <2>3, Zenon DEF InitReturns
  <2>4. CASE Mount
    BY <1>6, <2>4, Zenon DEF Mount
  <2>5. CASE MountFails
    BY <1>6, <2>5, Zenon DEF MountFails
  <2>6. CASE Cancelled
    BY <1>6, <2>6, Zenon DEF Cancelled
  <2>7. CASE Startup
    BY <1>6, <2>7 DEF Startup
  <2>8. CASE Publish
    BY <1>6, <2>8 DEF Publish
  <2>9. CASE Serve
    BY <1>6, <2>9 DEF Serve
  <2>10. CASE Drain
    BY <1>6, <2>10 DEF Drain
  <2>11. CASE Drained
    BY <1>6, <2>11, Zenon DEF Drained
  <2>12. CASE Stop
    BY <1>6, <2>12, Zenon DEF Stop
  <2>13. CASE ExitFbr
    BY <1>6, <2>13, Zenon DEF ExitFbr
  <2>14. CASE JoinFuser
    BY <1>6, <2>14, Zenon DEF JoinFuser
  <2>15. CASE ExitFuser
    BY <1>6, <2>15, Zenon DEF ExitFuser
  <2> QED BY <1>6, <2>1, <2>2, <2>3, <2>4, <2>5, <2>6, <2>7, <2>8, <2>9, <2>10, <2>11, <2>12,
             <2>13, <2>14, <2>15, Zenon DEF MainStep
<1>7. ASSUME NEW t \in MountTasks, TaskEnds(t), UNCHANGED options, exit = "none" PROVE Phases'
  BY <1>7 DEF TaskEnds
<1>8. ASSUME ExternalUnmount, UNCHANGED options, exit = "none" PROVE Phases'
  BY <1>8 DEF ExternalUnmount
<1>9. ASSUME Signal, UNCHANGED options, exit = "none" PROVE Phases'
  BY <1>9 DEF Signal
<1>10. ASSUME DeadlinePasses, UNCHANGED options, exit = "none" PROVE Phases'
  BY <1>10 DEF DeadlinePasses
<1>11. ASSUME TerminationOverdue, UNCHANGED options, exit = "none" PROVE Phases'
  BY <1>11 DEF TerminationOverdue
<1> QED BY <1>1, <1>2, <1>3, <1>4, <1>5, <1>6, <1>7, <1>8, <1>9, <1>10, <1>11,
           Zenon DEF LifecycleNext

\* The process starts in the invariant.
LEMMA LifecycleInitInv == ASSUME LifecycleInit PROVE LifecycleInv
<1>1. {late, dirt, anyPanicked, signal, ready, overdue, err} \subseteq BOOLEAN
  BY Zenon DEF LifecycleInit
<1>2. LifecycleTypeOK
  BY <1>1, Zenon DEF LifecycleInit, LifecycleTypeOK
<1>3. Counted = {}
  BY Zenon DEF LifecycleInit, Counted
<1>4. Gate
  BY <1>3, FS_EmptySet, Zenon DEF LifecycleInit, Gate
<1> QED BY <1>2, <1>4, Zenon DEF LifecycleInit, LifecycleInv, Phases, Shut, Clean, Waited, Mounting,
           Readiness,
           Finishing,
                           QuietAfterDrain, WakeupPending

\* The invariant holds throughout the life of a mounted process, whatever its
\* backend and its shutdown policy.
THEOREM LifecycleInvariant == LifecycleSpec => []LifecycleInv
<1>1. LifecycleInit => LifecycleInv
  BY LifecycleInitInv, Zenon
<1>2. LifecycleInv /\ [LifecycleNext]_lifecycleVars => LifecycleInv'
  BY GateStep, TypeStep, PhaseStep, Zenon DEF LifecycleInv
<1> QED BY <1>1, <1>2, PTL DEF LifecycleSpec

\* begin_operation reads the state again after it is counted and
\* begin_draining stores it before wait_for_operations reads the counter: for
\* any number of requests, none is past the gate while the writers and the
\* stage are flushed.
THEOREM FlushIsAlone == LifecycleSpec => []QuietAfterDrain
<1>1. LifecycleInv => QuietAfterDrain
  BY Zenon DEF LifecycleInv, Phases
<1> QED BY <1>1, LifecycleInvariant, PTL

\* wait_for_operations makes its future before it reads the counter: for any
\* number of requests, it never sleeps on an empty gate without the notify of
\* the last request still to come.
THEOREM NoLostWakeup == LifecycleSpec => []WakeupPending
<1>1. LifecycleInv => WakeupPending
  BY Zenon DEF LifecycleInv, Phases
<1> QED BY <1>1, LifecycleInvariant, PTL

\* Exit status zero means that every acknowledged write is staged, and in the
\* object store under the remote policy, and that no task was left behind.
THEOREM ZeroExitIsDurable == LifecycleSpec => []CleanExitKeepsWrites
<1>1. LifecycleInv => CleanExitKeepsWrites
  BY Zenon DEF LifecycleInv, LifecycleTypeOK, Phases, Clean, Waited, Mounting, Finishing,
     CleanExitKeepsWrites
<1> QED BY <1>1, LifecycleInvariant, PTL

\* The readiness file names a mount that takes requests, or one whose session
\* was ended from outside, and the process never leaves it behind.
THEOREM ReadinessIsTrue == LifecycleSpec => []ReadyIsTruthful
<1>1. LifecycleInv => ReadyIsTruthful
  BY Zenon DEF LifecycleInv, Phases, Readiness, ReadyIsTruthful
<1> QED BY <1>1, LifecycleInvariant, PTL
HIDE DEF options, life, gate, data, draining, tasks, proc, OpsInFlight, Entered
-----------------------------------------------------------------------------
(* FileCache. *)

USE DEF Tasks, Procs, None, StageSteps, MigSteps, ReadSteps, Holding

\* Who holds a migration_lock is between taking it and dropping it.
LockHeld ==
    \A p \in Procs, k \in Keys : mig[p][k] \in Holding <=> lock[k] = p

\* Past the confirming read the object store has the block; past the delete
\* the file is gone.
Migrated ==
    \A p \in Procs, k \in Keys :
        /\ mig[p][k] \in {"delete", "unindex"} => k \in remote
        /\ mig[p][k] = "unindex" => k \notin local

\* A block whose `stage` call is still running is nowhere but in its file.
Unpublished ==
    \A k \in Keys : stg[k] \in {"new", "reserved", "writing", "renamed"} =>
        /\ k \notin staged_index /\ k \notin acked
        /\ \A p \in Procs : mig[p][k] \notin Holding
        /\ k \in local <=> stg[k] = "renamed"

\* An acknowledged block that left the index is in the object store.
LeftIndexIsRemote == up = "up" => acked \subseteq staged_index \cup remote

Readers ==
    \A k \in Keys :
        /\ rd[k] # "off" => k \in acked
        /\ rd[k] = "missing" => k \in remote /\ k \notin local
        /\ rd[k] # "lost"

Flusher ==
    /\ promised \subseteq acked
    /\ promised \subseteq todo \cup remote
    /\ durable \subseteq remote

\* Nothing runs in a process that is not up.
Down ==
    up # "up" => index = {} /\ \A k \in Keys :
        /\ stg[k] \in {"staged", "dead"}
        /\ lock[k] = None
        /\ \A p \in Procs : mig[p][k] = "off"

\* A block is evicted at most once, and the pressure flag admits one task.
Spawned ==
    /\ \A k \in index : mig["evict"][k] = "off"
    /\ \A k \in Keys : stg[k] \in {"new", "reserved", "writing"} =>
           k \notin index /\ mig["evict"][k] = "off"
    /\ \A k \in Keys : mig["pressure"][k] # "off" => pressure
    /\ \A j, k \in Keys :
           mig["pressure"][j] # "off" /\ mig["pressure"][k] # "off" => j = k

\* The state of the migrations, of their locks and of the running stage calls.
Locking == DataOK /\ LockHeld /\ Migrated /\ Unpublished /\ Down

\* Where the acknowledged blocks are.
Reach == NoAckedBlockLost /\ LeftIndexIsRemote /\ Readers /\ Flusher

\* The inductive invariant behind the safety theorems.
Inv == Locking /\ Reach /\ Spawned

\* The empty stage of a first mount satisfies Inv.
LEMMA InitInv == Init => Inv
BY DEF Init, Inv, Locking, Reach, DataOK, LockHeld, Migrated, Unpublished, NoAckedBlockLost,
       LeftIndexIsRemote, Readers, Flusher, Down, Spawned

\* Every step preserves the discipline of the per-key locks.
LEMMA NextLocking == Inv /\ [Next]_vars => Locking'
<1> SUFFICES ASSUME Inv, [Next]_vars PROVE Locking'
  BY Zenon
<1> USE DEF Inv, Locking, DataOK, LockHeld, Migrated, Unpublished, Down, vars, disk, stageVars,
            migVars, flushVars, mountVars, history
<1>1. ASSUME NEW k \in Keys, StageReserve(k) PROVE Locking'
  BY <1>1 DEF StageReserve
<1>2. ASSUME NEW k \in Keys, StageNoSpace(k) PROVE Locking'
  BY <1>2 DEF StageNoSpace, Spawned
<1>3. ASSUME NEW k \in Keys, StageCreateTmp(k) PROVE Locking'
  BY <1>3 DEF StageCreateTmp
<1>4. ASSUME NEW k \in Keys, StageWriteFails(k) PROVE Locking'
  BY <1>4 DEF StageWriteFails
<1>5. ASSUME NEW k \in Keys, StageRename(k) PROVE Locking'
  BY <1>5 DEF StageRename
<1>6. ASSUME NEW k \in Keys, StageInsert(k) PROVE Locking'
  BY <1>6 DEF StageInsert, Spawned
<1>7. ASSUME NEW k \in Keys, Evict(k) PROVE Locking'
  BY <1>7 DEF Evict, OnEvict, Spawned
<1>8. ASSUME NEW p \in Procs, NEW k \in Keys, MigrateLock(p, k) PROVE Locking'
  <2>1. CASE k \in staged_index
    BY <1>8, <2>1 DEF MigrateLock, IsCurrent
  <2>2. CASE k \notin staged_index /\ p # "flush"
    <3>1. /\ mig[p][k] = "lock"
          /\ mig' = [mig EXCEPT ![p][k] = "off"]
          /\ pressure' = PressureAfter(p)
          /\ UNCHANGED <<disk, stageVars, lock, flushVars, rd, mountVars,
                         history>>
      BY <1>8, <2>2, Zenon DEF MigrateLock, MigrateOk, Off, IsCurrent
    <3> QED
      BY <3>1
  <2>3. CASE k \notin staged_index /\ p = "flush"
    BY <1>8, <2>3 DEF MigrateLock, MigrateOk, Off, OnEvict, IsCurrent,
                      PressureAfter
  <2> QED
    BY <2>1, <2>2, <2>3, Zenon
<1>9. ASSUME NEW p \in Procs, NEW k \in Keys, UploadOk(p, k) PROVE Locking'
  BY <1>9 DEF UploadOk
<1>10. ASSUME NEW p \in Procs, NEW k \in Keys, UploadFails(p, k) PROVE Locking'
  BY <1>10 DEF UploadFails, MigrateErr, Off
<1>11. ASSUME NEW p \in Procs, NEW k \in Keys, DeleteOk(p, k) PROVE Locking'
  BY <1>11 DEF DeleteOk
<1>12. ASSUME NEW p \in Procs, NEW k \in Keys, DeleteFails(p, k) PROVE Locking'
  BY <1>12 DEF DeleteFails, MigrateErr, Off
<1>13. ASSUME NEW p \in Procs, NEW k \in Keys, Unindex(p, k) PROVE Locking'
  BY <1>13 DEF Unindex, MigrateOk, Off, OnEvict, Spawned
<1>14. ASSUME NEW k \in Keys, FlushKey(k) PROVE Locking'
  BY <1>14 DEF FlushKey, MigrateOk, Off, OnEvict, Spawned
<1>15. ASSUME NEW T \in Targets, FlushStart(T) PROVE Locking'
  BY <1>15 DEF FlushStart
<1>16. CASE FlushDone
  BY <1>16 DEF FlushDone
<1>17. ASSUME NEW k \in Keys, Read(k) PROVE Locking'
  BY <1>17 DEF Read, ReadStart, ReadLocal, ReadConfirm, ReadUnavailable,
        RemoteConfirmed, Freed
<1>18. CASE BeginDraining \/ Cancel
  BY <1>18 DEF BeginDraining, Cancel
<1>19. ASSUME NEW p \in Tasks, NEW k \in Keys, CancelTask(p, k) PROVE Locking'
  BY <1>19 DEF CancelTask, Off, PressureAfter
<1>20. CASE Crash
  BY <1>20 DEF Crash
<1>21. CASE Recover
  BY <1>21, FS_CardinalityType, FS_Subset, KeysFinite DEF Recover, RecoveryTasks
<1>22. CASE RecoverRefused
  BY <1>22 DEF RecoverRefused
<1>23. CASE UNCHANGED vars
  BY <1>23
<1> QED
  BY <1>1, <1>2, <1>3, <1>4, <1>5, <1>6, <1>7, <1>8, <1>9, <1>10, <1>11,
     <1>12, <1>13, <1>14, <1>15, <1>16, <1>17, <1>18, <1>19, <1>20, <1>21,
     <1>22, <1>23, Zenon DEF Next, Stage, MigrateStep

\* Every step keeps every acknowledged block within reach.
LEMMA NextReach == Inv /\ [Next]_vars => Reach'
<1> SUFFICES ASSUME Inv, [Next]_vars PROVE Reach'
  BY Zenon
<1> USE DEF Inv, Locking, Reach, DataOK, Migrated, Unpublished, Down, NoAckedBlockLost,
            LeftIndexIsRemote, Readers, Flusher, vars, disk, stageVars,
            migVars, flushVars, mountVars, history
<1>1. ASSUME NEW k \in Keys, StageReserve(k) PROVE Reach'
  BY <1>1 DEF StageReserve
<1>2. ASSUME NEW k \in Keys, StageNoSpace(k) PROVE Reach'
  BY <1>2 DEF StageNoSpace
<1>3. ASSUME NEW k \in Keys, StageCreateTmp(k) PROVE Reach'
  BY <1>3 DEF StageCreateTmp
<1>4. ASSUME NEW k \in Keys, StageWriteFails(k) PROVE Reach'
  BY <1>4 DEF StageWriteFails
<1>5. ASSUME NEW k \in Keys, StageRename(k) PROVE Reach'
  BY <1>5 DEF StageRename
<1>6. ASSUME NEW k \in Keys, StageInsert(k) PROVE Reach'
  BY <1>6 DEF StageInsert
<1>7. ASSUME NEW k \in Keys, Evict(k) PROVE Reach'
  BY <1>7 DEF Evict, OnEvict
<1>8. ASSUME NEW p \in Procs, NEW k \in Keys, MigrateLock(p, k) PROVE Reach'
  <2>1. CASE k \in staged_index
    BY <1>8, <2>1 DEF MigrateLock, IsCurrent
  <2>2. CASE k \notin staged_index /\ p # "flush"
    <3>1. /\ mig[p][k] = "lock"
          /\ mig' = [mig EXCEPT ![p][k] = "off"]
          /\ pressure' = PressureAfter(p)
          /\ UNCHANGED <<disk, stageVars, lock, flushVars, rd, mountVars,
                         history>>
      BY <1>8, <2>2, Zenon DEF MigrateLock, MigrateOk, Off, IsCurrent
    <3> QED
      BY <3>1
  <2>3. CASE k \notin staged_index /\ p = "flush"
    BY <1>8, <2>3 DEF MigrateLock, MigrateOk, Off, OnEvict, IsCurrent,
                      PressureAfter
  <2> QED
    BY <2>1, <2>2, <2>3, Zenon
<1>9. ASSUME NEW p \in Procs, NEW k \in Keys, UploadOk(p, k) PROVE Reach'
  BY <1>9 DEF UploadOk
<1>10. ASSUME NEW p \in Procs, NEW k \in Keys, UploadFails(p, k) PROVE Reach'
  BY <1>10 DEF UploadFails, MigrateErr, Off
<1>11. ASSUME NEW p \in Procs, NEW k \in Keys, DeleteOk(p, k) PROVE Reach'
  BY <1>11 DEF DeleteOk
<1>12. ASSUME NEW p \in Procs, NEW k \in Keys, DeleteFails(p, k) PROVE Reach'
  BY <1>12 DEF DeleteFails, MigrateErr, Off
<1>13. ASSUME NEW p \in Procs, NEW k \in Keys, Unindex(p, k) PROVE Reach'
  BY <1>13 DEF Unindex, MigrateOk, Off, OnEvict, Freed, PressureAfter
<1>14. ASSUME NEW k \in Keys, FlushKey(k) PROVE Reach'
  BY <1>14 DEF FlushKey, MigrateOk, Off, OnEvict, PressureAfter
<1>15. ASSUME NEW T \in Targets, FlushStart(T) PROVE Reach'
  BY <1>15 DEF FlushStart
<1>16. CASE FlushDone
  BY <1>16 DEF FlushDone
<1>17. ASSUME NEW k \in Keys, Read(k) PROVE Reach'
  BY <1>17 DEF Read, ReadStart, ReadLocal, ReadConfirm, ReadUnavailable,
        RemoteConfirmed, Freed
<1>18. CASE BeginDraining \/ Cancel
  BY <1>18 DEF BeginDraining, Cancel
<1>19. ASSUME NEW p \in Tasks, NEW k \in Keys, CancelTask(p, k) PROVE Reach'
  BY <1>19 DEF CancelTask, Off, PressureAfter
<1>20. CASE Crash
  BY <1>20 DEF Crash
<1>21. CASE Recover
  BY <1>21, FS_CardinalityType, FS_Subset, KeysFinite DEF Recover, RecoveryTasks
<1>22. CASE RecoverRefused
  BY <1>22 DEF RecoverRefused
<1>23. CASE UNCHANGED vars
  BY <1>23
<1> QED
  BY <1>1, <1>2, <1>3, <1>4, <1>5, <1>6, <1>7, <1>8, <1>9, <1>10, <1>11,
     <1>12, <1>13, <1>14, <1>15, <1>16, <1>17, <1>18, <1>19, <1>20, <1>21,
     <1>22, <1>23, Zenon DEF Next, Stage, MigrateStep

\* Every step preserves Spawned.
LEMMA NextSpawned == Inv /\ [Next]_vars => Spawned'
<1> SUFFICES ASSUME Inv, [Next]_vars PROVE Spawned'
  BY Zenon
<1> USE DEF Inv, Locking, DataOK, Unpublished, Down, Spawned, vars, disk, stageVars,
            migVars, flushVars, mountVars, history
<1>1. ASSUME NEW k \in Keys, StageReserve(k) PROVE Spawned'
  BY <1>1 DEF StageReserve
<1>2. ASSUME NEW k \in Keys, StageNoSpace(k) PROVE Spawned'
  BY <1>2 DEF StageNoSpace
<1>3. ASSUME NEW k \in Keys, StageCreateTmp(k) PROVE Spawned'
  BY <1>3 DEF StageCreateTmp
<1>4. ASSUME NEW k \in Keys, StageWriteFails(k) PROVE Spawned'
  BY <1>4 DEF StageWriteFails
<1>5. ASSUME NEW k \in Keys, StageRename(k) PROVE Spawned'
  BY <1>5 DEF StageRename
<1>6. ASSUME NEW k \in Keys, StageInsert(k) PROVE Spawned'
  BY <1>6 DEF StageInsert
<1>7. ASSUME NEW k \in Keys, Evict(k) PROVE Spawned'
  BY <1>7 DEF Evict, OnEvict
<1>8. ASSUME NEW p \in Procs, NEW k \in Keys, MigrateLock(p, k) PROVE Spawned'
  <2>1. CASE k \in staged_index
    BY <1>8, <2>1 DEF MigrateLock, IsCurrent
  <2>2. CASE k \notin staged_index /\ p # "flush"
    <3>1. /\ mig[p][k] = "lock"
          /\ mig' = [mig EXCEPT ![p][k] = "off"]
          /\ pressure' = PressureAfter(p)
          /\ UNCHANGED <<disk, stageVars, lock, flushVars, rd, mountVars,
                         history>>
      BY <1>8, <2>2, Zenon DEF MigrateLock, MigrateOk, Off, IsCurrent
    <3>2. Spawned'
      BY <3>1 DEF PressureAfter
    <3> QED
      BY <3>1, <3>2
  <2>3. CASE k \notin staged_index /\ p = "flush"
    BY <1>8, <2>3 DEF MigrateLock, MigrateOk, Off, OnEvict, IsCurrent,
                      PressureAfter
  <2> QED
    BY <2>1, <2>2, <2>3, Zenon
<1>9. ASSUME NEW p \in Procs, NEW k \in Keys, UploadOk(p, k) PROVE Spawned'
  BY <1>9 DEF UploadOk
<1>10. ASSUME NEW p \in Procs, NEW k \in Keys, UploadFails(p, k) PROVE Spawned'
  BY <1>10 DEF UploadFails, MigrateErr, Off
<1>11. ASSUME NEW p \in Procs, NEW k \in Keys, DeleteOk(p, k) PROVE Spawned'
  BY <1>11 DEF DeleteOk
<1>12. ASSUME NEW p \in Procs, NEW k \in Keys, DeleteFails(p, k) PROVE Spawned'
  BY <1>12 DEF DeleteFails, MigrateErr, Off
<1>13. ASSUME NEW p \in Procs, NEW k \in Keys, Unindex(p, k) PROVE Spawned'
  BY <1>13 DEF Unindex, MigrateOk, Off, OnEvict, Freed, PressureAfter
<1>14. ASSUME NEW k \in Keys, FlushKey(k) PROVE Spawned'
  BY <1>14 DEF FlushKey, MigrateOk, Off, OnEvict, PressureAfter
<1>15. ASSUME NEW T \in Targets, FlushStart(T) PROVE Spawned'
  BY <1>15 DEF FlushStart
<1>16. CASE FlushDone
  BY <1>16 DEF FlushDone
<1>17. ASSUME NEW k \in Keys, Read(k) PROVE Spawned'
  BY <1>17 DEF Read, ReadStart, ReadLocal, ReadConfirm, ReadUnavailable,
        RemoteConfirmed, Freed
<1>18. CASE BeginDraining \/ Cancel
  BY <1>18 DEF BeginDraining, Cancel
<1>19. ASSUME NEW p \in Tasks, NEW k \in Keys, CancelTask(p, k) PROVE Spawned'
  BY <1>19 DEF CancelTask, Off, PressureAfter
<1>20. CASE Crash
  BY <1>20 DEF Crash
<1>21. CASE Recover
  BY <1>21, FS_CardinalityType, FS_Subset, KeysFinite DEF Recover, RecoveryTasks
<1>22. CASE RecoverRefused
  BY <1>22 DEF RecoverRefused
<1>23. CASE UNCHANGED vars
  BY <1>23
<1> QED
  BY <1>1, <1>2, <1>3, <1>4, <1>5, <1>6, <1>7, <1>8, <1>9, <1>10, <1>11,
     <1>12, <1>13, <1>14, <1>15, <1>16, <1>17, <1>18, <1>19, <1>20, <1>21,
     <1>22, <1>23, Zenon DEF Next, Stage, MigrateStep

\* Every step preserves Inv.
LEMMA NextInv == Inv /\ [Next]_vars => Inv'
BY NextLocking, NextReach, NextSpawned, Zenon DEF Inv

\* The Boolean variables stay Boolean.
LEMMA NextFlags == FlagsOK /\ [Next]_vars => FlagsOK'
<1> SUFFICES ASSUME FlagsOK, [Next]_vars PROVE FlagsOK'
  BY Zenon
<1> USE DEF FlagsOK, migVars, flushVars, mountVars
<1>1. ASSUME NEW k \in Keys, Stage(k) PROVE FlagsOK'
  BY <1>1, Zenon DEF Stage, StageReserve, StageNoSpace, StageCreateTmp,
     StageWriteFails, StageRename, StageInsert
<1>2. ASSUME NEW p \in Procs, NEW k \in Keys, MigrateStep(p, k) PROVE FlagsOK'
  BY <1>2, Zenon DEF MigrateStep, MigrateLock, UploadOk, UploadFails, DeleteOk,
     DeleteFails, Unindex, MigrateOk, MigrateErr, PressureAfter
<1>3. ASSUME NEW k \in Keys, FlushKey(k) PROVE FlagsOK'
  BY <1>3, Zenon DEF FlushKey, MigrateOk, PressureAfter
<1>4. ASSUME NEW k \in Keys, Evict(k) \/ Read(k) PROVE FlagsOK'
  BY <1>4, Zenon DEF Evict, Read, ReadStart, ReadLocal, ReadConfirm,
     ReadUnavailable
<1>5. ASSUME NEW p \in Tasks, NEW k \in Keys, CancelTask(p, k) PROVE FlagsOK'
  BY <1>5, Zenon DEF CancelTask, PressureAfter
<1>6. ASSUME NEW T \in Targets, FlushStart(T) PROVE FlagsOK'
  BY <1>6, Zenon DEF FlushStart
<1>7. CASE FlushDone \/ BeginDraining \/ Cancel
  BY <1>7, Zenon DEF FlushDone, BeginDraining, Cancel
<1>8. CASE Crash \/ Recover \/ RecoverRefused
  BY <1>8, Zenon DEF Crash, Recover, RecoverRefused
<1>9. CASE UNCHANGED vars
  BY <1>9, Zenon DEF vars
<1> QED
  BY <1>1, <1>2, <1>3, <1>4, <1>5, <1>6, <1>7, <1>8, <1>9, Zenon DEF Next

\* Inv and the typing of the flags hold in every reachable state.
THEOREM Invariant == Spec => [](Inv /\ FlagsOK)
<1>1. Init => FlagsOK
  BY Zenon DEF Init, FlagsOK
<1> QED
  BY <1>1, InitInv, NextInv, NextFlags, PTL DEF Spec

\* Type correctness.
THEOREM TypeCorrect == Spec => []TypeOK
<1>1. Inv /\ FlagsOK => TypeOK
  BY Zenon DEF Inv, Locking, Reach, TypeOK
<1> QED
  BY <1>1, Invariant, PTL

\* A block acknowledged by `stage` is never lost, whatever the number of
\* blocks, tasks, failures and restarts.
THEOREM AckedNeverLost == Spec => []NoAckedBlockLost
<1>1. Inv => NoAckedBlockLost
  BY Zenon DEF Inv, Reach
<1> QED
  BY <1>1, Invariant, PTL

\* An Ok from flush_slice or flush_all means remote durability.
THEOREM FlushIsDurable == Spec => []FlushedIsRemote
<1>1. Inv => FlushedIsRemote
  BY Zenon DEF Inv, Reach, Flusher, FlushedIsRemote
<1> QED
  BY <1>1, Invariant, PTL

\* Readers racing migrations are never told that a block is lost.
THEOREM ReadersSafe == Spec => []ReaderNeverLoses
<1>1. Inv => ReaderNeverLoses
  BY Zenon DEF Inv, Reach, Readers, ReaderNeverLoses
<1> QED
  BY <1>1, Invariant, PTL
-----------------------------------------------------------------------------
(***************************************************************************)
(* Stage space                                                             *)
(***************************************************************************)
\* Every staged file is a staged entry or a reservation in flight, and both
\* are accounted for.
SpaceInv ==
    /\ SpaceAccounted
    /\ StageBounded
    /\ up = "up" => local \subseteq staged_index \cup InFlight

\* A set covered by two finite sets is no larger than both together.
LEMMA CoverBound ==
    ASSUME NEW S, NEW T, NEW L, IsFiniteSet(S), IsFiniteSet(T),
           L \subseteq S \cup T
    PROVE  Cardinality(L) <= Cardinality(S) + Cardinality(T)
<1>1. /\ IsFiniteSet(S \cup T) /\ IsFiniteSet(S \cap T)
      /\ Cardinality(S \cup T) = Cardinality(S) + Cardinality(T)
                                 - Cardinality(S \cap T)
  BY FS_Union, FS_Subset, Zenon
<1>2. /\ Cardinality(S) \in Nat /\ Cardinality(T) \in Nat
      /\ Cardinality(S \cap T) \in Nat
  BY <1>1, FS_CardinalityType, Zenon
<1>3. IsFiniteSet(L) /\ Cardinality(L) <= Cardinality(S \cup T)
  BY <1>1, FS_Subset, Zenon
<1>4. Cardinality(L) \in Nat
  BY <1>3, FS_CardinalityType, Zenon
<1> QED
  BY <1>1, <1>2, <1>3, <1>4

\* Subsets of Keys are finite.
LEMMA KeysSubsets ==
    ASSUME NEW S \in SUBSET Keys
    PROVE  IsFiniteSet(S) /\ Cardinality(S) \in Nat
BY KeysFinite, FS_Subset, FS_CardinalityType, Zenon

\* Every step preserves SpaceInv.
LEMMA NextSpace == Inv /\ Inv' /\ SpaceInv /\ [Next]_vars => SpaceInv'
<1> SUFFICES ASSUME Inv, Inv', SpaceInv, [Next]_vars PROVE SpaceInv'
  BY Zenon
<1>a. /\ staged_index \in SUBSET Keys /\ InFlight \in SUBSET Keys
      /\ local \in SUBSET Keys /\ staged_bytes \in Int
  BY Zenon DEF Inv, Locking, DataOK, InFlight
<1>b. /\ IsFiniteSet(staged_index) /\ IsFiniteSet(InFlight)
      /\ Cardinality(staged_index) \in Nat /\ Cardinality(InFlight) \in Nat
  BY <1>a, KeysSubsets, Zenon
<1>c. ASSUME SpaceAccounted', staged_bytes' <= MaxStage, up' = "up",
             local' \subseteq staged_index' \cup InFlight'
      PROVE  SpaceInv'
  <2>1. DataOK'
    BY Zenon DEF Inv, Locking, Reach
  <2>2. StageBounded'
    <3>1. staged_index' \in SUBSET Keys /\ InFlight' \in SUBSET Keys
      BY <2>1, Zenon DEF DataOK, InFlight
    <3>2. /\ IsFiniteSet(staged_index') /\ IsFiniteSet(InFlight')
          /\ Cardinality(staged_index') \in Nat
          /\ Cardinality(InFlight') \in Nat
      BY <3>1, KeysSubsets, Zenon
    <3>3. Cardinality(local') <= Cardinality(staged_index') + Cardinality(InFlight')
      BY <1>c, <3>2, CoverBound, Zenon
    <3>4. Cardinality(local') \in Nat
      BY <2>1, KeysSubsets, Zenon DEF DataOK
    <3> QED
      BY <1>c, <3>2, <3>3, <3>4, MaxStageType DEF SpaceAccounted, StageBounded
  <2> QED
    BY <1>c, <2>2, Zenon DEF SpaceInv
\* A step that leaves the accounting alone and adds no file.
<1>d. ASSUME UNCHANGED <<staged_index, stg, staged_bytes, up>>,
             local' \subseteq local
      PROVE  SpaceInv'
  <2>1. InFlight' = InFlight
    BY <1>d, Zenon DEF InFlight
  <2>2. Cardinality(local') <= Cardinality(local)
    BY <1>a, <1>d, KeysSubsets, FS_Subset, Zenon
  <2>3. Cardinality(local') \in Nat /\ Cardinality(local) \in Nat
    BY <1>a, <1>d, KeysSubsets, Zenon
  <2> QED
    BY <1>d, <2>1, <2>2, <2>3, MaxStageType
       DEF SpaceInv, SpaceAccounted, StageBounded
<1>1. ASSUME NEW k \in Keys, StageReserve(k) PROVE SpaceInv'
  <2>1. InFlight' = InFlight \cup {k} /\ k \notin InFlight
    BY <1>1 DEF StageReserve, InFlight, Inv, Locking, DataOK
  <2>2. Cardinality(InFlight') = Cardinality(InFlight) + 1
    BY <1>b, <2>1, FS_AddElement, Zenon
  <2>3. SpaceAccounted' /\ staged_bytes' <= MaxStage /\ up' = "up"
    BY <1>1, <1>a, <1>b, <2>2, MaxStageType
       DEF StageReserve, Fits, SpaceInv, SpaceAccounted, mountVars
  <2>4. local' \subseteq staged_index' \cup InFlight'
    BY <1>1, <2>1, Zenon DEF StageReserve, SpaceInv, disk
  <2> QED
    BY <2>3, <2>4, <1>c, Zenon
<1>2. ASSUME NEW k \in Keys, StageWriteFails(k) PROVE SpaceInv'
  <2>1. InFlight' = InFlight \ {k} /\ k \in InFlight
    BY <1>2, Zenon DEF StageWriteFails, InFlight, Inv, Locking, DataOK
  <2>2. Cardinality(InFlight') = Cardinality(InFlight) - 1
    BY <1>b, <2>1, FS_RemoveElement, Zenon
  <2>3. SpaceAccounted' /\ staged_bytes' <= MaxStage /\ up' = "up"
    BY <1>2, <1>a, <1>b, <2>2, MaxStageType
       DEF StageWriteFails, SpaceInv, SpaceAccounted, StageBounded, mountVars
  <2>4. local' \subseteq staged_index' \cup InFlight'
    BY <1>2, <2>1, Zenon DEF StageWriteFails, SpaceInv, Inv, Locking, Unpublished
  <2> QED
    BY <2>3, <2>4, <1>c, Zenon
<1>3. ASSUME NEW k \in Keys, StageCreateTmp(k) \/ StageRename(k) PROVE SpaceInv'
  <2>1. InFlight' = InFlight /\ k \in InFlight
    BY <1>3 DEF StageCreateTmp, StageRename, InFlight, Inv, Locking, DataOK
  <2>2. SpaceAccounted' /\ staged_bytes' <= MaxStage /\ up' = "up"
    BY <1>3, <2>1, Zenon DEF StageCreateTmp, StageRename, SpaceInv, SpaceAccounted,
                      StageBounded, mountVars
  <2>3. local' \subseteq staged_index' \cup InFlight'
    BY <1>3, <2>1, Zenon DEF StageCreateTmp, StageRename, SpaceInv
  <2> QED
    BY <2>2, <2>3, <1>c, Zenon
<1>4. ASSUME NEW k \in Keys, StageInsert(k) PROVE SpaceInv'
  <2>1. /\ InFlight' = InFlight \ {k} /\ k \in InFlight
        /\ staged_index' = staged_index \cup {k} /\ k \notin staged_index
    BY <1>4 DEF StageInsert, InFlight, Inv, Locking, DataOK, Unpublished
  <2>2. /\ Cardinality(InFlight') = Cardinality(InFlight) - 1
        /\ Cardinality(staged_index') = Cardinality(staged_index) + 1
    BY <1>b, <2>1, FS_RemoveElement, FS_AddElement, Zenon
  <2>3. SpaceAccounted' /\ staged_bytes' <= MaxStage /\ up' = "up"
    BY <1>4, <1>a, <1>b, <2>2
       DEF StageInsert, SpaceInv, SpaceAccounted, StageBounded, mountVars
  <2>4. local' \subseteq staged_index' \cup InFlight'
    BY <1>4, <2>1, Zenon DEF StageInsert, SpaceInv, disk
  <2> QED
    BY <2>3, <2>4, <1>c, Zenon
\* An entry leaves the index with its space, after its file.
<1>5. ASSUME NEW k \in Keys, k \notin local, up = "up",
             UNCHANGED <<local, stg, up>>,
             staged_index' = staged_index \ {k},
             staged_bytes' = staged_bytes - Freed(k)
      PROVE  SpaceInv'
  <2>1. InFlight' = InFlight
    BY <1>5, Zenon DEF InFlight
  <2>2. Cardinality(staged_index') = Cardinality(staged_index) - Freed(k)
    <3>1. Cardinality(staged_index \ {k}) =
          IF k \in staged_index THEN Cardinality(staged_index) - 1
          ELSE Cardinality(staged_index)
      BY <1>b, FS_RemoveElement, Zenon
    <3> QED
      BY <1>5, <1>b, <3>1 DEF Freed
  <2>3. SpaceAccounted' /\ staged_bytes' <= MaxStage
    BY <1>5, <1>a, <1>b, <2>1, <2>2, MaxStageType
       DEF SpaceInv, SpaceAccounted, StageBounded, Freed
  <2>4. local' \subseteq staged_index' \cup InFlight'
    BY <1>5, <2>1, Zenon DEF SpaceInv
  <2> QED
    BY <1>5, <2>3, <2>4, <1>c, Zenon
<1>6. ASSUME NEW p \in Procs, NEW k \in Keys, Unindex(p, k) PROVE SpaceInv'
  BY <1>6, <1>5, Zenon DEF Unindex, Inv, Locking, Migrated, disk, mountVars
<1>7. ASSUME NEW k \in Keys, Read(k) PROVE SpaceInv'
  <2>1. CASE ReadConfirm(k) /\ RemoteConfirmed(k)
    BY <2>1, <1>5, Zenon DEF ReadConfirm, Inv, Reach, Readers, disk, mountVars
  <2>2. CASE ~(ReadConfirm(k) /\ RemoteConfirmed(k))
    BY <1>7, <2>2, <1>d, Zenon DEF Read, ReadStart, ReadLocal, ReadConfirm,
       ReadUnavailable, disk, stageVars, mountVars
  <2> QED
    BY <2>1, <2>2, Zenon
<1>8. CASE Recover
  <2>1. InFlight' = {} /\ staged_index' = local
    BY <1>8, Zenon DEF Recover, Inv, Locking, Down, InFlight
  <2>2. Cardinality(InFlight') = 0 /\ Cardinality(local) \in Nat
    BY <2>1, <1>a, FS_EmptySet, KeysSubsets, Zenon
  <2>3. SpaceAccounted' /\ staged_bytes' <= MaxStage /\ up' = "up"
    BY <1>8, <2>1, <2>2 DEF Recover, SpaceAccounted, SpaceInv, StageBounded
  <2>4. local' \subseteq staged_index' \cup InFlight'
    BY <1>8, <2>1, Zenon DEF Recover, disk
  <2> QED
    BY <2>3, <2>4, <1>c, Zenon
<1>9. CASE Crash
  BY <1>9, MaxStageType DEF Crash, SpaceInv, SpaceAccounted, StageBounded, disk
<1>10. CASE RecoverRefused
  BY <1>10, Zenon DEF RecoverRefused, SpaceInv, SpaceAccounted, StageBounded, disk,
               stageVars
<1>11. CASE \/ FlushDone \/ BeginDraining \/ Cancel \/ UNCHANGED vars
            \/ \E T \in Targets : FlushStart(T)
            \/ \E p \in Tasks, k \in Keys : CancelTask(p, k)
            \/ \E k \in Keys : StageNoSpace(k) \/ Evict(k) \/ FlushKey(k)
  BY <1>11, <1>d, Zenon DEF FlushDone, BeginDraining, Cancel, FlushStart, CancelTask,
     StageNoSpace, Evict, FlushKey, vars, disk, stageVars, mountVars
<1>12. ASSUME NEW p \in Procs, NEW k \in Keys,
              \/ MigrateLock(p, k) \/ UploadOk(p, k) \/ UploadFails(p, k)
              \/ DeleteOk(p, k) \/ DeleteFails(p, k)
       PROVE  SpaceInv'
  BY <1>12, <1>d, Zenon DEF MigrateLock, UploadOk, UploadFails, DeleteOk, DeleteFails,
     disk, stageVars, mountVars
<1> QED
  BY <1>1, <1>2, <1>3, <1>4, <1>6, <1>7, <1>8, <1>9, <1>10, <1>11, <1>12, Zenon
     DEF Next, Stage, MigrateStep

\* The accounting of stage space is exact and the stage directory never
\* outgrows max_stage_size, for every number of blocks and every stage size.
THEOREM StageSpace == Spec => [](SpaceAccounted /\ StageBounded)
<1>1. Init => SpaceInv
  <2> SUFFICES ASSUME Init PROVE SpaceInv
    BY Zenon
  <2>1. InFlight = {} /\ staged_index = {} /\ local = {} /\ staged_bytes = 0
    BY Zenon DEF Init, InFlight
  <2>2. Cardinality({}) = 0
    BY FS_EmptySet, Zenon
  <2> QED
    BY <2>1, <2>2, MaxStageType DEF SpaceInv, SpaceAccounted, StageBounded
<1>2. SpaceInv => SpaceAccounted /\ StageBounded
  BY Zenon DEF SpaceInv
<1> QED
  BY <1>1, <1>2, Invariant, NextSpace, PTL DEF Spec
-----------------------------------------------------------------------------
(***************************************************************************)
(* Files and entries                                                       *)
(***************************************************************************)
\* Every step preserves StagedHasFile.
LEMMA NextStagedHasFile ==
    Inv /\ StagedHasFile /\ [Next]_vars => StagedHasFile'
<1> SUFFICES ASSUME Inv, StagedHasFile, [Next]_vars PROVE StagedHasFile'
  BY Zenon
<1> USE DEF StagedHasFile, Inv, Locking, DataOK, disk, stageVars, migVars, mountVars
<1>1. ASSUME NEW k \in Keys, Stage(k) PROVE StagedHasFile'
  <2>1. CASE StageReserve(k) \/ StageNoSpace(k) \/ StageCreateTmp(k)
    BY <2>1 DEF StageReserve, StageNoSpace, StageCreateTmp, Spawned
  <2>2. CASE StageWriteFails(k) \/ StageRename(k)
    BY <2>2 DEF StageWriteFails, StageRename, Unpublished
  <2>3. CASE StageInsert(k)
    BY <2>3 DEF StageInsert, Unpublished, Spawned
  <2> QED
    BY <1>1, <2>1, <2>2, <2>3, Zenon DEF Stage
<1>2. ASSUME NEW k \in Keys, Evict(k) PROVE StagedHasFile'
  BY <1>2 DEF Evict, OnEvict, Spawned
<1>3. ASSUME NEW k \in Keys, FlushKey(k) PROVE StagedHasFile'
  BY <1>3 DEF FlushKey, MigrateOk, Off, OnEvict, Spawned
<1>4. ASSUME NEW k \in Keys, Read(k) PROVE StagedHasFile'
  BY <1>4 DEF Read, ReadStart, ReadLocal, ReadConfirm, ReadUnavailable
<1>5. ASSUME NEW p \in Procs, NEW k \in Keys, MigrateLock(p, k)
      PROVE  StagedHasFile'
  BY <1>5 DEF MigrateLock, MigrateOk, Off, OnEvict, IsCurrent, Spawned
<1>6. ASSUME NEW p \in Procs, NEW k \in Keys, UploadOk(p, k)
      PROVE  StagedHasFile'
  BY <1>6, Zenon DEF UploadOk
<1>7. ASSUME NEW p \in Procs, NEW k \in Keys,
             UploadFails(p, k) \/ DeleteFails(p, k)
      PROVE  StagedHasFile'
  BY <1>7 DEF UploadFails, DeleteFails, MigrateErr, Off
<1>8. ASSUME NEW p \in Procs, NEW k \in Keys, DeleteOk(p, k)
      PROVE  StagedHasFile'
  BY <1>8, Zenon DEF DeleteOk
<1>9. ASSUME NEW p \in Procs, NEW k \in Keys, Unindex(p, k)
      PROVE  StagedHasFile'
  BY <1>9 DEF Unindex, MigrateOk, Off, OnEvict, Spawned
<1>10. CASE \/ FlushDone \/ BeginDraining \/ Cancel \/ UNCHANGED vars
            \/ \E T \in Targets : FlushStart(T)
            \/ \E p \in Tasks, k \in Keys : CancelTask(p, k)
  <2>1. CASE FlushDone \/ \E T \in Targets : FlushStart(T)
    BY <2>1 DEF FlushDone, FlushStart
  <2>2. CASE BeginDraining \/ Cancel \/ UNCHANGED vars
    BY <2>2 DEF BeginDraining, Cancel, vars
  <2>3. CASE \E p \in Tasks, k \in Keys : CancelTask(p, k)
    BY <2>3 DEF CancelTask
  <2> QED
    BY <1>10, <2>1, <2>2, <2>3, Zenon
<1>11. CASE Crash \/ Recover \/ RecoverRefused
  BY <1>11, Zenon DEF Crash, Recover, RecoverRefused
<1> QED
  BY <1>1, <1>2, <1>3, <1>4, <1>5, <1>6, <1>7, <1>8, <1>9, <1>10, <1>11, Zenon
     DEF Next, MigrateStep

\* Until tasks are cancelled, an entry without a file is in the hands of the
\* migration that deleted the file.
THEOREM EntriesHaveFiles == Spec => []StagedHasFile
<1>1. Init => StagedHasFile
  BY Zenon DEF Init, StagedHasFile
<1> QED
  BY <1>1, Invariant, NextStagedHasFile, PTL DEF Spec

\* The staged file of an acknowledged block disappears only when the object
\* store holds the block.
THEOREM DeletesAreConfirmed == Spec => DeleteOnlyConfirmed
<1> DEFINE A == \A k \in acked : k \in local /\ k \notin local' => k \in remote
<1>1. Inv /\ [Next]_vars => [A]_vars
  <2> SUFFICES ASSUME Inv, Next PROVE A
    BY Zenon
  <2>1. ASSUME NEW p \in Procs, NEW k \in Keys, MigrateStep(p, k) PROVE A
    BY <2>1, Zenon DEF MigrateStep, MigrateLock, UploadOk, UploadFails, DeleteOk,
       DeleteFails, Unindex, Inv, Locking, Migrated, disk
  <2>2. CASE local \subseteq local'
    BY <2>2, Zenon
  <2>3. \/ local \subseteq local'
        \/ \E p \in Procs, k \in Keys : MigrateStep(p, k)
    BY Zenon DEF Next, Stage, StageReserve, StageNoSpace, StageCreateTmp,
       StageWriteFails, StageRename, StageInsert, Evict, FlushKey, Read,
       ReadStart, ReadLocal, ReadConfirm, ReadUnavailable, CancelTask,
       FlushStart, FlushDone, BeginDraining, Cancel, Crash, Recover,
       RecoverRefused, disk
  <2> QED
    BY <2>1, <2>2, <2>3, Zenon
<1> QED
  BY <1>1, Invariant, PTL DEF Spec, DeleteOnlyConfirmed
-----------------------------------------------------------------------------
(***************************************************************************)
(* Refinement                                                              *)
(***************************************************************************)
\* Every step of the cache is a step, or a stutter, of BlockDurability.
LEMMA StepRefines ==
    Inv /\ [Next]_vars => [Abs!Next]_(Abs!vars)
<1> SUFFICES ASSUME Inv, [Next]_vars PROVE [Abs!Next]_(Abs!vars)
  BY Zenon
<1> USE DEF Abs!vars, disk, history
<1>1. ASSUME NEW k \in Keys, StageRename(k) PROVE [Abs!Next]_(Abs!vars)
  <2>1. Abs!Persist(k) \/ UNCHANGED Abs!vars
    BY <1>1, Zenon DEF StageRename, Abs!Persist, Place, Inv, Locking, Unpublished
  <2> QED
    BY <2>1, Zenon DEF Abs!Next
<1>2. ASSUME NEW k \in Keys, StageInsert(k) PROVE [Abs!Next]_(Abs!vars)
  <2>1. Abs!Acknowledge(k)
    BY <1>2, Zenon DEF StageInsert, Abs!Acknowledge, Place, Inv, Locking, Unpublished
  <2> QED
    BY <2>1, Zenon DEF Abs!Next
<1>3. ASSUME NEW p \in Procs, NEW k \in Keys,
             UploadOk(p, k) \/ UploadFails(p, k)
      PROVE  [Abs!Next]_(Abs!vars)
  <2>1. Abs!Upload(k) \/ UNCHANGED Abs!vars
    BY <1>3, Zenon DEF UploadOk, UploadFails, Abs!Upload, Place
  <2> QED
    BY <2>1, Zenon DEF Abs!Next
<1>4. ASSUME NEW p \in Procs, NEW k \in Keys, DeleteOk(p, k)
      PROVE  UNCHANGED Abs!vars
  BY <1>4, Zenon DEF DeleteOk, Place, Inv, Locking, Migrated
<1>5. CASE FlushDone
  <2>1. promised \in SUBSET acked /\ \A k \in promised : Place[k] = "remote"
    BY <1>5, Zenon DEF FlushDone, Inv, Locking, Reach, DataOK, Flusher, Place
  <2>2. Abs!Sync(promised)
    BY <1>5, <2>1, Zenon DEF FlushDone, Abs!Sync, Place
  <2> QED
    BY <2>1, <2>2, Zenon DEF Abs!Next
<1>6. ASSUME NEW p \in Procs, NEW k \in Keys,
             MigrateLock(p, k) \/ DeleteFails(p, k) \/ Unindex(p, k)
      PROVE  UNCHANGED Abs!vars
  BY <1>6, Zenon DEF MigrateLock, DeleteFails, Unindex, Place
<1>7. ASSUME NEW k \in Keys,
             \/ StageReserve(k) \/ StageNoSpace(k) \/ StageCreateTmp(k)
             \/ StageWriteFails(k) \/ Evict(k) \/ FlushKey(k) \/ Read(k)
      PROVE  UNCHANGED Abs!vars
  BY <1>7, Zenon DEF StageReserve, StageNoSpace, StageCreateTmp, StageWriteFails,
     Evict, FlushKey, Read, ReadStart, ReadLocal, ReadConfirm,
     ReadUnavailable, Place
<1>8. CASE \/ BeginDraining \/ Cancel \/ UNCHANGED vars
           \/ Crash \/ Recover \/ RecoverRefused
           \/ \E T \in Targets : FlushStart(T)
           \/ \E p \in Tasks, k \in Keys : CancelTask(p, k)
  BY <1>8, Zenon DEF BeginDraining, Cancel, Crash, Recover, RecoverRefused,
     FlushStart, CancelTask, vars, Place
<1> QED
  BY <1>1, <1>2, <1>3, <1>4, <1>5, <1>6, <1>7, <1>8, Zenon
     DEF Next, Stage, MigrateStep

\* The stage cache implements its abstract specification: no acknowledged
\* block is lost or moves back, and an Ok of a flush covers remote blocks.
THEOREM Refinement == Spec => ImplementsBlockDurability
<1>1. Init => Abs!Init
  BY Zenon DEF Init, Abs!Init, Place
<1> QED
  BY <1>1, Invariant, StepRefines, PTL
     DEF Spec, Abs!Spec, ImplementsBlockDurability
HIDE DEF Tasks, Procs, None, StageSteps, MigSteps, ReadSteps, Holding
-----------------------------------------------------------------------------
(* TaskRegistry. The invariant ties where a task is to what its spawn call,  *)
(* the tracker and the flag of its CompletionGuard say.                      *)

RegistryData ==
    /\ admission \in Spawns \cup {Free}
    /\ sp \in [Spawns -> Steps] /\ task \in [Spawns -> TaskSteps]
    /\ finished \subseteq Spawns /\ handles \subseteq Spawns /\ aborted \subseteq Spawns
    /\ tokens \subseteq Spawns
    /\ drain \in {"open", "closed", "waited"}

\* The mutex is held from the admission to the return, and never once the
\* registry is closed.
Mutex ==
    /\ \A s \in Spawns : sp[s] \in {"admitted", "tracked", "registered"} <=> admission = s
    /\ drain # "open" => ~admitting /\ admission = Free
    /\ ~admitting => drain # "open"

\* Where a task is decides what the spawn call, the tracker and the flag of
\* its CompletionGuard say.
Stages ==
    \A s \in Spawns :
        /\ task[s] = "none" <=> sp[s] \in {"idle", "refused", "admitted"}
        /\ s \in tokens <=> task[s] \notin {"none", "gone"}
        /\ s \in finished <=> task[s] \notin {"none", "running", "ending"}

\* Once the call has registered its task, a live one can be aborted or was.
Reachable ==
    \A s \in Spawns :
        sp[s] \in {"registered", "spawned"} /\ task[s] \in Live => s \in handles \cup aborted

Quiet == drain = "waited" => tokens = {}

\* The inductive invariant.
RegistryInv == RegistryData /\ Mutex /\ Stages /\ Reachable /\ NoHandleLeak /\ Quiet

\* Init is a state of the invariant: nothing was spawned.
LEMMA RegistryInitInv == RegistryInit => RegistryInv
BY SpawnsFinite, Zenon
   DEF RegistryInit, RegistryInv, RegistryData, Mutex, Stages, Reachable, NoHandleLeak, Quiet,
   Steps, TaskSteps, Live

\* Every step of a spawn call, of a task and of the shutdown keeps it.
LEMMA RegistryNextInv == RegistryInv /\ [RegistryNext]_registryVars => RegistryInv'
<1> SUFFICES ASSUME RegistryInv, [RegistryNext]_registryVars PROVE RegistryInv'
  BY Zenon
<1> USE SpawnsFinite
    DEF RegistryInv, RegistryData, Mutex, Stages, Reachable, NoHandleLeak, Quiet, Steps,
    TaskSteps, Live
<1>1. ASSUME NEW s \in Spawns, Refused(s) PROVE RegistryInv'
  BY <1>1 DEF Refused
<1>2. ASSUME NEW s \in Spawns, Admit(s) PROVE RegistryInv'
  BY <1>2 DEF Admit
<1>3. ASSUME NEW s \in Spawns, Track(s) PROVE RegistryInv'
  BY <1>3 DEF Track
<1>4. ASSUME NEW s \in Spawns, Register(s) PROVE RegistryInv'
  BY <1>4 DEF Register, Registered
<1>5. ASSUME NEW s \in Spawns, Return(s) PROVE RegistryInv'
  BY <1>5 DEF Return
<1>6. ASSUME NEW s \in Spawns, Panic(s) \/ End(s) PROVE RegistryInv'
  BY <1>6 DEF Panic, End
<1>7. ASSUME NEW s \in Spawns, SetFinished(s) PROVE RegistryInv'
  BY <1>7 DEF SetFinished
<1>8. ASSUME NEW s \in Spawns, RemoveHandle(s) PROVE RegistryInv'
  BY <1>8 DEF RemoveHandle
<1>9. ASSUME NEW s \in Spawns, Deactivate(s) \/ Complete(s) PROVE RegistryInv'
  BY <1>9 DEF Deactivate, Complete
<1>10. ASSUME NEW s \in Spawns, Release(s) PROVE RegistryInv'
  BY <1>10 DEF Release
<1>11. CASE BeginRegistryDraining
  BY <1>11, Zenon DEF BeginRegistryDraining
<1>12. CASE Wait
  BY <1>12, Zenon DEF Wait
<1>13. CASE AbortAll
  BY <1>13, Zenon DEF AbortAll
<1>14. CASE UNCHANGED registryVars
  BY <1>14, Zenon DEF registryVars
<1> QED
  BY <1>1, <1>2, <1>3, <1>4, <1>5, <1>6, <1>7, <1>8, <1>9, <1>10, <1>11, <1>12, <1>13, <1>14, Zenon
     DEF RegistryNext, Spawn, Drop

\* The inductive invariant holds in every reachable state.
THEOREM RegistryInvariant == RegistrySpec => []RegistryInv
BY RegistryInitInv, RegistryNextInv, PTL DEF RegistrySpec

\* DrainMissesNoTask for any number of spawn calls: abort_all reaches every
\* task that is still alive when the registry is closed.
THEOREM DrainIsComplete == RegistrySpec => []DrainMissesNoTask
<1>1. RegistryInv => DrainMissesNoTask
  BY SpawnsFinite
     DEF RegistryInv, RegistryData, Mutex, Stages, Reachable, DrainMissesNoTask, Steps,
     TaskSteps, Live
<1> QED
  BY <1>1, RegistryInvariant, PTL

\* NoHandleLeak for any number of spawn calls: completion and registration
\* may be interleaved in any way.
THEOREM HandlesDoNotLeak == RegistrySpec => []NoHandleLeak
<1>1. RegistryInv => NoHandleLeak
  BY Zenon DEF RegistryInv
<1> QED
  BY <1>1, RegistryInvariant, PTL

\* ClosedStaysClosed for any number of spawn calls.
THEOREM ClosingIsFinal == RegistrySpec => ClosedStaysClosed
<1>1. RegistryInv /\ [RegistryNext]_registryVars
      => [drain # "open" => tokens' \subseteq tokens /\ drain' # "open"]_registryVars
  <2> SUFFICES ASSUME RegistryInv, RegistryNext, drain # "open"
               PROVE  tokens' \subseteq tokens /\ drain' # "open"
    BY Zenon
  <2>1. \A s \in Spawns : ~Track(s)
    BY SpawnsFinite DEF Track, RegistryInv, Mutex
  <2> QED
    BY <2>1, Zenon DEF RegistryNext, Spawn, Drop, Refused, Admit, Register, Return, Panic, End,
       SetFinished,
                RemoveHandle, Deactivate, Complete, Release, BeginRegistryDraining, Wait,
                AbortAll
<1> QED
  BY <1>1, RegistryInvariant, PTL DEF RegistrySpec, ClosedStaysClosed

-----------------------------------------------------------------------------
\* The sets that the counters count are finite.
LEMMA RegistryCountedFinite ==
    /\ IsFiniteSet(Admitted) /\ IsFiniteSet(Undropped) /\ IsFiniteSet(Dropped)
    /\ Cardinality(Admitted) \in Nat /\ Cardinality(Undropped) \in Nat
    /\ Cardinality(Dropped) \in Nat
<1>1. Admitted \in SUBSET Spawns /\ Undropped \in SUBSET Spawns /\ Dropped \in SUBSET Spawns
  BY Zenon DEF Admitted, Undropped, Dropped
<1>2. IsFiniteSet(Admitted) /\ IsFiniteSet(Undropped) /\ IsFiniteSet(Dropped)
  BY <1>1, SpawnsFinite, FS_Subset, Zenon
<1> QED
  BY <1>2, FS_CardinalityType, Zenon

\* The counters follow the sets they count through every step: only the
\* admission and the drop of the CompletionGuard touch them.
LEMMA NextCounters ==
    RegistryInv /\ CountersAgree /\ [RegistryNext]_registryVars => CountersAgree'
<1> SUFFICES ASSUME RegistryInv, CountersAgree, [RegistryNext]_registryVars PROVE CountersAgree'
  BY Zenon
<1>a. ASSUME Admitted' = Admitted, Undropped' = Undropped, Dropped' = Dropped,
             UNCHANGED <<active, completed, spawned>>
      PROVE  CountersAgree'
  BY <1>a, Zenon DEF CountersAgree
<1>1. ASSUME NEW s \in Spawns, Admit(s) PROVE CountersAgree'
  <2>1. /\ Admitted' = Admitted \cup {s} /\ s \notin Admitted
        /\ Undropped' = Undropped \cup {s} /\ s \notin Undropped
        /\ Dropped' = Dropped
    BY <1>1 DEF Admit, RegistryInv, RegistryData, Stages, Admitted, Undropped, Dropped, Steps
  <2>2. /\ Cardinality(Admitted') = Cardinality(Admitted) + 1
        /\ Cardinality(Undropped') = Cardinality(Undropped) + 1
    BY <2>1, RegistryCountedFinite, FS_AddElement, Zenon
  <2> QED
    BY <1>1, <2>1, <2>2, Zenon DEF Admit, CountersAgree
<1>2. ASSUME NEW s \in Spawns, Deactivate(s) PROVE CountersAgree'
  <2>1. /\ Admitted' = Admitted /\ Dropped' = Dropped
        /\ Undropped' = Undropped \ {s} /\ s \in Undropped
    BY <1>2, Zenon DEF Deactivate, RegistryInv, RegistryData, Stages, Admitted, Undropped, Dropped
  <2>2. Cardinality(Undropped') = Cardinality(Undropped) - 1
    BY <2>1, RegistryCountedFinite, FS_RemoveElement, Zenon
  <2> QED
    BY <1>2, <2>1, <2>2, Zenon DEF Deactivate, CountersAgree
<1>3. ASSUME NEW s \in Spawns, Complete(s) PROVE CountersAgree'
  <2>1. /\ Admitted' = Admitted /\ Undropped' = Undropped
        /\ Dropped' = Dropped \cup {s} /\ s \notin Dropped
    BY <1>3, Zenon DEF Complete, RegistryInv, RegistryData, Stages, Admitted, Undropped, Dropped
  <2>2. Cardinality(Dropped') = Cardinality(Dropped) + 1
    BY <2>1, RegistryCountedFinite, FS_AddElement, Zenon
  <2> QED
    BY <1>3, <2>1, <2>2, Zenon DEF Complete, CountersAgree
<1>4. ASSUME NEW s \in Spawns, Refused(s) \/ Track(s) \/ Register(s) \/ Return(s)
      PROVE CountersAgree'
  BY <1>a, <1>4, Zenon DEF Refused, Track, Register, Return, RegistryInv, RegistryData, Stages,
     Admitted, Undropped,
                    Dropped
<1>5. ASSUME NEW s \in Spawns,
             Panic(s) \/ End(s) \/ SetFinished(s) \/ RemoveHandle(s) \/ Release(s)
      PROVE CountersAgree'
  BY <1>a, <1>5, Zenon DEF Panic, End, SetFinished, RemoveHandle, Release,
     RegistryInv, RegistryData,
     Admitted,
                    Undropped, Dropped
<1>6. CASE BeginRegistryDraining \/ Wait \/ AbortAll \/ UNCHANGED registryVars
  BY <1>a, <1>6, Zenon DEF BeginRegistryDraining, Wait, AbortAll, registryVars, Admitted, Undropped,
     Dropped
<1> QED
  BY <1>1, <1>2, <1>3, <1>4, <1>5, <1>6, Zenon DEF RegistryNext, Spawn, Drop

\* CountersAgree for any number of spawn calls: the numbers of the shutdown
\* report are those of the tasks.
THEOREM CountersAreExact == RegistrySpec => []CountersAgree
<1>1. RegistryInit => CountersAgree
  <2> SUFFICES ASSUME RegistryInit PROVE CountersAgree
    BY Zenon
  <2>1. Admitted = {} /\ Undropped = {} /\ Dropped = {}
    BY Zenon DEF RegistryInit, Admitted, Undropped, Dropped
  <2> QED
    BY <2>1, FS_EmptySet, Zenon DEF RegistryInit, CountersAgree
<1> QED
  BY <1>1, NextCounters, RegistryInvariant, PTL DEF RegistrySpec

\* WaitMeansQuiet for any number of spawn calls: after wait the mount may
\* report that it stopped.
THEOREM WaitIsQuiet == RegistrySpec => []WaitMeansQuiet
<1>1. RegistryInv /\ CountersAgree => WaitMeansQuiet
  <2> SUFFICES ASSUME RegistryInv, CountersAgree, drain = "waited"
               PROVE  /\ \A s \in Spawns : task[s] \in {"none", "gone"}
                      /\ active = 0 /\ completed = spawned
    BY Zenon DEF WaitMeansQuiet
  <2>1. \A s \in Spawns : task[s] \in {"none", "gone"}
    BY Zenon DEF RegistryInv, Quiet, Stages
  <2>2. \A s \in Admitted : task[s] = "gone"
    BY <2>1, SpawnsFinite, Zenon DEF RegistryInv, RegistryData, Mutex, Stages, Admitted, Steps
  <2>3. Undropped = {} /\ Dropped = Admitted
    BY <2>2, Zenon DEF Undropped, Dropped
  <2> QED
    BY <2>1, <2>3, FS_EmptySet, Zenon DEF CountersAgree
<1> QED
  BY <1>1, RegistryInvariant, CountersAreExact, PTL

\* The flag of the mutex stays a Boolean: only begin_draining writes it.
LEMMA NextFlag ==
    admitting \in BOOLEAN /\ [RegistryNext]_registryVars => (admitting \in BOOLEAN)'
<1> SUFFICES ASSUME admitting \in BOOLEAN, [RegistryNext]_registryVars
    PROVE admitting' \in BOOLEAN
  BY Zenon
<1>1. admitting' = admitting \/ admitting' = FALSE
  BY Zenon DEF RegistryNext, registryVars, Spawn, Drop, Refused, Admit, Track, Register,
     Return, Panic, End, SetFinished, RemoveHandle, Deactivate, Complete, Release,
     BeginRegistryDraining, Wait,
       AbortAll
<1> QED
  BY <1>1, Zenon

\* The panic counter stays a natural number.
LEMMA NextPanicked == panicked \in Nat /\ [RegistryNext]_registryVars => (panicked \in Nat)'
<1> SUFFICES ASSUME panicked \in Nat, [RegistryNext]_registryVars PROVE panicked' \in Nat
  BY Zenon
<1>1. panicked' = panicked \/ panicked' = panicked + 1
  BY Zenon DEF RegistryNext, registryVars, Spawn, Drop, Refused, Admit, Track, Register,
     Return, Panic, End, SetFinished, RemoveHandle, Deactivate, Complete, Release,
     BeginRegistryDraining, Wait, AbortAll
<1> QED
  BY <1>1

\* TypeOK for any number of spawn calls; that no counter underflows rests on
\* CountersAgree.
THEOREM RegistryTypeCorrect == RegistrySpec => []RegistryTypeOK
<1>1. RegistryInit => admitting \in BOOLEAN /\ panicked \in Nat
  BY DEF RegistryInit
<1>2. RegistrySpec => [](admitting \in BOOLEAN /\ panicked \in Nat)
  BY <1>1, NextFlag, NextPanicked, PTL DEF RegistrySpec
<1>3. RegistryInv /\ CountersAgree /\ admitting \in BOOLEAN /\ panicked \in Nat
      => RegistryTypeOK
  <2>1. CountersAgree => active \in Nat /\ spawned \in Nat /\ completed \in Nat
    BY RegistryCountedFinite, Zenon DEF CountersAgree
  <2> QED
    BY <2>1, Zenon DEF RegistryInv, RegistryData, RegistryTypeOK
<1> QED
  BY <1>2, <1>3, RegistryInvariant, CountersAreExact, PTL
=============================================================================
