----------------------------- MODULE ReadyFile -----------------------------
(***************************************************************************)
(* The ready record of the mount processes that were given the same path.  *)
(* Publication and removal run under a lease, a lock on a companion file   *)
(* that the kernel releases with the process. An entry is never unlinked   *)
(* under its public name: it is renamed to a name of its own first, then   *)
(* inspected, then deleted or renamed back. Both renames replace nothing.  *)
(*                                                                         *)
(* An entry is the process whose record it is, or a member of Foreign: a   *)
(* file another program left at the path, malformed, a link, or the record *)
(* of a live process. As an entry here is its own identity, the device and *)
(* inode number that remove_if_owned compares besides the token add        *)
(* nothing.                                                                *)
(***************************************************************************)
EXTENDS FiniteSets

CONSTANTS
    Procs,      \* mount processes, each with its pid and token
    Foreign,    \* entries of others
    None

ASSUME ReadyFileConstants == Procs \cap Foreign = {} /\ None \notin Procs \cup Foreign

VARIABLES
    pc,         \* where every process is
    lease,      \* the process that holds the lock on .<name>.lock
    path,       \* the entry at the public name
    temp,       \* processes whose .<name>.tmp-<token> exists
    retired,    \* the entry at the .<name>.retired-... of every process
    reused,     \* dead processes whose pid another program has now
    robbed,     \* processes whose record another program took away
    placed      \* entries others put at the path and did not take away

readyVars == <<pc, lease, path, temp, retired, reused, robbed, placed>>
others == <<reused, robbed, placed>>

Entries == Procs \cup Foreign \cup {None}
ReadySteps == {"start", "temp", "link", "reclaim", "inspect", "giveBack", "relink", "failed",
          "linked", "identify", "ready", "check", "putBack", "release", "stopping",
          "exited", "killed"}
Over == {"exited", "killed"}

ReadyInit ==
    /\ pc = [p \in Procs |-> "start"]
    /\ lease = None /\ path = None /\ temp = {}
    /\ retired = [p \in Procs |-> None]
    /\ reused = {} /\ robbed = {} /\ placed = {}

Goto(p, step) == pc' = [pc EXCEPT ![p] = step]
-----------------------------------------------------------------------------
(* ReadyFileGuard::create.                                                  *)

\* Mutant: the lease is not exclusive.
AcquireShared(p) ==
    /\ pc[p] = "start"
    /\ lease' = p /\ Goto(p, "temp")
    /\ UNCHANGED <<path, temp, retired, others>>

AcquireLease(p) ==
    /\ pc[p] = "start" /\ lease = None
    /\ lease' = p /\ Goto(p, "temp")
    /\ UNCHANGED <<path, temp, retired, others>>

LeaseRefused(p) ==
    /\ pc[p] = "start" /\ lease # None
    /\ Goto(p, "stopping")
    /\ UNCHANGED <<lease, path, temp, retired, others>>

WriteTemp(p) ==
    /\ pc[p] = "temp"
    /\ \/ temp' = temp \cup {p} /\ Goto(p, "link")
       \/ temp' \in {temp, temp \cup {p}} /\ Goto(p, "failed")
    /\ UNCHANGED <<lease, path, retired, others>>

\* The first hard_link goes on to reclaim when the name is taken; any other
\* failure, and any of the second one, is an error.
Link(p) ==
    /\ pc[p] \in {"link", "relink"}
    /\ \/ path = None /\ path' = p /\ Goto(p, "linked")
       \/ /\ path' = path
          /\ Goto(p, IF path # None /\ pc[p] = "link" THEN "reclaim" ELSE "failed")
    /\ UNCHANGED <<lease, temp, retired, others>>

RemoveTemp(p) ==
    /\ pc[p] = "linked"
    /\ temp' = temp \ {p} /\ Goto(p, "identify")
    /\ UNCHANGED <<lease, path, retired, others>>

\* The name is looked up again for its identity: an entry that is no regular
\* file, or none at all, is an error.
Identify(p) ==
    /\ pc[p] = "identify"
    /\ \/ path # None /\ lease' = lease /\ Goto(p, "ready")
       \/ path \in Foreign \cup {None} /\ lease' = None /\ Goto(p, "stopping")
    /\ UNCHANGED <<path, temp, retired, others>>

CreateFails(p) ==
    /\ pc[p] = "failed"
    /\ temp' = temp \ {p} /\ lease' = None /\ Goto(p, "stopping")
    /\ UNCHANGED <<path, retired, others>>
-----------------------------------------------------------------------------
(* reclaim_stale_ready_file, and remove_if_owned when the guard is dropped.  *)

Retire(p) ==
    /\ pc[p] \in {"reclaim", "ready"}
    /\ \/ /\ path # None /\ path' = None
          /\ retired' = [retired EXCEPT ![p] = path]
          /\ Goto(p, IF pc[p] = "reclaim" THEN "inspect" ELSE "check")
       \/ /\ path = None /\ UNCHANGED <<path, retired>>
          /\ Goto(p, IF pc[p] = "reclaim" THEN "failed" ELSE "release")
    /\ UNCHANGED <<lease, temp, others>>

OwnerIsDead(p) == pc[p] \in Over /\ p \notin reused

\* Mutant: any entry found at the path is taken for a stale record.
ReclaimableAlways(e) == e # None

Reclaimable(e) == e \in Procs /\ OwnerIsDead(e)

Inspect(p) ==
    /\ pc[p] = "inspect"
    /\ \/ /\ Reclaimable(retired[p])
          /\ retired' = [retired EXCEPT ![p] = None] /\ Goto(p, "relink")
       \/ /\ ~Reclaimable(retired[p])
          /\ UNCHANGED retired /\ Goto(p, "giveBack")
    /\ UNCHANGED <<lease, path, temp, others>>

\* Mutant: the token of the record is not recognised.
OwnedNever(p) == FALSE

Owned(p) == retired[p] = p

Check(p) ==
    /\ pc[p] = "check"
    /\ \/ /\ Owned(p)
          /\ retired' = [retired EXCEPT ![p] = None] /\ Goto(p, "release")
       \/ /\ ~Owned(p)
          /\ UNCHANGED retired /\ Goto(p, "putBack")
    /\ UNCHANGED <<lease, path, temp, others>>

\* An entry that cannot be renamed back stays under the name it has.
Restore(p) ==
    /\ pc[p] \in {"giveBack", "putBack"}
    /\ \/ path = None /\ path' = retired[p] /\ retired' = [retired EXCEPT ![p] = None]
       \/ path # None /\ UNCHANGED <<path, retired>>
    /\ Goto(p, IF pc[p] = "giveBack" THEN "failed" ELSE "release")
    /\ UNCHANGED <<lease, temp, others>>

\* The file of the lease is closed after remove_if_owned.
ReleaseLease(p) ==
    /\ pc[p] = "release"
    /\ lease' = None /\ Goto(p, "stopping")
    /\ UNCHANGED <<path, temp, retired, others>>

Exit(p) ==
    /\ pc[p] = "stopping" /\ Goto(p, "exited")
    /\ UNCHANGED <<lease, path, temp, retired, others>>
-----------------------------------------------------------------------------
(* SIGKILL, the reuse of a pid, and programs that share the directory.      *)

Kill(p) ==
    /\ pc[p] \notin Over /\ Goto(p, "killed")
    /\ lease' = IF lease = p THEN None ELSE lease
    /\ UNCHANGED <<path, temp, retired, others>>

ReusePid(p) ==
    /\ pc[p] \in Over /\ p \notin reused
    /\ reused' = reused \cup {p}
    /\ UNCHANGED <<pc, lease, path, temp, retired, robbed, placed>>

\* Another program puts its entry at the path, over a record or not.
Place(f) ==
    /\ f \notin placed /\ path \notin Foreign
    /\ path' = f /\ placed' = placed \cup {f}
    /\ robbed' = robbed \cup ({path} \ {None})
    /\ UNCHANGED <<pc, lease, temp, retired, reused>>

TakeAway ==
    /\ path # None
    /\ path' = None
    /\ placed' = placed \ {path} /\ robbed' = robbed \cup ({path} \cap Procs)
    /\ UNCHANGED <<pc, lease, temp, retired, reused>>

Process(p) ==
    \/ AcquireLease(p) \/ LeaseRefused(p) \/ WriteTemp(p) \/ Link(p)
    \/ RemoveTemp(p) \/ Identify(p) \/ CreateFails(p)
    \/ Retire(p) \/ Inspect(p) \/ Check(p) \/ Restore(p) \/ ReleaseLease(p) \/ Exit(p)
    \/ Kill(p) \/ ReusePid(p)

ReadyNext == (\E p \in Procs : Process(p)) \/ (\E f \in Foreign : Place(f)) \/ TakeAway

ReadySpec == ReadyInit /\ [][ReadyNext]_readyVars
-----------------------------------------------------------------------------
\* Every process is at one of the steps and every name holds an entry.
ReadyTypeOK ==
    /\ pc \in [Procs -> ReadySteps] /\ lease \in Procs \cup {None}
    /\ path \in Entries /\ retired \in [Procs -> Entries]
    /\ temp \subseteq Procs /\ reused \subseteq Procs /\ robbed \subseteq Procs
    /\ placed \subseteq Foreign

\* While a mount is ready its record is at the path, unless another program
\* has taken it away: mounts that are started with the same path, or die at
\* any point, never move it, not even for the moment of an inspection.
ReadyRecordStays == \A p \in Procs : pc[p] = "ready" /\ p \notin robbed => path = p

\* A record names a process that holds the lease or was killed: a mount that
\* ends in any other way has removed its record, wherever it was moved to,
\* and its temporary file.
OwnerRemovesRecord ==
    \A p \in Procs :
        /\ p \in {path} \cup {retired[q] : q \in Procs} => lease = p \/ pc[p] = "killed"
        /\ p \in temp => lease = p \/ pc[p] = "killed"

\* "Unknown, malformed, live-owner, or concurrently replaced files are
\* preserved" (operator-runbook.md): an entry of another program is at the
\* path or under the name of a retirement until that program takes it away.
ForeignPreserved == placed \subseteq {path} \cup {retired[q] : q \in Procs}
=============================================================================
