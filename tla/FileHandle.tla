---------------------------- MODULE FileHandle -----------------------------
(***************************************************************************)
(* The reader/writer lock of a FileHandle (vfs/src/handle.rs), built from  *)
(* two counters, a flag and two tokio `Notify` objects. Every atomic load, *)
(* read-modify-write, store and notification is one step. A request is at  *)
(* the handle cur; module VfsHandles says which requests take the lock and *)
(* what they do while they hold it.                                        *)
(*                                                                         *)
(* The cancellation arms are left out: the context of a request enters     *)
(* `operations` only after it has the lock, so cancel_operations never     *)
(* reaches one that is still waiting.                                      *)
(***************************************************************************)
EXTENDS Integers, FiniteSets, Sequences, SequencesExt

CONSTANTS Handles, Requests

ASSUME FileHandleConstants ==
    IsFiniteSet(Handles) /\ IsFiniteSet(Requests) /\ "none" \notin Handles

VARIABLES
    reader_cnt, write_wait_cnt, exclusive_locking,  \* of each handle
    pc, cur,    \* where each request is, and at which handle
    guards,     \* the handles whose write guards each request owns, in order
    parked,     \* requests registered with a Notify they wait on
    ahead       \* writers at its handle when a reader began its last check

counters == <<reader_cnt, write_wait_cnt, exclusive_locking>>
lockVars == <<counters, pc, cur, guards, parked, ahead>>

NoHandle == "none"

LockInit ==
    /\ reader_cnt = [h \in Handles |-> 0]
    /\ write_wait_cnt = [h \in Handles |-> 0]
    /\ exclusive_locking = [h \in Handles |-> FALSE]
    /\ pc = [r \in Requests |-> "idle"]
    /\ cur = [r \in Requests |-> NoHandle]
    /\ guards = [r \in Requests |-> <<>>]
    /\ parked = {}
    /\ ahead = [r \in Requests |-> {}]

Goto(r, step) == pc' = [pc EXCEPT ![r] = step]

\* Waiting: the Notified future is created (and from then on receives
\* notify_waiters) only after the check that decided to wait.
Park(r) ==
    /\ pc[r] \in {"rpark", "wpark", "dpark"}
    /\ parked' = parked \cup {r}
    /\ Goto(r, CASE pc[r] = "rpark" -> "rwait" [] pc[r] = "wpark" -> "wwait" [] OTHER -> "dwait")
    /\ UNCHANGED <<counters, cur, guards, ahead>>

Woken(r) ==
    /\ pc[r] \in {"rwait", "wwait", "dwait"} /\ r \notin parked
    /\ Goto(r, CASE pc[r] = "rwait" -> "rcheck" [] pc[r] = "wwait" -> "wcheck" [] OTHER -> "drain")
    /\ UNCHANGED <<counters, cur, guards, parked, ahead>>

\* Those parked at handle h: readers wait for exclusive_lock_notify only.
ParkedAt(h, steps) == {r \in parked : cur[r] = h /\ pc[r] \in steps}
-----------------------------------------------------------------------------
HoldsWrite(r, h) == h \in Range(guards[r])
HoldsRead(r, h) == cur[r] = h /\ pc[r] \in {"rlocked", "rflushed"}

\* Requests counted in write_wait_cnt of h or holding its exclusive lock.
Active(h) ==
    {w \in Requests :
        \/ HoldsWrite(w, h)
        \/ cur[w] = h /\ pc[w] \in {"wcheck", "wcheck2", "wpark", "wwait", "cas", "leave"}}

\* read_lock: first load of the loop condition, write_wait_cnt > 0.
ReadCheckWaiters(r) ==
    /\ pc[r] = "rcheck"
    /\ Goto(r, IF write_wait_cnt[cur[r]] > 0 THEN "rpark" ELSE "rcheck2")
    /\ ahead' = [ahead EXCEPT ![r] = Active(cur[r])]
    /\ UNCHANGED <<counters, cur, guards, parked>>

\* Mutant: the second load is left out.
ReadSkipExclusive(r) ==
    /\ pc[r] = "rcheck2"
    /\ Goto(r, "renter")
    /\ UNCHANGED <<counters, cur, guards, parked, ahead>>

\* Second load of the loop condition, exclusive_locking.
ReadCheckExclusive(r) ==
    /\ pc[r] = "rcheck2"
    /\ Goto(r, IF exclusive_locking[cur[r]] THEN "rpark" ELSE "renter")
    /\ UNCHANGED <<counters, cur, guards, parked, ahead>>

\* fetch_add on reader_cnt: the guard exists from here on.
ReadEnter(r) ==
    /\ pc[r] = "renter"
    /\ reader_cnt' = [reader_cnt EXCEPT ![cur[r]] = @ + 1]
    /\ Goto(r, "rlocked")
    /\ UNCHANGED <<write_wait_cnt, exclusive_locking, cur, guards, parked, ahead>>

\* Drop of the read guard: fetch_sub, then notify the waiting writers.
ReadRelease(r) ==
    /\ pc[r] = "rdrop"
    /\ reader_cnt' = [reader_cnt EXCEPT ![cur[r]] = @ - 1]
    /\ Goto(r, "rnotify")
    /\ UNCHANGED <<write_wait_cnt, exclusive_locking, cur, guards, parked, ahead>>

ReadNotify(r) ==
    /\ pc[r] = "rnotify"
    /\ parked' = parked \ ParkedAt(cur[r], {"wwait", "dwait"})
    /\ Goto(r, "done")
    /\ cur' = [cur EXCEPT ![r] = NoHandle] /\ ahead' = [ahead EXCEPT ![r] = {}]
    /\ UNCHANGED <<counters, guards>>
-----------------------------------------------------------------------------
\* write_lock announces itself first.
WriteAnnounce(r) ==
    /\ pc[r] = "announce"
    /\ write_wait_cnt' = [write_wait_cnt EXCEPT ![cur[r]] = @ + 1]
    /\ Goto(r, "wcheck")
    /\ UNCHANGED <<reader_cnt, exclusive_locking, cur, guards, parked, ahead>>

WriteCheckReaders(r) ==
    /\ pc[r] = "wcheck"
    /\ Goto(r, IF reader_cnt[cur[r]] > 0 THEN "wpark" ELSE "wcheck2")
    /\ UNCHANGED <<counters, cur, guards, parked, ahead>>

WriteCheckExclusive(r) ==
    /\ pc[r] = "wcheck2"
    /\ Goto(r, IF exclusive_locking[cur[r]] THEN "wpark" ELSE "cas")
    /\ UNCHANGED <<counters, cur, guards, parked, ahead>>

\* Mutant: a store where the compare_exchange was.
WriteStore(r) ==
    /\ pc[r] = "cas"
    /\ exclusive_locking' = [exclusive_locking EXCEPT ![cur[r]] = TRUE]
    /\ guards' = [guards EXCEPT ![r] = Append(@, cur[r])]
    /\ Goto(r, "leave")
    /\ UNCHANGED <<reader_cnt, write_wait_cnt, cur, parked, ahead>>

\* compare_exchange(false, true); a loser goes back to the checks.
WriteCas(r) ==
    /\ pc[r] = "cas"
    /\ exclusive_locking' = [exclusive_locking EXCEPT ![cur[r]] = TRUE]
    /\ IF exclusive_locking[cur[r]]
       THEN Goto(r, "wcheck") /\ UNCHANGED guards
       ELSE Goto(r, "leave") /\ guards' = [guards EXCEPT ![r] = Append(@, cur[r])]
    /\ UNCHANGED <<reader_cnt, write_wait_cnt, cur, parked, ahead>>

\* Mutant: the winner stays counted as waiting.
WriteLeaveCounted(r) ==
    /\ pc[r] = "leave"
    /\ Goto(r, "wlocked")
    /\ UNCHANGED <<counters, cur, guards, parked, ahead>>

\* The winner is no longer waiting and holds the guard.
WriteLeave(r) ==
    /\ pc[r] = "leave"
    /\ write_wait_cnt' = [write_wait_cnt EXCEPT ![cur[r]] = @ - 1]
    /\ Goto(r, "wlocked")
    /\ UNCHANGED <<reader_cnt, exclusive_locking, cur, guards, parked, ahead>>

\* Drop of the write guards, in order: store false, then notify every waiter.
WriteRelease(r) ==
    /\ pc[r] = "wdrop"
    /\ IF guards[r] = <<>>
       THEN /\ Goto(r, "done") /\ cur' = [cur EXCEPT ![r] = NoHandle]
            /\ UNCHANGED <<exclusive_locking, guards>>
       ELSE /\ exclusive_locking' = [exclusive_locking EXCEPT ![Head(guards[r])] = FALSE]
            /\ cur' = [cur EXCEPT ![r] = Head(guards[r])]
            /\ guards' = [guards EXCEPT ![r] = Tail(@)]
            /\ Goto(r, "wnotify")
    /\ UNCHANGED <<reader_cnt, write_wait_cnt, parked, ahead>>

WriteNotify(r) ==
    /\ pc[r] = "wnotify"
    /\ parked' = parked \ ParkedAt(cur[r], {"rwait", "wwait", "dwait"})
    /\ Goto(r, "wdrop")
    /\ UNCHANGED <<counters, cur, guards, ahead>>
-----------------------------------------------------------------------------
\* wait_all_operations_done: the three loads of its loop, one after another.
DrainCheck(r, next) ==
    /\ pc[r] \in {"drain", "drain2", "drain3"}
    /\ LET h == cur[r]
           busy == CASE pc[r] = "drain"  -> reader_cnt[h] > 0
                     [] pc[r] = "drain2" -> write_wait_cnt[h] > 0
                     [] OTHER            -> exclusive_locking[h]
           more == CASE pc[r] = "drain" -> "drain2" [] pc[r] = "drain2" -> "drain3" [] OTHER -> next
       IN Goto(r, IF busy THEN "dpark" ELSE more)
    /\ UNCHANGED <<counters, cur, guards, parked, ahead>>

LockStep(r) ==
    \/ Park(r) \/ Woken(r)
    \/ ReadCheckWaiters(r) \/ ReadCheckExclusive(r) \/ ReadEnter(r) \/ ReadRelease(r) \/ ReadNotify(r)
    \/ WriteAnnounce(r) \/ WriteCheckReaders(r) \/ WriteCheckExclusive(r)
    \/ WriteCas(r) \/ WriteLeave(r) \/ WriteRelease(r) \/ WriteNotify(r)
=============================================================================
