------------------------------ MODULE PagePool ------------------------------
(***************************************************************************)
(* HybridPagePool: a queue of memory pages and an optional queue of pages  *)
(* in a mapped file, shared by all the slice buffers of a mount. A page is *)
(* owned by whoever popped it; dropping it pushes it back and notifies one *)
(* waiter of that queue. Buffers take pages without waiting (module        *)
(* SliceBuffer); takers are callers of the waiting interface acquire_page. *)
(***************************************************************************)
EXTENDS Naturals, FiniteSets, Sequences, Functions

CONSTANTS
    MemPages, DiskPages,    \* the pages of the two pools
    PageSize,               \* bytes in a page
    Takers                  \* callers of acquire_page

ASSUME PagePoolConstants ==
    /\ PageSize \in Nat \ {0} /\ MemPages # {} /\ MemPages \cap DiskPages = {}

VARIABLES
    free,       \* the ArrayQueue of each pool
    bytes,      \* what is stored in each page
    permit,     \* Notify: the wakeup that no waiter was there to take
    waiters,    \* Notify: the takers registered at each pool, in order
    taker       \* where each caller of acquire_page is, and the page it holds

poolVars == <<free, bytes, permit, waiters, taker>>

Pools == {"mem", "disk"}
Pages == MemPages \cup DiskPages
PoolOf(p) == IF p \in MemPages THEN "mem" ELSE "disk"
PageBytes == 0 .. PageSize - 1
ZeroPage == [i \in PageBytes |-> 0]

\* The queue a pool of these pages is built with: each of them once.
QueueOf(S) == CHOOSE s \in Injection(1 .. Cardinality(S), S) : TRUE

\* PagePoolBuilder::build: every page is queued once, and all are zero.
PoolInit ==
    /\ free = [q \in Pools |-> QueueOf(IF q = "mem" THEN MemPages ELSE DiskPages)]
    /\ bytes = [p \in Pages |-> ZeroPage]
    /\ permit = [q \in Pools |-> FALSE]
    /\ waiters = [q \in Pools |-> <<>>]
    /\ taker = [t \in Takers |-> [pc |-> "idle"]]

\* MemoryPagePool clears a page that comes back, DiskPagePool does not.
Recycled(p) == IF PoolOf(p) = "mem" THEN ZeroPage ELSE bytes[p]

\* Page::drop for each of the pages, with the notify_one of each push: it
\* wakes the first waiter, or leaves one permit for the next to come. The
\* takers are otherwise as in base.
Drop(pages, base) ==
    LET Of(q) == SelectSeq(pages, LAMBDA p : PoolOf(p) = q)
        Woken(q) == {waiters[q][i] : i \in DOMAIN waiters[q] \cap 1 .. Len(Of(q))}
    IN /\ free' = [q \in Pools |-> free[q] \o Of(q)]
       /\ bytes' = [p \in Pages |-> IF p \in Range(pages) THEN Recycled(p) ELSE bytes[p]]
       /\ waiters' = [q \in Pools |-> SubSeq(waiters[q], Len(Of(q)) + 1, Len(waiters[q]))]
       /\ permit' = [q \in Pools |-> permit[q] \/ Len(waiters[q]) < Len(Of(q))]
       /\ taker' = [t \in Takers |->
                      IF \E q \in Pools : t \in Woken(q) THEN [pc |-> "loop"] ELSE base[t]]

\* The pool acquire_page waits at: the disk pool when there is one.
WaitPool == IF DiskPages = {} THEN "mem" ELSE "disk"

\* HybridPagePool::acquire_page: memory when some is left, otherwise the
\* waiting pop of one of the two pools.
TakerStart(t) ==
    /\ taker[t].pc = "idle"
    /\ IF free["mem"] # <<>>
       THEN /\ taker' = [taker EXCEPT ![t] = [pc |-> "hold", page |-> Head(free["mem"])]]
            /\ free' = [free EXCEPT !["mem"] = Tail(@)]
       ELSE taker' = [taker EXCEPT ![t] = [pc |-> "loop"]] /\ UNCHANGED free
    /\ UNCHANGED <<bytes, permit, waiters>>

\* The pop of the waiting loop: without a page the taker goes on to wait ...
TakerPop(t) ==
    /\ taker[t].pc = "loop"
    /\ IF free[WaitPool] # <<>>
       THEN /\ taker' = [taker EXCEPT ![t] = [pc |-> "hold", page |-> Head(free[WaitPool])]]
            /\ free' = [free EXCEPT ![WaitPool] = Tail(@)]
       ELSE taker' = [taker EXCEPT ![t] = [pc |-> "park"]] /\ UNCHANGED free
    /\ UNCHANGED <<bytes, permit, waiters>>

\* ... notified().await takes the permit or registers the taker.
TakerPark(t) ==
    /\ taker[t].pc = "park"
    /\ IF permit[WaitPool]
       THEN /\ permit' = [permit EXCEPT ![WaitPool] = FALSE]
            /\ taker' = [taker EXCEPT ![t] = [pc |-> "loop"]]
            /\ UNCHANGED waiters
       ELSE /\ waiters' = [waiters EXCEPT ![WaitPool] = Append(@, t)]
            /\ taker' = [taker EXCEPT ![t] = [pc |-> "wait"]]
            /\ UNCHANGED permit
    /\ UNCHANGED <<free, bytes>>

\* The taker drops the page it was given.
TakerDrop(t) ==
    /\ taker[t].pc = "hold"
    /\ Drop(<<taker[t].page>>, [taker EXCEPT ![t] = [pc |-> "idle"]])

TakerStep(t) == TakerStart(t) \/ TakerPop(t) \/ TakerPark(t) \/ TakerDrop(t)
=============================================================================
