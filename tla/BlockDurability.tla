-------------------------- MODULE BlockDurability --------------------------
(***************************************************************************)
(* What the stage cache promises its callers about immutable object        *)
(* blocks, with nothing said of how: once `stage` has answered Ok the bytes *)
(* are on stable storage, they only ever move from the local stage to the  *)
(* object store, and `flush_slice`/`flush_all` answer Ok only for blocks   *)
(* the object store holds.  Process crashes and restarts are stuttering    *)
(* steps of this specification: they may not be noticed.                   *)
(***************************************************************************)
CONSTANT Keys

VARIABLES
    place,      \* where the newest stable copy of each block is
    acked,      \* blocks whose `stage` call answered Ok
    durable     \* blocks covered by an Ok from flush_slice or flush_all

vars == <<place, acked, durable>>

Places == {"absent", "local", "remote"}

Init ==
    /\ place = [k \in Keys |-> "absent"]
    /\ acked = {}
    /\ durable = {}

\* The block reaches the local stage directory.
Persist(k) ==
    /\ place[k] = "absent"
    /\ place' = [place EXCEPT ![k] = "local"]
    /\ UNCHANGED <<acked, durable>>

\* The object store holds the block from now on.
Upload(k) ==
    /\ place[k] = "local"
    /\ place' = [place EXCEPT ![k] = "remote"]
    /\ UNCHANGED <<acked, durable>>

\* `stage` answers Ok.
Acknowledge(k) ==
    /\ place[k] # "absent"
    /\ acked' = acked \cup {k}
    /\ UNCHANGED <<place, durable>>

\* flush_slice or flush_all answers Ok for the blocks in S.
Sync(S) ==
    /\ \A k \in S : place[k] = "remote"
    /\ durable' = durable \cup S
    /\ UNCHANGED <<place, acked>>

Next ==
    \/ \E k \in Keys : Persist(k) \/ Upload(k) \/ Acknowledge(k)
    \/ \E S \in SUBSET acked : Sync(S)

Spec == Init /\ [][Next]_vars
=============================================================================
