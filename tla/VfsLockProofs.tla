--------------------------- MODULE VfsLockProofs ---------------------------
(***************************************************************************)
(* The lock of a FileHandle is correct for any number of handles and of    *)
(* requests. The inductive invariant LockInv says that the two counters    *)
(* are the numbers of requests at the steps they stand for, that the flag  *)
(* is set exactly while a write guard exists, and how far a writer that a  *)
(* reader found ahead of it must have come. RequestsOK says that a request *)
(* is at a step of its own operation.                                      *)
(***************************************************************************)
EXTENDS VfsHandles, FiniteSetTheorems, TLAPS

\* The sequence of guards: what Append and Tail do to the handles in it.
LEMMA RangeOfAppend ==
    ASSUME NEW S, NEW s \in Seq(S), NEW e \in S
    PROVE  Range(Append(s, e)) = Range(s) \cup {e}
<1> DEFINE t == Append(s, e)
<1>1. Len(t) = Len(s) + 1 /\ DOMAIN t = 1 .. Len(s) + 1 /\ DOMAIN s = 1 .. Len(s) /\ Len(s) \in Nat
  OBVIOUS
<1>2. t[Len(s) + 1] = e /\ \A i \in 1 .. Len(s) : t[i] = s[i]
  OBVIOUS
<1>3. Range(t) = {t[i] : i \in 1 .. Len(s) + 1} /\ Range(s) = {s[i] : i \in 1 .. Len(s)}
  BY <1>1, Zenon DEF Range
<1> QED BY <1>1, <1>2, <1>3

\* A guard that is added is not there twice.
LEMMA InjectiveAppend ==
    ASSUME NEW S, NEW s \in Seq(S), NEW e \in S, IsInjective(s), e \notin Range(s)
    PROVE  IsInjective(Append(s, e))
<1> DEFINE t == Append(s, e)
<1>1. DOMAIN t = 1 .. Len(s) + 1 /\ DOMAIN s = 1 .. Len(s) /\ Len(s) \in Nat
  OBVIOUS
<1>2. t[Len(s) + 1] = e /\ \A i \in 1 .. Len(s) : t[i] = s[i]
  OBVIOUS
<1>3. \A i \in 1 .. Len(s) : s[i] # e
  BY <1>1, Zenon DEF Range
<1>4. \A i, j \in 1 .. Len(s) : s[i] = s[j] => i = j
  BY <1>1, Zenon DEF IsInjective
<1> QED BY <1>1, <1>2, <1>3, <1>4 DEF IsInjective

\* The first guard is dropped: the others stay.
LEMMA RangeOfTail ==
    ASSUME NEW S, NEW s \in Seq(S), s # <<>>, IsInjective(s)
    PROVE  /\ Range(Tail(s)) = Range(s) \ {Head(s)} /\ Head(s) \in Range(s)
           /\ IsInjective(Tail(s))
<1> DEFINE t == Tail(s)
<1>1. /\ DOMAIN t = 1 .. Len(s) - 1 /\ DOMAIN s = 1 .. Len(s) /\ Len(s) \in Nat \ {0}
      /\ Head(s) = s[1] /\ \A i \in 1 .. Len(s) - 1 : t[i] = s[i + 1]
  OBVIOUS
<1>2. \A i, j \in 1 .. Len(s) : s[i] = s[j] => i = j
  BY <1>1, Zenon DEF IsInjective
<1>3. Range(t) = {t[i] : i \in 1 .. Len(s) - 1} /\ Range(s) = {s[i] : i \in 1 .. Len(s)}
  BY <1>1, Zenon DEF Range
<1>4. IsInjective(t)
  BY <1>1, <1>2 DEF IsInjective
<1>5. \A i \in 1 .. Len(s) - 1 : t[i] \in Range(s) /\ t[i] # Head(s)
  BY <1>1, <1>2, <1>3
<1>6. \A x \in Range(s) \ {Head(s)} : x \in Range(t)
  <2> TAKE x \in Range(s) \ {Head(s)}
  <2>1. PICK i \in 1 .. Len(s) : x = s[i] BY <1>3, Zenon
  <2>2. i # 1 /\ i - 1 \in 1 .. Len(s) - 1 /\ t[i - 1] = s[i] BY <2>1, <1>1
  <2> QED BY <2>1, <2>2, <1>3, Zenon
<1> QED BY <1>1, <1>3, <1>4, <1>5, <1>6
-----------------------------------------------------------------------------
(* Where a request is decides what it is counted in, which guards it may    *)
(* have, and that it is at a handle.                                        *)
Waiting == {"wcheck", "wcheck2", "wpark", "wwait", "cas", "leave"}
Reading == {"rlocked", "rflushed", "rdrop"}
Holding == Waiting \cup {"announce", "wlocked", "wrote", "wlength", "tnext", "tmeta", "tlen",
                         "treaders", "wdrop", "wnotify"}
Leaving == {"wdrop", "wnotify", "done"}
Located == Waiting \cup Reading \cup
           {"announce", "rcheck", "rcheck2", "rpark", "rwait", "renter", "rnotify", "wnotify",
            "drain", "drain2", "drain3", "dpark", "dwait", "lflush", "lmeta", "lremove"}

\* The requests the counters of h stand for.
Readers(h) == {r \in Requests : cur[r] = h /\ pc[r] \in Reading}
Waiters(h) == {r \in Requests : cur[r] = h /\ pc[r] \in Waiting}

\* The lock's variables have their types.
DataOK ==
    /\ reader_cnt \in [Handles -> Int] /\ write_wait_cnt \in [Handles -> Int]
    /\ exclusive_locking \in [Handles -> BOOLEAN]
    /\ pc = [r \in Requests |-> pc[r]] /\ cur \in [Requests -> Handles \cup {NoHandle}]
    /\ guards \in [Requests -> Seq(Handles)]
    /\ parked \subseteq Requests /\ ahead \in [Requests -> SUBSET Requests]

\* A request at the lock of a handle is at a handle.
Placed == \A r \in Requests : pc[r] \in Located => cur[r] \in Handles

\* The two counters of a handle are the numbers of requests they stand for.
Counts ==
    \A h \in Handles :
        reader_cnt[h] = Cardinality(Readers(h)) /\ write_wait_cnt[h] = Cardinality(Waiters(h))

\* The flag is set while a guard exists, and no guard is owned twice.
Flagged ==
    /\ \A h \in Handles : exclusive_locking[h] <=> \E r \in Requests : HoldsWrite(r, h)
    /\ \A r \in Requests : IsInjective(guards[r])
    /\ \A r \in Requests : guards[r] # <<>> => pc[r] \in Holding
    /\ OneWriter

\* The writers a reader found at its first load are in or on their way out
\* at the second, and out of this handle for good once it has passed both.
Passed ==
    \A r \in Requests : \A w \in ahead[r] :
        /\ pc[r] = "rcheck2" => HoldsWrite(w, cur[r]) \/ pc[w] \in Leaving
        /\ pc[r] \in {"renter", "rlocked", "rflushed"} => pc[w] \in Leaving /\ ~HoldsWrite(w, cur[r])

\* The inductive invariant of the lock.
LockInv == DataOK /\ Placed /\ Counts /\ Flagged /\ Passed

\* A step of the VFS that leaves the lock alone: request r goes on to step b,
\* at handle c.
Moves(r, b, c) ==
    /\ pc' = [pc EXCEPT ![r] = b] /\ cur' = [cur EXCEPT ![r] = c]
    /\ UNCHANGED <<counters, guards, parked, ahead>>

\* Such a step stays within the classes of steps.
Neutral(r, b, c) ==
    /\ pc[r] \notin Waiting /\ b \notin Waiting
    /\ pc[r] \in Reading <=> b \in Reading
    /\ b \in Reading => c = cur[r]
    /\ pc[r] \in Holding => b \in Holding
    /\ pc[r] \in Leaving => b \in Leaving
    /\ b \in Located => c \in Handles
    /\ b \notin {"rcheck2", "renter"}
    /\ b \in {"rlocked", "rflushed"} => pc[r] = "rlocked"

\* The lock does not notice it.
LEMMA NeutralKeeps ==
    ASSUME LockInv, NEW r \in Requests, NEW b, NEW c \in Handles \cup {NoHandle},
           Moves(r, b, c), Neutral(r, b, c)
    PROVE  LockInv'
<1> USE DEF LockInv, HoldsWrite, NoHandle
<1>1. /\ pc' = [pc EXCEPT ![r] = b] /\ cur' = [cur EXCEPT ![r] = c]
      /\ Neutral(r, b, c)
  BY Zenon DEF Moves
<1>2. UNCHANGED <<reader_cnt, write_wait_cnt, exclusive_locking, guards, parked, ahead>>
  BY Zenon DEF Moves, counters
<1>3. DataOK'
  BY <1>1, <1>2, Zenon DEF DataOK
<1>4. Placed'
  BY <1>1, <1>2, Zenon DEF DataOK, Placed, Neutral
<1>5. Counts'
  <2> SUFFICES ASSUME NEW h \in Handles PROVE Readers(h)' = Readers(h) /\ Waiters(h)' = Waiters(h)
    BY <1>2, Zenon DEF Counts
  <2> QED BY <1>1, Zenon DEF DataOK, Readers, Waiters, Neutral
<1>6. Flagged'
  BY <1>1, <1>2, Zenon DEF DataOK, Flagged, OneWriter, Neutral
<1>7. Passed'
  BY <1>1, <1>2, Zenon DEF DataOK, Passed, Leaving, Reading, Neutral
<1> QED BY <1>3, <1>4, <1>5, <1>6, <1>7, Zenon

\* The requests are finitely many, so every count is a number.
LEMMA CountsFinite ==
    ASSUME NEW h PROVE IsFiniteSet(Readers(h)) /\ IsFiniteSet(Waiters(h))
BY FileHandleConstants, FS_Subset, Zenon DEF Readers, Waiters

\* Nobody has, or waits for, a lock at the start.
LEMMA InitLock == Init => LockInv
<1> SUFFICES ASSUME Init PROVE LockInv
  BY Zenon
<1>0. LockInit
  BY Zenon DEF Init
<1> USE <1>0 DEF LockInit, NoHandle, HoldsWrite
<1>1. DataOK /\ Placed /\ Passed
  BY DEF DataOK, Placed, Passed, Located, Waiting, Reading
<1>2. Counts
  BY FS_EmptySet, Zenon DEF Counts, Readers, Waiters, Waiting, Reading
<1>3. \A r \in Requests : guards[r] = <<>> /\ Range(guards[r]) = {} /\ IsInjective(guards[r])
  BY DEF Range, IsInjective
<1>4. Flagged
  BY <1>3, Zenon DEF Flagged, OneWriter
<1> QED BY <1>1, <1>2, <1>4, Zenon DEF LockInv

\* A request that waits, and one that was woken.
LEMMA ParkKeeps == ASSUME LockInv, NEW r \in Requests, Park(r) \/ Woken(r) PROVE LockInv'
<1> USE DEF LockInv, HoldsWrite, NoHandle, Park, Woken, Goto, counters
<1>1. DataOK'
  BY Zenon DEF DataOK
<1>2. Placed'
  BY Zenon DEF DataOK, Placed, Located, Waiting, Reading
<1>3. Counts'
  <2> SUFFICES ASSUME NEW h \in Handles PROVE Readers(h)' = Readers(h) /\ Waiters(h)' = Waiters(h)
    BY Zenon DEF Counts
  <2> QED BY DEF DataOK, Readers, Waiters, Waiting, Reading
<1>4. Flagged'
  BY ZenonT(30) DEF DataOK, Flagged, OneWriter, Holding, Waiting
<1>5. Passed'
  BY Zenon DEF DataOK, Passed, Leaving
<1> QED BY <1>1, <1>2, <1>3, <1>4, <1>5, Zenon

\* read_lock: the load of write_wait_cnt, which finds the writers ahead.
LEMMA ReadCheckWaitersKeeps == ASSUME LockInv, NEW r \in Requests, ReadCheckWaiters(r) PROVE LockInv'
<1> USE DEF LockInv, HoldsWrite, NoHandle, ReadCheckWaiters, Goto, counters
<1>1. cur[r] \in Handles
  BY Zenon DEF Placed, Located
<1>2. DataOK'
  BY Zenon DEF DataOK, Active
<1>3. Placed'
  BY <1>1, Zenon DEF DataOK, Placed, Located, Waiting, Reading
<1>4. Counts'
  <2> SUFFICES ASSUME NEW h \in Handles PROVE Readers(h)' = Readers(h) /\ Waiters(h)' = Waiters(h)
    BY Zenon DEF Counts
  <2> QED BY Zenon DEF DataOK, Readers, Waiters, Waiting, Reading
<1>5. Flagged'
  BY Zenon DEF DataOK, Flagged, OneWriter, Holding, Waiting
<1>6. ASSUME ~(write_wait_cnt[cur[r]] > 0) PROVE \A w \in Active(cur[r]) : HoldsWrite(w, cur[r])
  <2>1. Cardinality(Waiters(cur[r])) = 0
    BY <1>1, <1>6, CountsFinite, FS_CardinalityType DEF Counts
  <2>2. Waiters(cur[r]) = {}
    BY <2>1, CountsFinite, FS_EmptySet, Zenon
  <2> QED BY <2>2, Zenon DEF Active, Waiters, Waiting
<1>7. Passed'
  <2> SUFFICES ASSUME NEW x \in Requests, NEW w \in ahead'[x]
               PROVE  /\ pc'[x] = "rcheck2" => HoldsWrite(w, cur[x])' \/ pc'[w] \in Leaving
                      /\ pc'[x] \in {"renter", "rlocked", "rflushed"}
                            => pc'[w] \in Leaving /\ ~HoldsWrite(w, cur[x])'
    BY Zenon DEF Passed
  <2>1. CASE x = r
    BY <2>1, <1>6, Zenon DEF DataOK
  <2>2. CASE x # r
    BY <2>2, Zenon DEF DataOK, Passed, Leaving
  <2> QED BY <2>1, <2>2, Zenon
<1> QED BY <1>2, <1>3, <1>4, <1>5, <1>7, Zenon

\* read_lock: the load of exclusive_locking.
LEMMA ReadCheckExclusiveKeeps == ASSUME LockInv, NEW r \in Requests, ReadCheckExclusive(r) PROVE LockInv'
<1> USE DEF LockInv, HoldsWrite, NoHandle, ReadCheckExclusive, Goto, counters
<1>1. cur[r] \in Handles
  BY Zenon DEF Placed, Located
<1>2. DataOK'
  BY Zenon DEF DataOK
<1>3. Placed'
  BY <1>1, Zenon DEF DataOK, Placed, Located, Waiting, Reading
<1>4. Counts'
  <2> SUFFICES ASSUME NEW h \in Handles PROVE Readers(h)' = Readers(h) /\ Waiters(h)' = Waiters(h)
    BY Zenon DEF Counts
  <2> QED BY Zenon DEF DataOK, Readers, Waiters, Waiting, Reading
<1>5. Flagged'
  BY Zenon DEF DataOK, Flagged, OneWriter, Holding, Waiting
<1>6. Passed'
  BY <1>1, Zenon DEF DataOK, Passed, Leaving, Flagged
<1> QED BY <1>2, <1>3, <1>4, <1>5, <1>6, Zenon

\* read_lock: the fetch_add of reader_cnt.
LEMMA ReadEnterKeeps == ASSUME LockInv, NEW r \in Requests, ReadEnter(r) PROVE LockInv'
<1> USE DEF LockInv, HoldsWrite, NoHandle, ReadEnter, Goto
<1>1. cur[r] \in Handles
  BY Zenon DEF Placed, Located
<1>2. DataOK'
  <2>1. reader_cnt' \in [Handles -> Int]
    BY <1>1 DEF DataOK
  <2>2. pc' = [x \in Requests |-> pc'[x]]
    BY Zenon DEF DataOK
  <2> QED BY <2>1, <2>2, Zenon DEF DataOK
<1>3. Placed'
  BY <1>1, Zenon DEF DataOK, Placed, Located, Waiting, Reading
<1>4. Counts'
  <2> SUFFICES ASSUME NEW h \in Handles
               PROVE  /\ reader_cnt'[h] = Cardinality(Readers(h)')
                      /\ write_wait_cnt'[h] = Cardinality(Waiters(h)')
    BY Zenon DEF Counts
  <2>1. Waiters(h)' = Waiters(h)
    BY Zenon DEF DataOK, Waiters, Waiting
  <2>2. CASE h = cur[r]
    <3>1. Readers(h)' = Readers(h) \cup {r} /\ r \notin Readers(h)
      BY <2>2, Zenon DEF DataOK, Readers, Reading
    <3>2. Cardinality(Readers(h)') = Cardinality(Readers(h)) + 1
      BY <3>1, CountsFinite, FS_AddElement, Zenon
    <3>3. reader_cnt'[h] = reader_cnt[h] + 1 /\ write_wait_cnt'[h] = write_wait_cnt[h]
      BY <2>2, Zenon DEF DataOK
    <3> QED BY <2>1, <3>2, <3>3, Zenon DEF Counts
  <2>3. CASE h # cur[r]
    <3>1. Readers(h)' = Readers(h)
      BY <2>3, Zenon DEF DataOK, Readers, Reading
    <3> QED BY <2>1, <2>3, <3>1, Zenon DEF Counts, DataOK
  <2> QED BY <2>2, <2>3, Zenon
<1>5. Flagged'
  BY Zenon DEF DataOK, Flagged, OneWriter, Holding, Waiting
<1>6. Passed'
  BY <1>1, Zenon DEF DataOK, Passed, Leaving
<1> QED BY <1>2, <1>3, <1>4, <1>5, <1>6, Zenon

\* The drop of a read guard: the fetch_sub of reader_cnt.
LEMMA ReadReleaseKeeps == ASSUME LockInv, NEW r \in Requests, ReadRelease(r) PROVE LockInv'
<1> USE DEF LockInv, HoldsWrite, NoHandle, ReadRelease, Goto
<1>1. cur[r] \in Handles
  BY Zenon DEF Placed, Located, Reading
<1>2. DataOK'
  <2>1. reader_cnt' \in [Handles -> Int]
    BY <1>1 DEF DataOK
  <2>2. pc' = [x \in Requests |-> pc'[x]]
    BY Zenon DEF DataOK
  <2> QED BY <2>1, <2>2, Zenon DEF DataOK
<1>3. Placed'
  BY <1>1, Zenon DEF DataOK, Placed, Located, Waiting, Reading
<1>4. Counts'
  <2> SUFFICES ASSUME NEW h \in Handles
               PROVE  /\ reader_cnt'[h] = Cardinality(Readers(h)')
                      /\ write_wait_cnt'[h] = Cardinality(Waiters(h)')
    BY Zenon DEF Counts
  <2>1. Waiters(h)' = Waiters(h)
    BY Zenon DEF DataOK, Waiters, Waiting
  <2>2. CASE h = cur[r]
    <3>1. Readers(h)' = Readers(h) \ {r} /\ r \in Readers(h)
      BY <2>2, Zenon DEF DataOK, Readers, Reading
    <3>2. Cardinality(Readers(h)') = Cardinality(Readers(h)) - 1
      BY <3>1, CountsFinite, FS_RemoveElement, Zenon
    <3>3. reader_cnt'[h] = reader_cnt[h] - 1 /\ write_wait_cnt'[h] = write_wait_cnt[h]
      BY <2>2, Zenon DEF DataOK
    <3> QED BY <2>1, <3>2, <3>3, Zenon DEF Counts
  <2>3. CASE h # cur[r]
    <3>1. Readers(h)' = Readers(h)
      BY <2>3, Zenon DEF DataOK, Readers, Reading
    <3> QED BY <2>1, <2>3, <3>1, Zenon DEF Counts, DataOK
  <2> QED BY <2>2, <2>3, Zenon
<1>5. Flagged'
  BY Zenon DEF DataOK, Flagged, OneWriter, Holding, Waiting
<1>6. Passed'
  BY <1>1, Zenon DEF DataOK, Passed, Leaving
<1> QED BY <1>2, <1>3, <1>4, <1>5, <1>6, Zenon

\* The drop of a guard: notify_waiters.
LEMMA NotifyKeeps == ASSUME LockInv, NEW r \in Requests, ReadNotify(r) \/ WriteNotify(r) PROVE LockInv'
<1> USE DEF LockInv, HoldsWrite, NoHandle, Goto, counters
<1>1. DataOK'
  <2>1. pc' = [x \in Requests |-> pc'[x]]
    BY Zenon DEF ReadNotify, WriteNotify, DataOK
  <2>2. parked' \subseteq Requests /\ ahead' \in [Requests -> SUBSET Requests]
    BY Zenon DEF ReadNotify, WriteNotify, DataOK
  <2> QED BY <2>1, <2>2, Zenon DEF ReadNotify, WriteNotify, DataOK
<1>2. Placed'
  BY DEF ReadNotify, WriteNotify, DataOK, Placed, Located, Waiting, Reading
<1>3. Counts'
  <2> SUFFICES ASSUME NEW h \in Handles PROVE Readers(h)' = Readers(h) /\ Waiters(h)' = Waiters(h)
    BY Zenon DEF ReadNotify, WriteNotify, Counts
  <2> QED BY DEF ReadNotify, WriteNotify, DataOK, Readers, Waiters, Waiting, Reading
<1>4. Flagged'
  BY Zenon DEF ReadNotify, WriteNotify, DataOK, Flagged, OneWriter, Holding, Waiting
<1>5. Passed'
  <2>1. CASE ReadNotify(r)
    BY <2>1, Zenon DEF ReadNotify, DataOK, Passed, Leaving
  <2>2. CASE WriteNotify(r)
    BY <2>2, Zenon DEF WriteNotify, DataOK, Passed, Leaving
  <2> QED BY <2>1, <2>2, Zenon
<1> QED BY <1>1, <1>2, <1>3, <1>4, <1>5, Zenon

\* write_lock: the loads of reader_cnt and of exclusive_locking.
LEMMA WriteCheckKeeps ==
    ASSUME LockInv, NEW r \in Requests, WriteCheckReaders(r) \/ WriteCheckExclusive(r) PROVE LockInv'
<1> USE DEF LockInv, HoldsWrite, NoHandle, WriteCheckReaders, WriteCheckExclusive, Goto, counters
<1>1. DataOK'
  BY Zenon DEF DataOK
<1>2. Placed'
  BY Zenon DEF DataOK, Placed, Located, Waiting, Reading
<1>3. Counts'
  <2> SUFFICES ASSUME NEW h \in Handles PROVE Readers(h)' = Readers(h) /\ Waiters(h)' = Waiters(h)
    BY Zenon DEF Counts
  <2> QED BY DEF DataOK, Readers, Waiters, Waiting, Reading
<1>4. Flagged'
  <2>1. PICK b \in Waiting : pc' = [pc EXCEPT ![r] = b]
    BY Zenon DEF Waiting
  <2> QED BY <2>1 DEF DataOK, Flagged, OneWriter, Holding
<1>5. Passed'
  BY Zenon DEF DataOK, Passed, Leaving
<1> QED BY <1>1, <1>2, <1>3, <1>4, <1>5, Zenon

\* write_lock: the fetch_add of write_wait_cnt.
LEMMA WriteAnnounceKeeps == ASSUME LockInv, NEW r \in Requests, WriteAnnounce(r) PROVE LockInv'
<1> USE DEF LockInv, HoldsWrite, NoHandle, WriteAnnounce, Goto
<1>1. cur[r] \in Handles
  BY Zenon DEF Placed, Located
<1>2. DataOK'
  <2>1. write_wait_cnt' \in [Handles -> Int]
    BY <1>1 DEF DataOK
  <2>2. pc' = [x \in Requests |-> pc'[x]]
    BY Zenon DEF DataOK
  <2> QED BY <2>1, <2>2, Zenon DEF DataOK
<1>3. Placed'
  BY <1>1, Zenon DEF DataOK, Placed, Located, Waiting, Reading
<1>4. Counts'
  <2> SUFFICES ASSUME NEW h \in Handles
               PROVE  /\ reader_cnt'[h] = Cardinality(Readers(h)')
                      /\ write_wait_cnt'[h] = Cardinality(Waiters(h)')
    BY Zenon DEF Counts
  <2>1. Readers(h)' = Readers(h)
    BY Zenon DEF DataOK, Readers, Reading
  <2>2. CASE h = cur[r]
    <3>1. Waiters(h)' = Waiters(h) \cup {r} /\ r \notin Waiters(h)
      BY <2>2, Zenon DEF DataOK, Waiters, Waiting
    <3>2. Cardinality(Waiters(h)') = Cardinality(Waiters(h)) + 1
      BY <3>1, CountsFinite, FS_AddElement, Zenon
    <3>3. write_wait_cnt'[h] = write_wait_cnt[h] + 1 /\ reader_cnt'[h] = reader_cnt[h]
      BY <2>2, Zenon DEF DataOK
    <3> QED BY <2>1, <3>2, <3>3, Zenon DEF Counts
  <2>3. CASE h # cur[r]
    <3>1. Waiters(h)' = Waiters(h)
      BY <2>3, Zenon DEF DataOK, Waiters, Waiting
    <3> QED BY <2>1, <2>3, <3>1, Zenon DEF Counts, DataOK
  <2> QED BY <2>2, <2>3, Zenon
<1>5. Flagged'
  BY Zenon DEF DataOK, Flagged, OneWriter, Holding, Waiting
<1>6. Passed'
  BY <1>1, Zenon DEF DataOK, Passed, Leaving
<1> QED BY <1>2, <1>3, <1>4, <1>5, <1>6, Zenon

\* write_lock: the fetch_sub of write_wait_cnt once it has the flag.
LEMMA WriteLeaveKeeps == ASSUME LockInv, NEW r \in Requests, WriteLeave(r) PROVE LockInv'
<1> USE DEF LockInv, HoldsWrite, NoHandle, WriteLeave, Goto
<1>1. cur[r] \in Handles
  BY Zenon DEF Placed, Located, Waiting
<1>2. DataOK'
  <2>1. write_wait_cnt' \in [Handles -> Int]
    BY <1>1 DEF DataOK
  <2>2. pc' = [x \in Requests |-> pc'[x]]
    BY Zenon DEF DataOK
  <2> QED BY <2>1, <2>2, Zenon DEF DataOK
<1>3. Placed'
  BY <1>1, Zenon DEF DataOK, Placed, Located, Waiting, Reading
<1>4. Counts'
  <2> SUFFICES ASSUME NEW h \in Handles
               PROVE  /\ reader_cnt'[h] = Cardinality(Readers(h)')
                      /\ write_wait_cnt'[h] = Cardinality(Waiters(h)')
    BY Zenon DEF Counts
  <2>1. Readers(h)' = Readers(h)
    BY Zenon DEF DataOK, Readers, Reading
  <2>2. CASE h = cur[r]
    <3>1. Waiters(h)' = Waiters(h) \ {r} /\ r \in Waiters(h)
      BY <2>2, Zenon DEF DataOK, Waiters, Waiting
    <3>2. Cardinality(Waiters(h)') = Cardinality(Waiters(h)) - 1
      BY <3>1, CountsFinite, FS_RemoveElement, Zenon
    <3>3. write_wait_cnt'[h] = write_wait_cnt[h] - 1 /\ reader_cnt'[h] = reader_cnt[h]
      BY <2>2, Zenon DEF DataOK
    <3> QED BY <2>1, <3>2, <3>3, Zenon DEF Counts
  <2>3. CASE h # cur[r]
    <3>1. Waiters(h)' = Waiters(h)
      BY <2>3, Zenon DEF DataOK, Waiters, Waiting
    <3> QED BY <2>1, <2>3, <3>1, Zenon DEF Counts, DataOK
  <2> QED BY <2>2, <2>3, Zenon
<1>5. Flagged'
  BY Zenon DEF DataOK, Flagged, OneWriter, Holding, Waiting
<1>6. Passed'
  BY <1>1, Zenon DEF DataOK, Passed, Leaving
<1> QED BY <1>2, <1>3, <1>4, <1>5, <1>6, Zenon

\* The winner of the compare_exchange found the flag down: nobody has a guard.
LEMMA WriteCasKeeps == ASSUME LockInv, NEW r \in Requests, WriteCas(r) PROVE LockInv'
<1> USE DEF LockInv, NoHandle, WriteCas, Goto
<1>1. cur[r] \in Handles
  BY Zenon DEF Placed, Located, Waiting
<1>2. CASE exclusive_locking[cur[r]]
  <2>1. exclusive_locking' = exclusive_locking
    BY <1>1, <1>2, Zenon DEF DataOK
  <2>2. DataOK'
    BY <1>2, <2>1, Zenon DEF DataOK
  <2>3. Placed'
    BY <1>2, Zenon DEF DataOK, Placed, Located, Waiting, Reading
  <2>4. Counts'
    <3> SUFFICES ASSUME NEW h \in Handles PROVE Readers(h)' = Readers(h) /\ Waiters(h)' = Waiters(h)
      BY Zenon DEF Counts
    <3> QED BY <1>2 DEF DataOK, Readers, Waiters, Waiting, Reading
  <2>5. Flagged'
    <3>1. guards' = guards /\ pc' = [pc EXCEPT ![r] = "wcheck"]
      BY <1>2, Zenon
    <3> QED BY <2>1, <3>1 DEF DataOK, Flagged, OneWriter, HoldsWrite, Holding, Waiting
  <2>6. Passed'
    BY <1>2, Zenon DEF DataOK, Passed, Leaving, HoldsWrite
  <2> QED BY <2>2, <2>3, <2>4, <2>5, <2>6, Zenon
<1>3. CASE ~exclusive_locking[cur[r]]
  <2>1. guards' = [guards EXCEPT ![r] = Append(guards[r], cur[r])] /\ pc' = [pc EXCEPT ![r] = "leave"]
    BY <1>3, Zenon
  <2>2. \A x \in Requests : ~HoldsWrite(x, cur[r])
    BY <1>1, <1>3, Zenon DEF Flagged
  <2>3. guards'[r] = Append(guards[r], cur[r]) /\ \A x \in Requests \ {r} : guards'[x] = guards[x]
    BY <2>1, Zenon DEF DataOK
  <2>4. Range(guards'[r]) = Range(guards[r]) \cup {cur[r]} /\ IsInjective(guards'[r])
    BY <1>1, <2>2, <2>3, RangeOfAppend, InjectiveAppend DEF DataOK, Flagged, HoldsWrite
  <2>5. DataOK'
    <3>1. exclusive_locking' \in [Handles -> BOOLEAN] /\ guards' \in [Requests -> Seq(Handles)]
      BY <1>1, <2>1 DEF DataOK
    <3> QED BY <2>1, <3>1, Zenon DEF DataOK
  <2>6. Placed'
    BY <1>1, <2>1, Zenon DEF DataOK, Placed, Located, Waiting, Reading
  <2>7. Counts'
    <3> SUFFICES ASSUME NEW h \in Handles PROVE Readers(h)' = Readers(h) /\ Waiters(h)' = Waiters(h)
      BY Zenon DEF Counts
    <3> QED BY <2>1, Zenon DEF DataOK, Readers, Waiters, Waiting, Reading
  <2>8. \A x \in Requests, h \in Handles :
            HoldsWrite(x, h)' <=> HoldsWrite(x, h) \/ (x = r /\ h = cur[r])
    BY <2>3, <2>4, Zenon DEF HoldsWrite
  <2>9. Flagged'
    <3>1. \A h \in Handles : exclusive_locking'[h] <=> \E x \in Requests : HoldsWrite(x, h)'
      BY <1>1, <2>8, Zenon DEF Flagged, DataOK
    <3>2. \A x \in Requests : IsInjective(guards'[x])
      BY <2>3, <2>4, Zenon DEF Flagged
    <3>3. \A x \in Requests : guards'[x] # <<>> => pc'[x] \in Holding
      BY <2>1, <2>3, Zenon DEF Flagged, DataOK, Holding, Waiting
    <3>4. OneWriter'
      BY <2>2, <2>8 DEF Flagged, OneWriter
    <3> QED BY <3>1, <3>2, <3>3, <3>4, Zenon DEF Flagged
  <2>10. Passed'
    <3> SUFFICES ASSUME NEW x \in Requests, NEW w \in ahead[x]
                 PROVE  /\ pc'[x] = "rcheck2" => HoldsWrite(w, cur[x])' \/ pc'[w] \in Leaving
                        /\ pc'[x] \in {"renter", "rlocked", "rflushed"}
                              => pc'[w] \in Leaving /\ ~HoldsWrite(w, cur[x])'
      BY Zenon DEF Passed
    <3>0. w \in Requests
      BY Zenon DEF DataOK
    <3>1. pc'[x] \in {"rcheck2", "renter", "rlocked", "rflushed"} => cur[x] \in Handles /\ pc[x] = pc'[x]
      BY <2>1, Zenon DEF DataOK, Placed, Located, Reading
    <3>2. pc[w] \in Leaving => w # r /\ pc'[w] = pc[w]
      BY <2>1, <3>0, Zenon DEF DataOK, Leaving
    <3>3. HoldsWrite(w, cur[x])' = (cur[x] \in Range(guards'[w]))
      BY Zenon DEF HoldsWrite
    <3>4. cur[x] \in Handles => (cur[x] \in Range(guards'[w]) <=> HoldsWrite(w, cur[x]) \/ (w = r /\ cur[x] = cur[r]))
      BY <2>8, <3>0, Zenon DEF HoldsWrite
    <3> QED BY <3>1, <3>2, <3>3, <3>4, Zenon DEF Passed
  <2> QED BY <2>5, <2>6, <2>7, <2>9, <2>10, Zenon
<1> QED BY <1>2, <1>3, Zenon

\* A guard that is dropped was the only one of its handle.
LEMMA WriteReleaseKeeps == ASSUME LockInv, NEW r \in Requests, WriteRelease(r) PROVE LockInv'
<1> USE DEF LockInv, NoHandle, WriteRelease, Goto
<1>1. CASE guards[r] = <<>>
  <2>1. /\ pc' = [pc EXCEPT ![r] = "done"] /\ cur' = [cur EXCEPT ![r] = NoHandle]
        /\ UNCHANGED <<reader_cnt, write_wait_cnt, exclusive_locking, guards, parked, ahead>>
    BY <1>1, Zenon
  <2>2. DataOK'
    BY <2>1, Zenon DEF DataOK
  <2>3. Placed'
    BY <2>1, Zenon DEF DataOK, Placed, Located, Waiting, Reading
  <2>4. Counts'
    <3> SUFFICES ASSUME NEW h \in Handles PROVE Readers(h)' = Readers(h) /\ Waiters(h)' = Waiters(h)
      BY <2>1, Zenon DEF Counts
    <3> QED BY <2>1, Zenon DEF DataOK, Readers, Waiters, Waiting, Reading
  <2>5. Flagged'
    BY <1>1, <2>1, Zenon DEF DataOK, Flagged, OneWriter, HoldsWrite
  <2>6. Passed'
    BY <2>1, Zenon DEF DataOK, Passed, Leaving, HoldsWrite
  <2> QED BY <2>2, <2>3, <2>4, <2>5, <2>6, Zenon
<1>2. CASE guards[r] # <<>>
  <2> DEFINE h0 == Head(guards[r])
  <2>1. /\ pc' = [pc EXCEPT ![r] = "wnotify"] /\ cur' = [cur EXCEPT ![r] = h0]
        /\ exclusive_locking' = [exclusive_locking EXCEPT ![h0] = FALSE]
        /\ guards' = [guards EXCEPT ![r] = Tail(guards[r])]
        /\ UNCHANGED <<reader_cnt, write_wait_cnt, parked, ahead>>
    BY <1>2, Zenon
  <2>2. h0 \in Handles /\ Tail(guards[r]) \in Seq(Handles)
    BY <1>2 DEF DataOK
  <2>3. guards'[r] = Tail(guards[r]) /\ \A x \in Requests \ {r} : guards'[x] = guards[x]
    BY <2>1, Zenon DEF DataOK
  <2>4. /\ Range(guards'[r]) = Range(guards[r]) \ {h0} /\ h0 \in Range(guards[r])
        /\ IsInjective(guards'[r])
    BY <1>2, <2>3, RangeOfTail DEF DataOK, Flagged
  <2> HIDE DEF h0
  <2>5. DataOK'
    <3>1. exclusive_locking' \in [Handles -> BOOLEAN] /\ guards' \in [Requests -> Seq(Handles)]
      BY <2>1, <2>2, Zenon DEF DataOK
    <3>2. pc' = [x \in Requests |-> pc'[x]] /\ cur' \in [Requests -> Handles \cup {NoHandle}]
      BY <2>1, <2>2, Zenon DEF DataOK
    <3> QED BY <2>1, <3>1, <3>2, Zenon DEF DataOK
  <2>6. Placed'
    BY <2>1, <2>2, Zenon DEF DataOK, Placed, Located, Waiting, Reading
  <2>7. Counts'
    <3> SUFFICES ASSUME NEW h \in Handles PROVE Readers(h)' = Readers(h) /\ Waiters(h)' = Waiters(h)
      BY <2>1, Zenon DEF Counts
    <3> QED BY <2>1, Zenon DEF DataOK, Readers, Waiters, Waiting, Reading
  <2>8. \A x \in Requests, h \in Handles :
            HoldsWrite(x, h)' <=> HoldsWrite(x, h) /\ ~(x = r /\ h = h0)
    BY <2>3, <2>4, Zenon DEF HoldsWrite
  <2>9. \A x \in Requests : HoldsWrite(x, h0) <=> x = r
    BY <2>2, <2>4, Zenon DEF Flagged, OneWriter, HoldsWrite
  <2>10. Flagged'
    <3>1. \A h \in Handles : exclusive_locking'[h] <=> \E x \in Requests : HoldsWrite(x, h)'
      BY <2>1, <2>2, <2>8, <2>9 DEF Flagged, DataOK
    <3>2. \A x \in Requests : IsInjective(guards'[x])
      BY <2>3, <2>4, Zenon DEF Flagged
    <3>3. \A x \in Requests : guards'[x] # <<>> => pc'[x] \in Holding
      BY <2>1, <2>3, Zenon DEF Flagged, DataOK, Holding
    <3>4. OneWriter'
      BY <2>8, Zenon DEF Flagged, OneWriter
    <3> QED BY <3>1, <3>2, <3>3, <3>4, Zenon DEF Flagged
  <2>11. Passed'
    <3> SUFFICES ASSUME NEW x \in Requests, NEW w \in ahead[x]
                 PROVE  /\ pc'[x] = "rcheck2" => HoldsWrite(w, cur[x])' \/ pc'[w] \in Leaving
                        /\ pc'[x] \in {"renter", "rlocked", "rflushed"}
                              => pc'[w] \in Leaving /\ ~HoldsWrite(w, cur[x])'
      BY <2>1, Zenon DEF Passed
    <3>0. w \in Requests
      BY Zenon DEF DataOK
    <3>1. pc'[x] \in {"rcheck2", "renter", "rlocked", "rflushed"}
            => x # r /\ cur[x] \in Handles /\ pc[x] = pc'[x] /\ cur'[x] = cur[x]
      BY <2>1, Zenon DEF DataOK, Placed, Located, Reading
    <3>2. pc[w] \in Leaving => pc'[w] \in Leaving
      BY <2>1, <3>0, Zenon DEF DataOK, Leaving
    <3>3. pc'[r] \in Leaving
      BY <2>1, Zenon DEF DataOK, Leaving
    <3>4. HoldsWrite(w, cur[x])' = (cur'[x] \in Range(guards'[w]))
      BY Zenon DEF HoldsWrite
    <3>5. cur[x] \in Handles => (cur[x] \in Range(guards'[w]) <=> HoldsWrite(w, cur[x]) /\ ~(w = r /\ cur[x] = h0))
      BY <2>8, <3>0, Zenon DEF HoldsWrite
    <3> QED BY <3>1, <3>2, <3>3, <3>4, <3>5, Zenon DEF Passed
  <2> QED BY <2>5, <2>6, <2>7, <2>10, <2>11, Zenon
<1> QED BY <1>1, <1>2, Zenon

\* Every step of the lock.
LEMMA LockStepKeeps == ASSUME LockInv, NEW r \in Requests, LockStep(r) PROVE LockInv'
BY ParkKeeps, ReadCheckWaitersKeeps, ReadCheckExclusiveKeeps, ReadEnterKeeps, ReadReleaseKeeps,
   NotifyKeeps, WriteCheckKeeps, WriteAnnounceKeeps, WriteLeaveKeeps, WriteCasKeeps,
   WriteReleaseKeeps, Zenon DEF LockStep
-----------------------------------------------------------------------------
(* The requests around the lock.                                            *)

\* A request keeps the fields it began with.
ReadShape(q) == q = [kind |-> "read", h |-> q.h] /\ q.h \in Handles
WriteShape(q) == q = [kind |-> "write", h |-> q.h, end |-> q.end] /\ q.h \in Handles
FlushShape(q) == q = [kind |-> "flush", h |-> q.h] /\ q.h \in Handles
ReleaseShape(q) == q = [kind |-> "release", h |-> q.h] /\ q.h \in Handles
OpenShape(q) == q = [kind |-> "open", h |-> q.h] /\ q.h \in Handles
OpenedShape(q) == q = [kind |-> "open", h |-> q.h, len |-> q.len] /\ q.h \in Handles
TruncateShape(q) ==
    /\ q = [kind |-> "truncate", h |-> q.h, size |-> q.size, all |-> q.all, rest |-> q.rest]
    /\ q.rest \subseteq Handles

\* The steps of a read, of taking and leaving a write lock, of a release.
ReadSteps == {"rcheck", "rcheck2", "rpark", "rwait", "renter", "rlocked", "rflushed", "rdrop", "rnotify"}
LockSteps == Waiting \cup {"announce", "wlocked", "wdrop", "wnotify"}
ReleaseSteps == {"drain", "drain2", "drain3", "dpark", "dwait",
                 "lflush", "lmeta", "lremove", "lreader", "lfinish", "lclose"}

\* The steps of a request are those of its kind.
Fits(q, p) ==
    \/ q = None /\ p \in {"idle", "done"}
    \/ ReadShape(q) /\ p \in ReadSteps
    \/ WriteShape(q) /\ p \in LockSteps \cup {"wrote", "wlength", "done"}
    \/ FlushShape(q) /\ p \in LockSteps \cup {"done"}
    \/ TruncateShape(q) /\ p \in LockSteps \cup {"tnext", "tmeta", "tlen", "treaders"}
    \/ OpenShape(q) /\ p = "open"
    \/ OpenedShape(q) /\ p \in {"olen", "otell", "oreader", "owriter", "oinsert", "done"}
    \/ ReleaseShape(q) /\ p \in ReleaseSteps \cup {"done"}

\* What is known of all requests.
RequestsOK ==
    /\ req = [r \in Requests |-> req[r]]
    /\ \A r \in Requests : Fits(req[r], pc[r])
    /\ table \subseteq Handles

\* One field of a request is replaced.
LEMMA EndChanged ==
    ASSUME NEW q, NEW n, q = [kind |-> "write", h |-> q.h, end |-> q.end]
    PROVE  [q EXCEPT !.end = n] = [kind |-> "write", h |-> q.h, end |-> n]
<1> DEFINE h == q.h
           e == q.end
<1>1. q = [kind |-> "write", h |-> h, end |-> e]
  BY Zenon
<1> HIDE DEF h, e
<1> SUFFICES [q EXCEPT !.end = n] = [kind |-> "write", h |-> h, end |-> n]
  BY Zenon DEF h
<1> QED BY <1>1

\* The same for an open.
LEMMA LenChanged ==
    ASSUME NEW q, NEW n, q = [kind |-> "open", h |-> q.h, len |-> q.len]
    PROVE  [q EXCEPT !.len = n] = [kind |-> "open", h |-> q.h, len |-> n]
<1> DEFINE h == q.h
           e == q.len
<1>1. q = [kind |-> "open", h |-> h, len |-> e]
  BY Zenon
<1> HIDE DEF h, e
<1> SUFFICES [q EXCEPT !.len = n] = [kind |-> "open", h |-> h, len |-> n]
  BY Zenon DEF h
<1> QED BY <1>1

\* The same for a truncate.
LEMMA RestChanged ==
    ASSUME NEW q, NEW n,
           q = [kind |-> "truncate", h |-> q.h, size |-> q.size, all |-> q.all, rest |-> q.rest]
    PROVE  [q EXCEPT !.rest = n]
             = [kind |-> "truncate", h |-> q.h, size |-> q.size, all |-> q.all, rest |-> n]
<1> DEFINE h == q.h
           s == q.size
           a == q.all
           e == q.rest
<1>1. q = [kind |-> "truncate", h |-> h, size |-> s, all |-> a, rest |-> e]
  BY Zenon
<1> HIDE DEF h, s, a, e
<1> SUFFICES [q EXCEPT !.rest = n] = [kind |-> "truncate", h |-> h, size |-> s, all |-> a, rest |-> n]
  BY Zenon DEF h, s, a
<1> QED BY <1>1

\* One request moves on; it is enough to look at that one.
LEMMA OneFits ==
    ASSUME LockInv, RequestsOK, NEW r \in Requests, NEW q, NEW b,
           req' = [req EXCEPT ![r] = q], pc' = [pc EXCEPT ![r] = b],
           Fits(q, b), table' \subseteq Handles
    PROVE  RequestsOK'
<1>1. req'[r] = q /\ pc'[r] = b /\ \A x \in Requests \ {r} : req'[x] = req[x] /\ pc'[x] = pc[x]
  BY Zenon DEF RequestsOK, LockInv, DataOK
<1>2. req' = [x \in Requests |-> req'[x]]
  BY Zenon DEF RequestsOK
<1>3. \A x \in Requests : Fits(req'[x], pc'[x])
  BY <1>1, Zenon DEF RequestsOK
<1>4. \A x \in Requests : Fits(req[x], pc[x])'
  BY <1>3, Zenon DEF Fits, None, ReadShape, WriteShape, FlushShape, TruncateShape, OpenShape, OpenedShape,
              ReleaseShape
<1> QED BY <1>2, <1>4, Zenon DEF RequestsOK

\* The same for a request that remembers nothing new.
LEMMA SameFits ==
    ASSUME LockInv, RequestsOK, NEW r \in Requests, NEW b,
           req' = req, pc' = [pc EXCEPT ![r] = b], Fits(req[r], b), table' \subseteq Handles
    PROVE  RequestsOK'
<1>1. req' = [req EXCEPT ![r] = req[r]]
  BY Zenon DEF RequestsOK
<1> QED BY <1>1, OneFits, Zenon

\* A step outside the lock moves one request within the classes.
LEMMA StepKeeps ==
    ASSUME LockInv, RequestsOK, NEW r \in Requests, NEW a, NEW b, Step(r, a, b),
           req' = req, table' \subseteq Handles, Fits(req[r], b), Neutral(r, b, cur[r])
    PROVE  LockInv' /\ RequestsOK'
<1>1. Moves(r, b, cur[r]) /\ pc' = [pc EXCEPT ![r] = b] /\ cur[r] \in Handles \cup {NoHandle}
  BY Zenon DEF Step, Goto, Moves, LockInv, DataOK
<1> QED BY <1>1, NeutralKeeps, SameFits, Zenon

\* The steps of the lock go on with the request that takes them, and the
\* last one forgets it.
LEMMA LockStepFits ==
    ASSUME LockInv, RequestsOK, NEW r \in Requests, LockStep(r), UNCHANGED fileVars,
           req' = IF pc'[r] = "done" THEN [req EXCEPT ![r] = None] ELSE req
    PROVE  RequestsOK'
<1> DEFINE b == pc'[r]
<1>1. pc' = [pc EXCEPT ![r] = b]
  BY Zenon DEF LockInv, DataOK, LockStep, Goto, Park, Woken, ReadCheckWaiters, ReadCheckExclusive,
         ReadEnter, ReadRelease, ReadNotify, WriteAnnounce, WriteCheckReaders, WriteCheckExclusive,
         WriteCas, WriteLeave, WriteRelease, WriteNotify
<1>2. \/ b = "done"
      \/ pc[r] \in ReadSteps /\ b \in ReadSteps
      \/ pc[r] \in LockSteps /\ b \in LockSteps
      \/ pc[r] \in {"dpark", "dwait"} /\ b \in {"dwait", "drain"}
  BY Zenon DEF LockInv, DataOK, LockStep, Goto, Park, Woken, ReadCheckWaiters, ReadCheckExclusive,
         ReadEnter, ReadRelease, ReadNotify, WriteAnnounce, WriteCheckReaders, WriteCheckExclusive,
         WriteCas, WriteLeave, WriteRelease, WriteNotify, ReadSteps, LockSteps, Waiting
<1>3. table' \subseteq Handles
  BY Zenon DEF RequestsOK, fileVars
<1> HIDE DEF b
<1>4. CASE b = "done"
  <2>1. Fits(None, b)
    BY <1>4, Zenon DEF Fits
  <2>2. req' = [req EXCEPT ![r] = None]
    BY <1>4, Zenon DEF b
  <2> QED BY <1>1, <1>3, <2>1, <2>2, OneFits, Zenon
<1>5. CASE b # "done"
  <2>1. Fits(req[r], pc[r])
    BY Zenon DEF RequestsOK
  <2>2. Fits(req[r], b)
    BY <1>2, <1>5, <2>1, Zenon DEF Fits, ReadSteps, LockSteps, Waiting, ReleaseSteps
  <2>3. req' = req
    BY <1>5, Zenon DEF b
  <2> QED BY <1>1, <1>3, <2>2, <2>3, SameFits, Zenon
<1> QED BY <1>4, <1>5, Zenon

\* read, write and flush while they hold the lock.
LEMMA AccessKeeps ==
    ASSUME LockInv, RequestsOK, NEW r \in Requests,
           \/ ReadFlush(r) \/ ReadFlushFails(r) \/ ReadData(r)
           \/ WriteData(r) \/ WriteFails(r) \/ WriteTruncateReader(r) \/ FlushWriter(r)
    PROVE  LockInv' /\ RequestsOK'
<1> USE DEF fileVars, Neutral, Waiting, Reading, Holding, Leaving, Located
<1>1. Fits(req[r], pc[r]) /\ table \subseteq Handles /\ (pc[r] \in Located => cur[r] \in Handles)
  BY Zenon DEF RequestsOK, LockInv, Placed
<1> HIDE DEF Located
<1>2. CASE ReadFlush(r)
  <2>1. Step(r, "rlocked", "rflushed") /\ pc[r] = "rlocked" /\ req' = req /\ table' = table
    BY <1>2, Zenon DEF ReadFlush, Step
  <2>2. Fits(req[r], "rflushed") /\ cur[r] \in Handles
    BY <1>1, <2>1, Zenon DEF Fits, ReadSteps, LockSteps, ReleaseSteps, Located
  <2> QED BY <1>1, <2>1, <2>2, StepKeeps, Zenon
<1>3. CASE ReadFlushFails(r) \/ ReadData(r)
  <2>1. PICK a \in {"rlocked", "rflushed"} :
          Step(r, a, "rdrop") /\ pc[r] = a /\ req' = req /\ table' = table
    BY <1>3, SMTT(20) DEF ReadFlushFails, ReadData, Step
  <2>2. Fits(req[r], "rdrop") /\ cur[r] \in Handles
    BY <1>1, <2>1, SMTT(20) DEF Fits, ReadSteps, LockSteps, ReleaseSteps, Located
  <2> QED BY <1>1, <2>1, <2>2, StepKeeps, Zenon
<1>4. CASE WriteData(r)
  <2>1. Step(r, "wlocked", "wrote") /\ pc[r] = "wlocked" /\ req' = req /\ table' = table
        /\ req[r].kind = "write"
    BY <1>4, Zenon DEF WriteData, Step, Is
  <2>2. Fits(req[r], "wrote")
    BY <1>1, <2>1, SMTT(20) DEF Fits, ReadSteps, LockSteps, ReleaseSteps, None, WriteShape, FlushShape,
                      TruncateShape
  <2> QED BY <1>1, <2>1, <2>2, StepKeeps, SMTT(20) DEF Located
<1>5. CASE WriteFails(r) \/ WriteTruncateReader(r) \/ FlushWriter(r)
  <2>1. PICK a \in {"wlocked", "wlength"} :
          Step(r, a, "wdrop") /\ pc[r] = a /\ req' = req /\ table' = table
    BY <1>5, Zenon DEF WriteFails, WriteTruncateReader, FlushWriter, Step
  <2>2. Fits(req[r], "wdrop")
    BY <1>1, <2>1, Zenon DEF Fits, ReadSteps, LockSteps, ReleaseSteps
  <2> QED BY <1>1, <2>1, <2>2, StepKeeps, SMTT(20) DEF Located
<1> QED BY <1>2, <1>3, <1>4, <1>5, Zenon

\* write learns the length and remembers it.
LEMMA WriteGetLengthKeeps ==
    ASSUME LockInv, RequestsOK, NEW r \in Requests, WriteGetLength(r) PROVE LockInv' /\ RequestsOK'
<1> DEFINE q == [kind |-> "write", h |-> req[r].h, end |-> fw[ref[req[r].h]].len]
<1>1. /\ Step(r, "wrote", "wlength") /\ pc[r] = "wrote" /\ table' = table
      /\ req' = [req EXCEPT ![r].end = fw[ref[req[r].h]].len]
  BY Zenon DEF WriteGetLength, Step, fileVars
<1>2. WriteShape(req[r])
  BY <1>1, Zenon DEF RequestsOK, Fits, ReadSteps, LockSteps, ReleaseSteps, Waiting
<1>3. req' = [req EXCEPT ![r] = q] /\ Fits(q, "wlength")
  <2>1. [req[r] EXCEPT !.end = fw[ref[req[r].h]].len] = q
    BY <1>2, EndChanged, Zenon DEF WriteShape
  <2>2. WriteShape(q)
    BY <1>2, Zenon DEF WriteShape
  <2> HIDE DEF q
  <2>3. Fits(q, "wlength")
    BY <2>2, Zenon DEF Fits
  <2> QED BY <1>1, <2>1, <2>3, Zenon
<1>4. Moves(r, "wlength", cur[r]) /\ pc' = [pc EXCEPT ![r] = "wlength"]
  BY <1>1, Zenon DEF Step, Goto, Moves, LockInv, DataOK
<1>5. Neutral(r, "wlength", cur[r]) /\ cur[r] \in Handles \cup {NoHandle}
  BY <1>1, Zenon DEF Neutral, Waiting, Reading, Holding, Leaving, Located, LockInv, DataOK
<1>6. table' \subseteq Handles
  BY <1>1, Zenon DEF RequestsOK
<1> QED BY <1>3, <1>4, <1>5, <1>6, NeutralKeeps, OneFits, Zenon

\* truncate between two locks, and once it has them all.
LEMMA TruncateKeeps ==
    ASSUME LockInv, RequestsOK, NEW r \in Requests,
           \/ TruncateLocked(r) \/ TruncateFlush(r) \/ TruncateMeta(r) \/ TruncateMetaFails(r)
           \/ TruncateSetLength(r) \/ TruncateReaders(r)
    PROVE  LockInv' /\ RequestsOK'
<1> DEFINE b == pc'[r]
<1>1. /\ Step(r, pc[r], b) /\ req' = req /\ table' = table
      /\ \/ pc[r] = "wlocked" /\ b = "tnext" /\ req[r].kind = "truncate"
         \/ pc[r] \in {"tnext", "tmeta", "tlen", "treaders"} /\ b \in {"tmeta", "tlen", "treaders", "wdrop"}
  BY Zenon DEF TruncateLocked, TruncateFlush, TruncateMeta, TruncateMetaFails, TruncateSetLength,
     TruncateReaders, Step, Goto, Is, fileVars, LockInv, DataOK
<1> HIDE DEF b
<1>2. TruncateShape(req[r])
  BY <1>1 DEF RequestsOK, Fits, ReadSteps, LockSteps, ReleaseSteps, Waiting, None, WriteShape, FlushShape
<1>3. Fits(req[r], b)
  BY <1>1, <1>2, Zenon DEF Fits, LockSteps
<1>4. Neutral(r, b, cur[r])
  BY <1>1, Zenon DEF Neutral, Waiting, Reading, Holding, Leaving, Located
<1>5. table' \subseteq Handles
  BY <1>1, Zenon DEF RequestsOK
<1> QED BY <1>1, <1>3, <1>4, <1>5, StepKeeps, Zenon

\* truncate goes to the next of its handles.
LEMMA TruncateNextKeeps ==
    ASSUME LockInv, RequestsOK, NEW r \in Requests, TruncateNext(r) PROVE LockInv' /\ RequestsOK'
<1>1. PICK h \in req[r].rest :
        /\ pc[r] = "tnext" /\ table' = table
        /\ req' = [req EXCEPT ![r].rest = req[r].rest \ {h}]
        /\ IF ref[h] # 0 THEN Goto(r, "announce") /\ cur' = [cur EXCEPT ![r] = h]
           ELSE Goto(r, IF req[r].h = h THEN "wdrop" ELSE "tnext") /\ UNCHANGED cur
        /\ UNCHANGED <<counters, guards, parked, ahead>>
  BY Zenon DEF TruncateNext, fileVars
<1> DEFINE q == [kind |-> "truncate", h |-> req[r].h, size |-> req[r].size, all |-> req[r].all,
                 rest |-> req[r].rest \ {h}]
           b == pc'[r]
           c == cur'[r]
<1>2. TruncateShape(req[r])
  BY <1>1, Zenon DEF RequestsOK, Fits, ReadSteps, LockSteps, ReleaseSteps, Waiting
<1>3. h \in Handles /\ req[r].rest \ {h} \subseteq Handles
  BY <1>1, <1>2, Zenon DEF TruncateShape
<1>4. req' = [req EXCEPT ![r] = q]
  <2>1. [req[r] EXCEPT !.rest = req[r].rest \ {h}] = q
    BY <1>2, RestChanged, Zenon DEF TruncateShape
  <2> HIDE DEF q
  <2> QED BY <1>1, <2>1, Zenon
<1>5. TruncateShape(q)
  BY <1>3, Zenon DEF TruncateShape
<1>6. /\ pc' = [pc EXCEPT ![r] = b] /\ cur' = [cur EXCEPT ![r] = c]
      /\ b \in {"announce", "wdrop", "tnext"} /\ c \in Handles \cup {NoHandle}
      /\ b = "announce" => c \in Handles
  BY <1>1, <1>3, Zenon DEF Goto, LockInv, DataOK
<1> HIDE DEF b, c, q
<1>7. Fits(q, b)
  BY <1>5, <1>6, Zenon DEF Fits, LockSteps
<1>8. Moves(r, b, c) /\ Neutral(r, b, c)
  BY <1>1, <1>6, Zenon DEF Moves, Neutral, Waiting, Reading, Holding, Leaving, Located
<1>9. table' \subseteq Handles
  BY <1>1, SMTT(20) DEF RequestsOK
<1> QED BY <1>4, <1>6, <1>7, <1>8, <1>9, NeutralKeeps, OneFits, Zenon

\* open never meets the lock.
LEMMA OpenKeeps ==
    ASSUME LockInv, RequestsOK, NEW r \in Requests,
           \/ OpenTellReaders(r) \/ OpenReader(r) \/ OpenWriter(r) \/ OpenRefused(r) \/ OpenInsert(r)
    PROVE  LockInv' /\ RequestsOK'
<1> DEFINE b == pc'[r]
<1>1. /\ Step(r, pc[r], b) /\ req' = req /\ table' \subseteq table \cup {req[r].h}
      /\ pc[r] \in {"otell", "oreader", "owriter", "oinsert"} /\ b \in {"oreader", "owriter", "oinsert", "done"}
  BY Zenon DEF OpenTellReaders, OpenReader, OpenWriter, OpenRefused, OpenInsert, Step, Goto,
         fileVars, LockInv, DataOK
<1> HIDE DEF b
<1>2. OpenedShape(req[r])
  BY <1>1, Zenon DEF RequestsOK, Fits, ReadSteps, LockSteps, ReleaseSteps, Waiting
<1>3. Fits(req[r], b)
  BY <1>1, <1>2, Zenon DEF Fits
<1>4. Neutral(r, b, cur[r])
  BY <1>1, Zenon DEF Neutral, Waiting, Reading, Holding, Leaving, Located
<1>5. table' \subseteq Handles
  BY <1>1, <1>2, Zenon DEF RequestsOK, OpenedShape
<1> QED BY <1>1, <1>3, <1>4, <1>5, StepKeeps, Zenon

\* open remembers the length the metadata and the writer know.
LEMMA OpenLengthKeeps ==
    ASSUME LockInv, RequestsOK, NEW r \in Requests, OpenInode(r) \/ OpenLength(r)
    PROVE  LockInv' /\ RequestsOK'
<1> DEFINE b == pc'[r]
           q == [kind |-> "open", h |-> req[r].h, len |-> req'[r].len]
<1>1. /\ Step(r, pc[r], b) /\ table' = table
      /\ pc[r] \in {"open", "olen"} /\ b \in {"olen", "otell", "oreader"}
  BY Zenon DEF OpenInode, OpenLength, Step, Goto, fileVars, LockInv, DataOK
<1> HIDE DEF b
<1>2. OpenShape(req[r]) \/ OpenedShape(req[r])
  BY <1>1, Zenon DEF RequestsOK, Fits, ReadSteps, LockSteps, ReleaseSteps, Waiting
<1>3. req' = [req EXCEPT ![r] = q] /\ OpenedShape(q)
  <2>1. CASE OpenInode(r)
    BY <1>2, <2>1, Zenon DEF OpenInode, RequestsOK, OpenShape, OpenedShape
  <2>2. CASE OpenLength(r)
    <3>1. OpenedShape(req[r])
      BY <2>2, Zenon DEF OpenLength, Step, RequestsOK, Fits, ReadSteps, LockSteps, ReleaseSteps, Waiting
    <3>2. PICK n : req' = [req EXCEPT ![r].len = n]
      BY <2>2, Zenon DEF OpenLength
    <3>3. [req[r] EXCEPT !.len = n] = [kind |-> "open", h |-> req[r].h, len |-> n]
      BY <3>1, LenChanged, Zenon DEF OpenedShape
    <3>4. req' = [req EXCEPT ![r] = [kind |-> "open", h |-> req[r].h, len |-> n]]
      BY <3>2, <3>3, Zenon
    <3>5. req'[r] = [kind |-> "open", h |-> req[r].h, len |-> n]
      BY <3>4, Zenon DEF RequestsOK
    <3>6. q = [kind |-> "open", h |-> req[r].h, len |-> n]
      BY <3>5
    <3> HIDE DEF q
    <3> QED BY <3>1, <3>4, <3>6, Zenon DEF OpenedShape
  <2> QED BY <2>1, <2>2, Zenon
<1> HIDE DEF q
<1>4. Fits(q, b)
  BY <1>1, <1>3, Zenon DEF Fits
<1>5. Neutral(r, b, cur[r])
  BY <1>1, Zenon DEF Neutral, Waiting, Reading, Holding, Leaving, Located
<1>6. Moves(r, b, cur[r]) /\ pc' = [pc EXCEPT ![r] = b] /\ cur[r] \in Handles \cup {NoHandle}
  BY <1>1, Zenon DEF Step, Goto, Moves, LockInv, DataOK
<1>7. table' \subseteq Handles
  BY <1>1, Zenon DEF RequestsOK
<1> QED BY <1>3, <1>4, <1>5, <1>6, <1>7, NeutralKeeps, OneFits, Zenon

\* release: only the drain and the way out of the table are at the handle.
LEMMA ReleaseKeeps ==
    ASSUME LockInv, RequestsOK, NEW r \in Requests,
           \/ ReleaseDrain(r) \/ ReleaseFlush(r) \/ ReleaseMeta(r) \/ ReleaseRemove(r)
           \/ ReleaseReader(r) \/ ReleaseFinish(r) \/ ReleaseWriter(r)
    PROVE  LockInv' /\ RequestsOK'
<1> DEFINE b == pc'[r]
           At == {"drain", "drain2", "drain3", "dpark", "lflush", "lmeta", "lremove"}
           Out == {"lreader", "lfinish", "lclose"}
<1>1. CASE ReleaseDrain(r)
  <2>1. /\ Step(r, pc[r], b) /\ req' = req /\ table' = table
        /\ pc[r] \in {"drain", "drain2", "drain3"} /\ b \in At \cup Out
    BY <1>1, Zenon DEF ReleaseDrain, DrainCheck, Step, Goto, fileVars, LockInv, DataOK
  <2>2. cur[r] \in Handles
    BY <2>1, Zenon DEF LockInv, Placed, Located
  <2> HIDE DEF b
  <2>3. Fits(req[r], b)
    BY <2>1, SMTT(20) DEF RequestsOK, Fits, ReadSteps, LockSteps, ReleaseSteps, Waiting
  <2>4. Neutral(r, b, cur[r])
    BY <2>1, <2>2, Zenon DEF Neutral, Waiting, Reading, Holding, Leaving, Located
  <2>5. table' \subseteq Handles
    BY <2>1, SMTT(20) DEF RequestsOK
  <2> QED BY <2>1, <2>3, <2>4, <2>5, StepKeeps, Zenon
<1>2. CASE ReleaseFlush(r) \/ ReleaseMeta(r) \/ ReleaseRemove(r)
  <2>1. /\ Step(r, pc[r], b) /\ req' = req /\ table' \subseteq table
        /\ pc[r] \in {"lflush", "lmeta", "lremove"} /\ b \in At \cup {"done"}
    BY <1>2, Zenon DEF ReleaseFlush, ReleaseMeta, ReleaseRemove, Step, Goto, fileVars, LockInv, DataOK
  <2>2. cur[r] \in Handles
    BY <2>1, Zenon DEF LockInv, Placed, Located
  <2> HIDE DEF b
  <2>3. Fits(req[r], b)
    BY <2>1, SMTT(20) DEF RequestsOK, Fits, ReadSteps, LockSteps, ReleaseSteps, Waiting
  <2>4. Neutral(r, b, cur[r])
    BY <2>1, <2>2, Zenon DEF Neutral, Waiting, Reading, Holding, Leaving, Located
  <2>5. table' \subseteq Handles
    BY <2>1, Zenon DEF RequestsOK
  <2> QED BY <2>1, <2>3, <2>4, <2>5, StepKeeps, SMTT(20)
<1>3. CASE ReleaseReader(r) \/ ReleaseFinish(r) \/ ReleaseWriter(r)
  <2>1. /\ Step(r, pc[r], b) /\ req' = req /\ table' = table
        /\ pc[r] \in Out /\ b \in {"lfinish", "lclose", "done"}
    BY <1>3, Zenon DEF ReleaseReader, ReleaseFinish, ReleaseWriter, Step, Goto, fileVars, LockInv, DataOK
  <2> HIDE DEF b
  <2>3. Fits(req[r], b)
    BY <2>1, Zenon DEF RequestsOK, Fits, ReadSteps, LockSteps, ReleaseSteps, Waiting
  <2>4. Neutral(r, b, cur[r])
    BY <2>1, Zenon DEF Neutral, Waiting, Reading, Holding, Leaving, Located
  <2>5. table' \subseteq Handles
    BY <2>1, Zenon DEF RequestsOK
  <2> QED BY <2>1, <2>3, <2>4, <2>5, StepKeeps, SMTT(20)
<1> QED BY <1>1, <1>2, <1>3, Zenon

\* A request begins with the fields of its kind at a handle there is.
LEMMA BeginKeeps ==
    ASSUME LockInv, RequestsOK, NEW r \in Requests, NEW q, NEW b, NEW c \in Handles \cup {NoHandle},
           Begin(r, q, b, c), Fits(q, b), b \in {"rcheck", "done", "announce", "drain", "tnext", "open"},
           b \in Located => c \in Handles
    PROVE  LockInv' /\ RequestsOK'
<1>1. /\ pc[r] = "idle" /\ Moves(r, b, c) /\ req' = [req EXCEPT ![r] = q]
      /\ pc' = [pc EXCEPT ![r] = b] /\ table' = table
  BY Zenon DEF Begin, Goto, Moves, fileVars
<1>2. Neutral(r, b, c)
  BY <1>1, Zenon DEF Neutral, Waiting, Reading, Holding, Leaving
<1>3. table' \subseteq Handles
  BY <1>1, Zenon DEF RequestsOK
<1> QED BY <1>1, <1>2, <1>3, NeutralKeeps, OneFits, Zenon

\* Every request the kernel sends does.
LEMMA ArriveKeeps == ASSUME LockInv, RequestsOK, NEW r \in Requests, Arrive(r) PROVE LockInv' /\ RequestsOK'
<1> USE DEF NoHandle
<1>1. \A h \in Handles : BeginOpen(r, h) => LockInv' /\ RequestsOK'
  <2> SUFFICES ASSUME NEW h \in Handles, BeginOpen(r, h) PROVE LockInv' /\ RequestsOK'
    BY Zenon
  <2> DEFINE q == [kind |-> "open", h |-> h]
  <2>1. Begin(r, q, "open", NoHandle)
    BY Zenon DEF BeginOpen
  <2>2. Fits(q, "open")
    <3>1. OpenShape(q)
      BY Zenon DEF OpenShape
    <3> QED BY <3>1, Zenon DEF Fits
  <2> HIDE DEF q
  <2> QED BY <2>1, <2>2, BeginKeeps, Zenon DEF Located, Waiting, Reading
<1>2. \A h \in Handles : BeginRead(r, h) => LockInv' /\ RequestsOK'
  <2> SUFFICES ASSUME NEW h \in Handles, BeginRead(r, h) PROVE LockInv' /\ RequestsOK'
    BY Zenon
  <2> DEFINE q == [kind |-> "read", h |-> h]
  <2>1. Begin(r, q, "rcheck", h)
    BY Zenon DEF BeginRead
  <2>2. Fits(q, "rcheck")
    <3>1. ReadShape(q)
      BY Zenon DEF ReadShape
    <3> QED BY <3>1, Zenon DEF Fits, ReadSteps
  <2> HIDE DEF q
  <2> QED BY <2>1, <2>2, BeginKeeps, Zenon
<1>3. \A h \in Handles : BeginFlush(r, h) => LockInv' /\ RequestsOK'
  <2> SUFFICES ASSUME NEW h \in Handles, BeginFlush(r, h) PROVE LockInv' /\ RequestsOK'
    BY Zenon
  <2> DEFINE q == [kind |-> "flush", h |-> h]
             b == NeedsLock(h)
  <2>1. Begin(r, q, b, h) /\ b \in {"announce", "done"}
    BY Zenon DEF BeginFlush, NeedsLock
  <2>2. Fits(q, b)
    <3>1. FlushShape(q)
      BY Zenon DEF FlushShape
    <3> HIDE DEF b
    <3> QED BY <2>1, <3>1, Zenon DEF Fits, LockSteps
  <2> HIDE DEF q, b
  <2> QED BY <2>1, <2>2, BeginKeeps, Zenon
<1>4. \A h \in Handles, e \in Ends : BeginWrite(r, h, e) => LockInv' /\ RequestsOK'
  <2> SUFFICES ASSUME NEW h \in Handles, NEW e \in Ends, BeginWrite(r, h, e) PROVE LockInv' /\ RequestsOK'
    BY Zenon
  <2> DEFINE q == [kind |-> "write", h |-> h, end |-> e]
             b == NeedsLock(h)
  <2>1. Begin(r, q, b, h) /\ b \in {"announce", "done"}
    BY Zenon DEF BeginWrite, NeedsLock
  <2>2. Fits(q, b)
    <3>1. WriteShape(q)
      BY Zenon DEF WriteShape
    <3> HIDE DEF b
    <3> QED BY <2>1, <3>1, Zenon DEF Fits, LockSteps
  <2> HIDE DEF q, b
  <2> QED BY <2>1, <2>2, BeginKeeps, Zenon
<1>5. \A h \in Handles : BeginRelease(r, h) => LockInv' /\ RequestsOK'
  <2> SUFFICES ASSUME NEW h \in Handles, BeginRelease(r, h) PROVE LockInv' /\ RequestsOK'
    BY Zenon
  <2> DEFINE q == [kind |-> "release", h |-> h]
  <2>1. Begin(r, q, "drain", h)
    BY Zenon DEF BeginRelease
  <2>2. Fits(q, "drain")
    <3>1. ReleaseShape(q)
      BY Zenon DEF ReleaseShape
    <3> QED BY <3>1, Zenon DEF Fits, ReleaseSteps
  <2> HIDE DEF q
  <2> QED BY <2>1, <2>2, BeginKeeps, Zenon
<1>6. \A h \in Handles \cup {NoHandle}, n \in Sizes : BeginTruncate(r, h, n) => LockInv' /\ RequestsOK'
  <2> SUFFICES ASSUME NEW h \in Handles \cup {NoHandle}, NEW n \in Sizes, BeginTruncate(r, h, n)
               PROVE LockInv' /\ RequestsOK'
    BY Zenon
  <2> DEFINE q == [kind |-> "truncate", h |-> h, size |-> n, all |-> table, rest |-> table]
  <2>1. Begin(r, q, "tnext", NoHandle)
    BY Zenon DEF BeginTruncate
  <2>3. Fits(q, "tnext")
    <3>1. TruncateShape(q)
      BY Zenon DEF TruncateShape, RequestsOK
    <3> QED BY <3>1, Zenon DEF Fits
  <2> HIDE DEF q
  <2> QED BY <2>1, <2>3, BeginKeeps, Zenon DEF Located, Waiting, Reading
<1> QED BY <1>1, <1>2, <1>3, <1>4, <1>5, <1>6, Zenon DEF Arrive

\* Every step of the VFS keeps the lock invariant.
LEMMA NextLock == LockInv /\ RequestsOK /\ [Next]_vars => LockInv' /\ RequestsOK'
<1> SUFFICES ASSUME LockInv, RequestsOK, [Next]_vars PROVE LockInv' /\ RequestsOK'
  BY Zenon
<1>1. CASE UNCHANGED vars
  <2>1. UNCHANGED lockVars /\ UNCHANGED req /\ UNCHANGED table
    BY <1>1, Zenon DEF vars, fileVars
  <2>2. LockInv'
    <3> USE <2>1 DEF lockVars, counters, LockInv, HoldsWrite
    <3>1. DataOK' /\ Placed'
      BY Zenon DEF DataOK, Placed, NoHandle
    <3>2. Counts'
      BY Zenon DEF Counts, Readers, Waiters
    <3>3. Flagged'
      BY Zenon DEF Flagged, OneWriter
    <3>4. Passed'
      BY Zenon DEF Passed
    <3> QED BY <3>1, <3>2, <3>3, <3>4, Zenon
  <2>3. RequestsOK'
    BY <2>1, Zenon DEF lockVars, RequestsOK
  <2> QED BY <2>2, <2>3, Zenon
<1>2. ASSUME NEW r \in Requests, Arrive(r) PROVE LockInv' /\ RequestsOK'
  BY <1>2, ArriveKeeps, Zenon
<1>3. ASSUME NEW r \in Requests, Serve(r) PROVE LockInv' /\ RequestsOK'
  BY <1>3, LockStepKeeps, LockStepFits, AccessKeeps, WriteGetLengthKeeps, TruncateKeeps,
     TruncateNextKeeps, OpenKeeps, OpenLengthKeeps, ReleaseKeeps, Zenon DEF Serve
<1> QED BY <1>1, <1>2, <1>3, Zenon DEF Next

\* The invariant of the lock, with the shapes of the requests, holds.
THEOREM LockInvariant == Spec => [](LockInv /\ RequestsOK)
<1>1. Init => LockInv /\ RequestsOK
  <2> SUFFICES ASSUME Init PROVE RequestsOK
    BY InitLock, Zenon
  <2>1. req = [r \in Requests |-> None] /\ pc = [r \in Requests |-> "idle"] /\ table = Opened
    BY Zenon DEF Init, LockInit
  <2> QED BY <2>1, VfsHandlesConstants, Zenon DEF RequestsOK, Fits
<1> QED BY <1>1, NextLock, PTL DEF Spec

\* Two write guards of one handle never exist at the same time, for any
\* number of handles and requests.
THEOREM WritersExclude == Spec => []OneWriter
<1>1. LockInv => OneWriter
  BY Zenon DEF LockInv, Flagged
<1> QED BY <1>1, LockInvariant, PTL

\* A reader never has a handle together with a writer that was there when
\* it began its last check.
THEOREM WritersPreferred == Spec => []NoReaderBesideEarlierWriter
<1>1. LockInv => NoReaderBesideEarlierWriter
  BY Zenon DEF LockInv, Passed, HoldsRead, NoReaderBesideEarlierWriter
<1> QED BY <1>1, LockInvariant, PTL

\* Once every request is answered the counters of every handle are zero.
THEOREM LockQuiescent == Spec => []Quiescent
<1>1. LockInv => Quiescent
  <2> SUFFICES ASSUME LockInv, Quiet, NEW h \in Handles
               PROVE  reader_cnt[h] = 0 /\ write_wait_cnt[h] = 0 /\ ~exclusive_locking[h]
    BY Zenon DEF Quiescent
  <2>1. \A r \in Requests : pc[r] \in {"idle", "done"}
    BY Zenon DEF Quiet, Busy
  <2>2. Readers(h) = {} /\ Waiters(h) = {}
    BY <2>1, Zenon DEF Readers, Waiters, Reading, Waiting
  <2>3. \A r \in Requests : guards[r] = <<>>
    BY <2>1, Zenon DEF LockInv, Flagged, Holding, Waiting
  <2>4. \A r \in Requests : ~HoldsWrite(r, h)
    BY <2>3 DEF HoldsWrite, Range
  <2> QED BY <2>2, <2>4, FS_EmptySet, Zenon DEF LockInv, Counts, Flagged
<1> QED BY <1>1, LockInvariant, PTL
=============================================================================
