-------------------------- MODULE ComponentProofs --------------------------
(***************************************************************************)
(* Proofs about three parts of a mount, each by itself: SliceBuffer, whose *)
(* count of pages covers the pages it uses, for any sizes and any number   *)
(* of buffers; VfsNames, the names of a directory as the kernel and a      *)
(* process that lists them see them, for any names, plans and handles; and *)
(* ReadyFile, the readiness file that several mount processes and other    *)
(* programs share, for any set of them.                                    *)
(***************************************************************************)
EXTENDS VfsNames, SliceBuffer, ReadyFile, FiniteSetTheorems, TLAPS

-----------------------------------------------------------------------------
(* Ascending.                                                               *)

\* The ranks of a finite set of integers are 1 to its cardinality, and
\* different elements have different ranks.
LEMMA RankInBijective ==
    ASSUME NEW S \in SUBSET Int, IsFiniteSet(S)
    PROVE  /\ Cardinality(S) \in Nat
           /\ \A i \in S : RankIn(S, i) \in 1 .. Cardinality(S)
           /\ \A i, j \in S : RankIn(S, i) = RankIn(S, j) => i = j
           /\ \A k \in 1 .. Cardinality(S) : \E i \in S : RankIn(S, i) = k
<1> DEFINE Upto(i) == {j \in S : j <= i}
           n == Cardinality(S)
           f == [i \in S |-> RankIn(S, i)]
<1>1. n \in Nat
    BY FS_CardinalityType, Zenon
<1>2. ASSUME NEW i \in S PROVE /\ IsFiniteSet(Upto(i)) /\ Cardinality(Upto(i)) \in Nat
                               /\ Cardinality(Upto(i)) <= n /\ Cardinality(Upto(i)) # 0
    <2>1. Upto(i) \in SUBSET S /\ i \in Upto(i)
        OBVIOUS
    <2>2. IsFiniteSet(Upto(i)) /\ Cardinality(Upto(i)) <= n
        BY <2>1, FS_Subset, Zenon
    <2>3. Cardinality(Upto(i)) \in Nat
        BY <2>2, FS_CardinalityType, Zenon
    <2>4. Cardinality(Upto(i)) # 0
        BY <2>1, <2>2, FS_EmptySet, Zenon
    <2> QED BY <2>2, <2>3, <2>4, Zenon
<1>3. \A i \in S : RankIn(S, i) \in 1 .. n
    BY <1>1, <1>2 DEF RankIn
<1>4. ASSUME NEW i \in S, NEW j \in S, i < j PROVE RankIn(S, i) # RankIn(S, j)
    <2>0. i \in Int /\ j \in Int /\ \A l \in S : l \in Int
        BY Zenon
    <2>1. Upto(i) \in SUBSET Upto(j) /\ j \in Upto(j) /\ j \notin Upto(i)
        <3>1. \A l \in S : l <= i => l <= j
            BY <1>4, <2>0
        <3>2. j <= j /\ ~(j <= i)
            BY <1>4, <2>0
        <3> QED BY <3>1, <3>2, Zenon
    <2>2. IsFiniteSet(Upto(j))
        BY <1>2, Zenon
    <2>3. Cardinality(Upto(i)) # Cardinality(Upto(j))
        BY <2>1, <2>2, FS_Subset, Zenon
    <2> QED BY <2>3, Zenon DEF RankIn
<1>5. \A i, j \in S : RankIn(S, i) = RankIn(S, j) => i = j
    BY <1>4
<1>6. f \in Injection(S, 1 .. n)
    BY <1>3, <1>5, Zenon DEF Injection, IsInjective
<1>7. IsFiniteSet(1 .. n) /\ Cardinality(1 .. n) = n
    BY <1>1, FS_Interval
<1>8. f \in Surjection(S, 1 .. n)
    BY <1>6, <1>7, FS_Injection, Zenon
<1>9. \A k \in 1 .. n : \E i \in S : RankIn(S, i) = k
    BY <1>8, Zenon DEF Surjection
<1> QED BY <1>1, <1>3, <1>5, <1>9, Zenon

\* Ascending lists every element of the set once.
LEMMA AscendingBijective ==
    ASSUME NEW S \in SUBSET Int, IsFiniteSet(S)
    PROVE  /\ DOMAIN Ascending(S) = 1 .. Cardinality(S)
           /\ \A k \in 1 .. Cardinality(S) : Ascending(S)[k] \in S /\ RankIn(S, Ascending(S)[k]) = k
           /\ \A i \in S : \E k \in 1 .. Cardinality(S) : Ascending(S)[k] = i
<1> DEFINE n == Cardinality(S)
<1>1. /\ \A i \in S : RankIn(S, i) \in 1 .. n
      /\ \A i, j \in S : RankIn(S, i) = RankIn(S, j) => i = j
      /\ \A k \in 1 .. n : \E i \in S : RankIn(S, i) = k
    BY RankInBijective, Zenon
<1>2. DOMAIN Ascending(S) = 1 .. n
    BY Zenon DEF Ascending
<1>3. ASSUME NEW k \in 1 .. n PROVE Ascending(S)[k] \in S /\ RankIn(S, Ascending(S)[k]) = k
    <2>1. Ascending(S)[k] = CHOOSE i \in S : RankIn(S, i) = k
        BY Zenon DEF Ascending
    <2> QED BY <1>1, <2>1, Zenon
<1>4. \A i \in S : Ascending(S)[RankIn(S, i)] = i
    BY <1>1, <1>3, Zenon
<1> QED BY <1>1, <1>2, <1>3, <1>4, Zenon

\* The elements of an interval ascend one by one.
LEMMA AscendingInterval ==
    ASSUME NEW a \in Int, NEW b \in Int, a <= b
    PROVE  /\ DOMAIN Ascending(a + 1 .. b) = 1 .. b - a
           /\ \A k \in 1 .. b - a : Ascending(a + 1 .. b)[k] = a + k
<1> DEFINE S == a + 1 .. b
<1>1. S \in SUBSET Int /\ IsFiniteSet(S) /\ Cardinality(S) = b - a
    <2>1. a + 1 \in Int /\ S \in SUBSET Int
        OBVIOUS
    <2>2. IsFiniteSet(S) /\ Cardinality(S) = IF a + 1 > b THEN 0 ELSE b - (a + 1) + 1
        BY <2>1, FS_Interval, Zenon
    <2> QED BY <2>1, <2>2
<1>2. /\ DOMAIN Ascending(S) = 1 .. b - a
      /\ \A k \in 1 .. b - a : Ascending(S)[k] \in S /\ RankIn(S, Ascending(S)[k]) = k
    BY <1>1, AscendingBijective, Zenon
<1>3. ASSUME NEW k \in 1 .. b - a PROVE a + k \in S /\ RankIn(S, a + k) = k
    <2>1. {j \in S : j <= a + k} = a + 1 .. a + k
        OBVIOUS
    <2>2. a + 1 \in Int /\ a + k \in Int /\ a + k \in S
        OBVIOUS
    <2>3. Cardinality(a + 1 .. a + k) = IF a + 1 > a + k THEN 0 ELSE (a + k) - (a + 1) + 1
        BY <2>2, FS_Interval, Zenon
    <2>4. RankIn(S, a + k) = Cardinality(a + 1 .. a + k)
        BY <2>1, Zenon DEF RankIn
    <2> QED BY <2>2, <2>3, <2>4
<1>4. \A i, j \in S : RankIn(S, i) = RankIn(S, j) => i = j
    BY <1>1, RankInBijective, Zenon
<1> QED BY <1>2, <1>3, <1>4

-----------------------------------------------------------------------------
(* The slice buffers: the count of their pages.                             *)

\* The places of a buffer's blocks that have a page.
Places(slots) == {s \in Blocks \X BlockPages : slots[s[1]].pages[s[2]] # NoPage}

\* What is true of a buffer r while it executes the operation o: a write knows
\* the list of places that lack a page, a flush has blocks of the slice to do and
\* the pages it will subtract are counted.
Counted(r, o) ==
    /\ {"cnt", "slots"} \subseteq DOMAIN r /\ r.cnt \in Nat
    /\ DOMAIN r.slots = Blocks /\ \A k \in Blocks : "pages" \in DOMAIN r.slots[k]
    /\ o.pc \in {"idle", "reserve", "exhausted", "stage", "object"}
    /\ o.pc = "reserve" => /\ {"pc", "got", "at", "missing"} \subseteq DOMAIN o
                           /\ Len(o.missing) \in Nat /\ DOMAIN o.missing = 1 .. Len(o.missing)
    /\ o.pc \in {"stage", "object"} => /\ {"pc", "todo", "released"} \subseteq DOMAIN o
                                       /\ o.todo \subseteq Blocks /\ o.released \in Nat
    /\ o.pc = "object" => o.released = 0
    /\ r.cnt >= Cardinality(Places(r.slots)) + (IF o.pc = "stage" THEN o.released ELSE 0)

\* The inductive invariant: so it is with every buffer.
SliceInv ==
    /\ DOMAIN buf = Buffers /\ DOMAIN op = Buffers
    /\ \A b \in Buffers : Counted(buf[b], op[b])
-----------------------------------------------------------------------------
\* Blocks and pages are finitely many.
LEMMA PlacesFinite ==
    ASSUME NEW slots
    PROVE  /\ IsFiniteSet(BlockPages) /\ IsFiniteSet(Places(slots))
           /\ Cardinality(Places(slots)) \in Nat /\ Blocks \subseteq Nat
<1>1. ChunkSize \div BlockSize - 1 \in Int /\ BlockSize \div PageSize - 1 \in Int /\ 0 \in Int
    BY SliceBufferConstants, PagePoolConstants
<1>2. IsFiniteSet(Blocks) /\ IsFiniteSet(BlockPages)
    BY <1>1, FS_Interval, Zenon DEF Blocks, BlockPages
<1>3. IsFiniteSet(Blocks \X BlockPages)
    BY <1>2, FS_Product, Zenon
<1>4. Places(slots) \in SUBSET (Blocks \X BlockPages)
    BY Zenon DEF Places
<1>5. IsFiniteSet(Places(slots))
    BY <1>3, <1>4, FS_Subset, Zenon
<1>6. Cardinality(Places(slots)) \in Nat
    BY <1>5, FS_CardinalityType, Zenon
<1> QED BY <1>1, <1>2, <1>5, <1>6 DEF Blocks

\* They are what the model calls held.
LEMMA HeldPlaces ==
    ASSUME NEW b
    PROVE  Held(b) = Places(buf[b].slots)
BY DEF Held, Places, PagesOf

\* An empty buffer has none.
LEMMA EmptyPlaces == Places([k \in Blocks |-> Empty]) = {}
BY Zenon DEF Places, Empty

\* Emptying a block frees as many places as it had pages.
LEMMA PlacesEmptied ==
    ASSUME NEW slots, NEW k \in Blocks, DOMAIN slots = Blocks
    PROVE  /\ Cardinality(PagesOf(slots[k])) \in Nat
           /\ Cardinality(Places([slots EXCEPT ![k] = Empty]))
                = Cardinality(Places(slots)) - Cardinality(PagesOf(slots[k]))
<1> DEFINE P == PagesOf(slots[k])
           Q == {<<k, i>> : i \in P}
           f == [i \in P |-> <<k, i>>]
<1>1. P \in SUBSET BlockPages
    BY Zenon DEF PagesOf
<1>2. IsFiniteSet(P)
    BY <1>1, PlacesFinite, FS_Subset, Zenon
<1>3. Cardinality(P) \in Nat
    BY <1>2, FS_CardinalityType, Zenon
<1>4. f \in Bijection(P, Q)
    BY Zenon DEF Bijection, Injection, Surjection, IsInjective
<1>5. Cardinality(Q) = Cardinality(P)
    BY <1>2, <1>4, FS_Bijection, Zenon DEF ExistsBijection
<1>6. ASSUME NEW s \in Blocks \X BlockPages
      PROVE  /\ s \in Places(slots) <=> slots[s[1]].pages[s[2]] # NoPage
             /\ s \in Places([slots EXCEPT ![k] = Empty])
                  <=> s[1] # k /\ slots[s[1]].pages[s[2]] # NoPage
             /\ s \in Q <=> s[1] = k /\ slots[s[1]].pages[s[2]] # NoPage
    BY DEF Places, Empty, PagesOf
<1>7. /\ Places(slots) \subseteq Blocks \X BlockPages /\ Q \subseteq Blocks \X BlockPages
      /\ Places([slots EXCEPT ![k] = Empty]) \subseteq Blocks \X BlockPages
    BY <1>1 DEF Places
<1> HIDE DEF P, Q, f
<1>8. /\ Places([slots EXCEPT ![k] = Empty]) = Places(slots) \ Q
      /\ Places(slots) \cap Q = Q
    BY <1>6, <1>7, Zenon
<1>9. Cardinality(Places(slots) \ Q) = Cardinality(Places(slots)) - Cardinality(Places(slots) \cap Q)
    BY PlacesFinite, FS_Difference, Zenon
<1> QED BY <1>3, <1>5, <1>8, <1>9, Zenon DEF P

\* A write that had n pages to reserve fills at most n places.
LEMMA PlacesFilled ==
    ASSUME NEW slots, NEW new, NEW missing, NEW n \in Nat,
           \A k \in Blocks, i \in BlockPages :
                new[k].pages[i] # NoPage =>
                    slots[k].pages[i] # NoPage \/ \E j \in 1 .. n : missing[j] = <<k, i>>
    PROVE  Cardinality(Places(new)) <= Cardinality(Places(slots)) + n
<1> DEFINE F == {missing[j] : j \in 1 .. n}
           f == [j \in 1 .. n |-> missing[j]]
<1>1. IsFiniteSet(1 .. n) /\ Cardinality(1 .. n) = n
    BY FS_Interval
<1>2. f \in Surjection(1 .. n, F)
    BY Zenon DEF Surjection
<1>3. IsFiniteSet(F) /\ Cardinality(F) <= n
    BY <1>1, <1>2, FS_Surjection
<1>4. Cardinality(F) \in Nat
    BY <1>3, FS_CardinalityType, Zenon
<1>5. Places(new) \in SUBSET (Places(slots) \cup F)
    BY DEF Places
<1> HIDE DEF F
<1>6. /\ IsFiniteSet(Places(slots)) /\ Cardinality(Places(slots)) \in Nat
      /\ Cardinality(Places(new)) \in Nat
    BY PlacesFinite, Zenon
<1>7. /\ IsFiniteSet(Places(slots) \cup F)
      /\ Cardinality(Places(slots) \cup F)
            = Cardinality(Places(slots)) + Cardinality(F) - Cardinality(Places(slots) \cap F)
    BY <1>3, <1>6, FS_Union, Zenon
<1>8. Cardinality(Places(slots) \cap F) \in Nat
    BY <1>6, FS_Intersection, FS_CardinalityType, Zenon
<1>9. Cardinality(Places(new)) <= Cardinality(Places(slots) \cup F)
    BY <1>5, <1>7, FS_Subset, Zenon
<1>10. Cardinality(Places(slots) \cup F) \in Nat
    BY <1>7, FS_CardinalityType, Zenon
<1> QED BY <1>3, <1>4, <1>6, <1>7, <1>8, <1>9, <1>10

\* A set of blocks that is not empty has a least one.
LEMMA LeastIn ==
    ASSUME NEW S \in SUBSET Blocks, S # {}
    PROVE  Min(S) \in S
<1>1. S \in SUBSET Int /\ Blocks \subseteq Int
    BY PlacesFinite
<1>2. IsFiniteSet(S)
    <2>1. ChunkSize \div BlockSize - 1 \in Int /\ 0 \in Int
        BY SliceBufferConstants, PagePoolConstants
    <2>2. IsFiniteSet(Blocks)
        BY <2>1, FS_Interval, Zenon DEF Blocks
    <2> QED BY <2>2, FS_Subset, Zenon
<1>3. Cardinality(S) \in Nat /\ Cardinality(S) # 0
    BY <1>2, FS_CardinalityType, FS_EmptySet, Zenon
<1>4. 1 \in 1 .. Cardinality(S)
    BY <1>3
<1>5. PICK i \in S : RankIn(S, i) = 1
    BY <1>1, <1>2, <1>4, RankInBijective, Zenon
<1>6. ASSUME NEW j \in S PROVE i <= j
    <2> DEFINE U == {l \in S : l <= i}
    <2>1. U \in SUBSET S /\ i \in U
        BY <1>1
    <2>2. IsFiniteSet(U) /\ Cardinality(U) = 1
        BY <1>2, <1>5, <2>1, FS_Subset, Zenon DEF RankIn
    <2>3. U = {i}
        BY <2>1, <2>2, FS_Singleton
    <2>4. CASE j < i
        BY <1>1, <2>3, <2>4
    <2> QED BY <1>1, <2>4
<1> QED BY <1>6, Zenon DEF Min
-----------------------------------------------------------------------------
\* Buffer b becomes r and executes o, the others stay as they are.
Steps(b, r, o) ==
    /\ DOMAIN buf' = Buffers /\ DOMAIN op' = Buffers /\ buf'[b] = r /\ op'[b] = o
    /\ \A c \in Buffers \ {b} : buf'[c] = buf[c] /\ op'[c] = op[c]

\* The invariant is about one buffer at a time.
LEMMA OneBuffer ==
    ASSUME SliceInv, NEW b \in Buffers, NEW r, NEW o, Counted(r, o), Steps(b, r, o)
    PROVE  SliceInv'
<1>1. \A c \in Buffers : Counted(buf'[c], op'[c])
    BY Zenon DEF SliceInv, Steps
<1> QED BY <1>1, Zenon DEF SliceInv, Steps

\* A buffer that does nothing owes nothing.
LEMMA IdleCounted ==
    ASSUME NEW r, NEW o, Counted(r, o)
    PROVE  Counted(r, Idle)
<1>1. Cardinality(Places(r.slots)) \in Nat
    BY PlacesFinite, Zenon
<1> QED BY <1>1 DEF Counted, Idle

\* A write that begins knows which places lack a page.
LEMMA WriteBeginInv ==
    ASSUME SliceInv, NEW b \in Buffers, NEW off \in Offsets, NEW n \in WriteSizes,
           WriteBegin(b, off, n)
    PROVE  SliceInv'
<1> DEFINE lacking == {g \in FirstPage(off) .. LastPage(off + n) : Slot(g) \notin Held(b)}
           m == Missing(b, off, off + n)
           o == [pc |-> "reserve", off |-> off, n |-> n, at |-> "mem", got |-> <<>>, missing |-> m]
<1>1. FirstPage(off) \in Int /\ LastPage(off + n) \in Int
    BY SliceBufferConstants, PagePoolConstants DEF FirstPage, LastPage, Offsets
<1>2. Cardinality(lacking) \in Nat
    <2>1. lacking \in SUBSET (FirstPage(off) .. LastPage(off + n))
        BY Zenon
    <2> QED BY <1>1, <2>1, FS_Interval, FS_Subset, FS_CardinalityType, Zenon
<1>3. m = [i \in 1 .. Cardinality(lacking) |-> Slot(Ascending(lacking)[i])]
    BY Zenon DEF Missing
<1> HIDE DEF lacking, m
<1>4. Len(m) = Cardinality(lacking) /\ DOMAIN m = 1 .. Cardinality(lacking)
    BY <1>2, <1>3
<1>5. Counted(buf[b], Idle)
    BY IdleCounted, Zenon DEF SliceInv
<1>6. Counted(buf[b], o)
    BY <1>2, <1>4, <1>5, Zenon DEF Counted, Idle
<1>7. Steps(b, buf[b], o)
    BY Zenon DEF WriteBegin, m, SliceInv, Steps
<1> QED BY <1>6, <1>7, OneBuffer, Zenon

\* Taking a page from the pool, or finding that it has none, counts nothing.
LEMMA ReserveInv ==
    ASSUME SliceInv, NEW b \in Buffers, Reserve(b)
    PROVE  SliceInv'
<1> DEFINE o == op[b]
<1>1. Counted(buf[b], o) /\ o.pc = "reserve"
    BY Zenon DEF SliceInv, Reserve
<1>2. Cardinality(Places(buf[b].slots)) \in Nat
    BY PlacesFinite, Zenon
<1>3. CASE free[o.at] # <<>>
    <2> DEFINE q == [[o EXCEPT !.got = Append(o.got, Head(free[o.at]))] EXCEPT !.at = "mem"]
    <2>1. Counted(buf[b], q)
        BY <1>1, Zenon DEF Counted
    <2>2. Steps(b, buf[b], q)
        BY <1>3, Zenon DEF Reserve, SliceInv, Steps
    <2> QED BY <2>1, <2>2, OneBuffer, Zenon
<1>4. CASE free[o.at] = <<>> /\ o.at = "mem"
    <2> DEFINE q == [o EXCEPT !.at = "disk"]
    <2>1. Counted(buf[b], q)
        BY <1>1, Zenon DEF Counted
    <2>2. Steps(b, buf[b], q)
        BY <1>4, Zenon DEF Reserve, SliceInv, Steps
    <2> QED BY <2>1, <2>2, OneBuffer, Zenon
<1>5. CASE free[o.at] = <<>> /\ o.at # "mem"
    <2> DEFINE q == [pc |-> "exhausted", got |-> o.got]
    <2>1. Counted(buf[b], q)
        BY <1>1, <1>2, Zenon DEF Counted
    <2>2. Steps(b, buf[b], q)
        BY <1>5, Zenon DEF Reserve, SliceInv, Steps
    <2> QED BY <2>1, <2>2, OneBuffer, Zenon
<1> QED BY <1>3, <1>4, <1>5, Zenon

\* A write counts the pages it installs, and fills no more places than that.
LEMMA WriteDataInv ==
    ASSUME SliceInv, NEW b \in Buffers, WriteData(b)
    PROVE  SliceInv'
<1> DEFINE o == op[b]
           end == o.off + o.n
           installed == Install(buf[b].slots, o.missing, o.got)
           new == [k \in Blocks |-> [installed[k] EXCEPT !.len = FilledTo(installed, k, o.off, end)]]
           r == buf'[b]
<1>1. Counted(buf[b], o) /\ o.pc = "reserve" /\ Len(o.got) = Len(o.missing)
    BY Zenon DEF SliceInv, WriteData
<1>2. Steps(b, r, Idle)
    BY Zenon DEF WriteData, SliceInv, Steps
<1>3. /\ DOMAIN r = DOMAIN buf[b]
      /\ r.slots = new /\ r.cnt = buf[b].cnt + Len(o.missing)
    BY <1>1, Zenon DEF WriteData, SliceInv, Counted
<1>4. ASSUME NEW k \in Blocks
      PROVE  /\ "pages" \in DOMAIN new[k]
             /\ \A i \in BlockPages : new[k].pages[i] = installed[k].pages[i]
             /\ \A i \in BlockPages :
                    installed[k].pages[i] = buf[b].slots[k].pages[i]
                        \/ \E j \in DOMAIN o.missing : o.missing[j] = <<k, i>>
    BY <1>1, Zenon DEF Install, Counted
<1>5. Len(o.missing) \in Nat /\ DOMAIN o.missing = 1 .. Len(o.missing)
    BY <1>1, Zenon DEF Counted
<1>6. DOMAIN new = Blocks
    BY Zenon
<1> HIDE DEF new, installed, end, r
<1>7. Cardinality(Places(new)) <= Cardinality(Places(buf[b].slots)) + Len(o.missing)
    <2>1. \A k \in Blocks, i \in BlockPages :
             new[k].pages[i] # NoPage =>
                 \/ buf[b].slots[k].pages[i] # NoPage
                 \/ \E j \in 1 .. Len(o.missing) : o.missing[j] = <<k, i>>
        BY <1>4, <1>5, Zenon
    <2> HIDE DEF o
    <2> QED BY <1>5, <2>1, PlacesFilled, Zenon
<1>8. /\ Cardinality(Places(new)) \in Nat /\ Cardinality(Places(buf[b].slots)) \in Nat
      /\ buf[b].cnt \in Nat /\ buf[b].cnt >= Cardinality(Places(buf[b].slots))
    BY <1>1, PlacesFinite DEF Counted
<1>9. r.cnt \in Nat /\ r.cnt >= Cardinality(Places(new))
    BY <1>3, <1>5, <1>7, <1>8
<1>10. Counted(r, Idle)
    BY <1>1, <1>3, <1>4, <1>6, <1>8, <1>9 DEF Counted, Idle
<1> QED BY <1>2, <1>10, OneBuffer, Zenon

\* A flush begins with nothing to subtract.
LEMMA FlushBegins ==
    ASSUME SliceInv, NEW b \in Buffers, NEW sink \in Sinks, NEW offset,
           \/ FlushAll(b, sink) /\ offset = RoundUp(buf[b].length)
           \/ FlushBulk(b, sink, offset)
    PROVE  SliceInv'
<1> DEFINE o == [pc |-> sink, todo |-> Pending(b, offset), released |-> 0]
<1>1. Counted(buf[b], Idle) /\ sink \in {"stage", "object"}
    BY IdleCounted, SliceBufferConstants, Zenon DEF SliceInv
<1>2. Pending(b, offset) \subseteq Blocks
    BY Zenon DEF Pending
<1>3. Cardinality(Places(buf[b].slots)) \in Nat
    BY PlacesFinite, Zenon
<1>4. Counted(buf[b], o)
    BY <1>1, <1>2, <1>3, Zenon DEF Counted, Idle
<1>5. Steps(b, buf[b], o)
    BY Zenon DEF FlushAll, FlushBulk, SliceInv, Steps
<1> QED BY <1>4, <1>5, OneBuffer, Zenon

\* An upload subtracts the pages of the block at once, stage remembers them.
LEMMA FlushBlockInv ==
    ASSUME SliceInv, NEW b \in Buffers, FlushBlock(b)
    PROVE  SliceInv'
<1> DEFINE o == op[b]
           k == Min(o.todo)
           n == Cardinality(PagesOf(buf[b].slots[k]))
           r == buf'[b]
           q == op'[b]
<1>1. Counted(buf[b], o) /\ o.pc \in {"stage", "object"} /\ o.todo # {}
    BY Zenon DEF SliceInv, FlushBlock
<1>2. k \in o.todo /\ k \in Blocks
    BY <1>1, LeastIn, Zenon DEF Counted
<1> HIDE DEF k
<1>3. /\ DOMAIN r = DOMAIN buf[b] /\ r.slots = [buf[b].slots EXCEPT ![k] = Empty]
      /\ r.cnt = IF o.pc = "object" THEN buf[b].cnt - n ELSE buf[b].cnt
    BY <1>1, Zenon DEF FlushBlock, SliceInv, Counted, k
<1>4. /\ DOMAIN q = DOMAIN o /\ q.pc = o.pc /\ q.todo = o.todo \ {k}
      /\ q.released = IF o.pc = "object" THEN 0 ELSE o.released + n
    BY <1>1, Zenon DEF FlushBlock, SliceInv, Counted, k
<1>5. Steps(b, r, q)
    BY Zenon DEF FlushBlock, SliceInv, Steps
<1>6. /\ n \in Nat
      /\ Cardinality(Places(r.slots)) = Cardinality(Places(buf[b].slots)) - n
    BY <1>1, <1>2, <1>3, PlacesEmptied DEF Counted
<1>7. Cardinality(Places(r.slots)) \in Nat /\ Cardinality(Places(buf[b].slots)) \in Nat
    BY PlacesFinite, Zenon
<1>8. /\ buf[b].cnt \in Nat /\ o.released \in Nat
      /\ buf[b].cnt >= Cardinality(Places(buf[b].slots)) + (IF o.pc = "stage" THEN o.released ELSE 0)
    BY <1>1, Zenon DEF Counted
<1> HIDE DEF n, r, q
<1>9. /\ r.cnt \in Nat /\ q.released \in Nat
      /\ r.cnt >= Cardinality(Places(r.slots)) + (IF q.pc = "stage" THEN q.released ELSE 0)
    BY <1>1, <1>3, <1>4, <1>6, <1>7, <1>8
<1>10. DOMAIN r.slots = Blocks /\ \A j \in Blocks : "pages" \in DOMAIN r.slots[j]
    BY <1>1, <1>3 DEF Counted, Empty
<1>11. Counted(r, q)
    BY <1>1, <1>3, <1>4, <1>9, <1>10, Zenon DEF Counted
<1> QED BY <1>5, <1>11, OneBuffer, Zenon

\* The end of an operation: stage subtracts what it has released, a failed
\* write or flush forgets it.
LEMMA OperationEnds ==
    ASSUME SliceInv, NEW b \in Buffers, Exhausted(b) \/ FlushFails(b) \/ FlushDone(b)
    PROVE  SliceInv'
<1> DEFINE o == op[b]
           r == buf'[b]
<1>1. Counted(buf[b], o) /\ Counted(buf[b], Idle)
    BY IdleCounted, Zenon DEF SliceInv
<1>2. Cardinality(Places(buf[b].slots)) \in Nat
    BY PlacesFinite, Zenon
<1>3. CASE Exhausted(b) \/ FlushFails(b)
    <2>1. Steps(b, buf[b], Idle)
        BY <1>3, Zenon DEF Exhausted, FlushFails, SliceInv, Steps
    <2> QED BY <1>1, <2>1, OneBuffer, Zenon
<1>4. CASE FlushDone(b)
    <2>1. /\ DOMAIN r = DOMAIN buf[b] /\ r.slots = buf[b].slots
          /\ r.cnt = buf[b].cnt - o.released /\ o.pc \in {"stage", "object"}
        BY <1>1, <1>4, Zenon DEF FlushDone, SliceInv, Counted
    <2>2. Steps(b, r, Idle)
        BY <1>4, Zenon DEF FlushDone, SliceInv, Steps
    <2>3. Counted(r, Idle)
        BY <1>1, <1>2, <2>1 DEF Counted, Idle
    <2> QED BY <2>2, <2>3, OneBuffer, Zenon
<1> QED BY <1>3, <1>4, Zenon

\* A new buffer has no pages.
LEMMA NewCounted == Counted(NewBuffer, Idle)
<1>1. Cardinality(Places(NewBuffer.slots)) = 0
    BY EmptyPlaces, FS_EmptySet, Zenon DEF NewBuffer
<1> QED BY <1>1 DEF Counted, NewBuffer, Idle, Empty

\* The buffer of a new slice replaces the one that is dropped.
LEMMA DropBufferInv ==
    ASSUME SliceInv, NEW b \in Buffers, DropBuffer(b)
    PROVE  SliceInv'
<1>1. Steps(b, NewBuffer, Idle)
    BY Zenon DEF DropBuffer, SliceInv, Steps
<1> QED BY <1>1, NewCounted, OneBuffer, Zenon

\* The invariant of the count holds through every operation of every buffer.
THEOREM SliceCounts == Spec => []SliceInv
<1>1. Init => SliceInv
    BY NewCounted, Zenon DEF Init, SliceInv
<1>2. ASSUME SliceInv, [Next]_vars PROVE SliceInv'
    <2>1. CASE UNCHANGED <<buf, op>>
        BY <2>1, <1>2, Zenon DEF SliceInv
    <2>2. ASSUME NEW b \in Buffers, NEW off \in Offsets, NEW n \in WriteSizes, WriteBegin(b, off, n)
          PROVE  SliceInv'
        BY <1>2, <2>2, WriteBeginInv, Zenon
    <2>3. ASSUME NEW b \in Buffers, Reserve(b) PROVE SliceInv'
        BY <1>2, <2>3, ReserveInv, Zenon
    <2>4. ASSUME NEW b \in Buffers, WriteData(b) PROVE SliceInv'
        BY <1>2, <2>4, WriteDataInv, Zenon
    <2>5. ASSUME NEW b \in Buffers, NEW sink \in Sinks, FlushAll(b, sink) PROVE SliceInv'
        BY <1>2, <2>5, FlushBegins, Zenon
    <2>6. ASSUME NEW b \in Buffers, NEW sink \in Sinks, NEW offset, FlushBulk(b, sink, offset)
          PROVE  SliceInv'
        BY <1>2, <2>6, FlushBegins, Zenon
    <2>7. ASSUME NEW b \in Buffers, FlushBlock(b) PROVE SliceInv'
        BY <1>2, <2>7, FlushBlockInv, Zenon
    <2>8. ASSUME NEW b \in Buffers, Exhausted(b) \/ FlushFails(b) \/ FlushDone(b) PROVE SliceInv'
        BY <1>2, <2>8, OperationEnds, Zenon
    <2>9. ASSUME NEW b \in Buffers, DropBuffer(b) PROVE SliceInv'
        BY <1>2, <2>9, DropBufferInv, Zenon
    <2>10. ASSUME NEW b \in Buffers, CommitFails(b) PROVE SliceInv'
        BY <2>1, <2>10, Zenon DEF CommitFails
    <2>11. CASE UNCHANGED sliceVars \/ UNCHANGED vars
        BY <2>1, <2>11, Zenon DEF vars, sliceVars
    <2> QED BY <1>2, <2>2, <2>3, <2>4, <2>5, <2>6, <2>7, <2>8, <2>9, <2>10, <2>11, Zenon DEF Next
<1> QED BY <1>1, <1>2, PTL DEF Spec

\* The count of a SliceBuffer is never less than the pages of its blocks
\* together with those the running stage has yet to subtract: neither the
\* subtraction of each uploaded block nor that at the end of stage underflows,
\* whatever writes and flushes fail in between, for any sizes of pages, blocks
\* and chunks and any number of buffers that compete for the pages.
THEOREM PagesCounted == Spec => []CountCoversPages
<1>1. SliceInv => CountCoversPages
    BY HeldPlaces, Zenon DEF SliceInv, Counted, CountCoversPages
<1> QED BY <1>1, SliceCounts, PTL
-----------------------------------------------------------------------------
(* The inductive invariant.                                                 *)

\* No plan moves anything onto a name that the VFS hides behind an internal
\* node: KisekiVFS::rename lets it through, and a lookup then finds the
\* internal node and not what the kernel was told.
RenamesVisible ==
    \A p \in Plans : "rename" \in p.ops =>
        \A m \in p.names : ~((p.root \/ Text[m] = Control) /\ Text[m] \in Internal)

Entry == [name : Texts, inode : Inodes \cup {Self}, full : BOOLEAN]
ListingRecord == [pc : {"closed", "idle", "list", "attr", "reply", "done", "failed"}, offset : Nat,
            plus : BOOLEAN, got : Seq(Texts), list : Seq(Entry), stable : SUBSET Texts,
            ever : SUBSET Texts]

ListingTypeOK == ls \in [Handles -> ListingRecord] /\ children \in [Handles -> Seq(Entry)]

\* The entries of `s` are a listing of the directory since the listing r began.
Lists(s, r) ==
    /\ \A j, k \in DOMAIN s : s[j].name = s[k].name => j = k
    /\ \A t \in r.stable : \E k \in DOMAIN s : s[k].name = t
    /\ \A k \in DOMAIN s : s[k].name \in r.ever

\* A process is between two pages, or about to get one.
Paging(r) == r.pc = "reply" \/ (r.pc = "idle" /\ r.offset # 0)

\* What the process has so far are the names of the first `offset` children.
Paged(r, c) ==
    /\ Lists(c, r) /\ r.offset <= Len(c) /\ Len(r.got) = r.offset
    /\ \A k \in 1 .. r.offset : r.got[k] = c[k].name
    /\ r.plus => \A k \in DOMAIN c : c[k].full

Exact(r) ==
    /\ \A j, k \in DOMAIN r.got : r.got[j] = r.got[k] => j = k
    /\ \A t \in r.stable : \E k \in DOMAIN r.got : r.got[k] = t
    /\ \A k \in DOMAIN r.got : r.got[k] \in r.ever

ListingInv(r, c, d) ==
    /\ r.pc \in {"list", "attr"} => r.offset = 0 /\ r.got = <<>>
    /\ r.pc = "list" => r.stable \subseteq Present(d) /\ Present(d) \subseteq r.ever
    /\ r.pc = "attr" => Lists(r.list, r) /\ \A k \in DOMAIN r.list : r.list[k].inode \in Inodes
    /\ Paging(r) => Paged(r, c)
    /\ r.pc = "done" => Exact(r)

-----------------------------------------------------------------------------
(* The kernel's view.                                                       *)

\* A lookup of the name n goes to the stored entries.
Plain(n) ==
    /\ n \in Utf8 /\ ~(frontend = "fuser" /\ NameLen[Text[n]] > MaxNameLength)
    /\ ~((plan.root \/ Text[n] = Control) /\ Text[n] \in Internal) /\ Text[n] # Dot

\* The texts of the names are those of the stored entries.
LEMMA TextTyped == \A n \in DOMAIN Text : Text[n] \in Texts
BY VfsNamesConstants, Zenon DEF Texts, Range

\* Such a name resolves to its stored entry.
LEMMA PlainResolves ==
    ASSUME NEW n \in DOMAIN Text, Plain(n)
    PROVE  Resolve(n) = dentry[Text[n]]
BY Zenon DEF Plain, Resolve, Accepts, Strict, ResolveText, LookupEntry

\* A name that the kernel holds an inode or ENOENT for is looked up in the
\* stored entries, and is there as the kernel was told.
LEMMA VisibleIsPlain ==
    ASSUME NamesTypeOK, KernelViewHolds, NEW n \in DOMAIN Text,
           cache[n] = NoEntry \/ cache[n] > 0
    PROVE  Plain(n) /\ cache[n] = dentry[Text[n]]
<1>1. cache[n] \in Int /\ cache[n] >= 0
    BY DEF NamesTypeOK, Inodes, NoEntry, Special, Self, Unknown
<1>2. Resolve(n) = cache[n]
    BY <1>1 DEF KernelViewHolds, Unknown
<1>3. Resolve(n) # OtherErrno
    BY <1>1, <1>2 DEF OtherErrno
<1>4. /\ n \in Utf8 /\ ~(frontend = "fuser" /\ NameLen[Text[n]] > MaxNameLength)
      /\ Resolve(n) = ResolveText(Text[n])
    BY <1>3, Zenon DEF Resolve, Accepts, Strict
<1>5. ResolveText(Text[n]) # Special /\ ResolveText(Text[n]) # Self
    BY <1>1, <1>2, <1>4 DEF Special, Self
<1>6. /\ ~((plan.root \/ Text[n] = Control) /\ Text[n] \in Internal) /\ Text[n] # Dot
      /\ ResolveText(Text[n]) = dentry[Text[n]]
    BY <1>5, Zenon DEF ResolveText, LookupEntry
<1> QED BY <1>2, <1>4, <1>6, Zenon DEF Plain

\* A request changes the stored entries of the plain names in M, and tells
\* the kernel: its view is true again. No other name means one of them,
\* because to_str accepts every name that the kernel holds an entry for.
LEMMA ViewKept ==
    ASSUME KernelViewHolds, NEW M \in SUBSET DOMAIN Text, \A n \in M : Plain(n),
           UNCHANGED <<plan, frontend>>, cache \in [DOMAIN Text -> Int],
           \A t \in Texts : dentry'[t] = dentry[t] \/ \E n \in M : Text[n] = t,
           \A n \in DOMAIN Text \ M : cache'[n] = cache[n],
           \A n \in M : cache'[n] = dentry'[Text[n]]
    PROVE  KernelViewHolds'
<1> SUFFICES ASSUME NEW n \in DOMAIN Text, cache'[n] # Unknown
             PROVE  Resolve(n)' = cache'[n]
    BY Zenon DEF KernelViewHolds, Unknown
<1>1. CASE n \in M
    <2>1. Plain(n)'
        BY <1>1, Zenon DEF Plain
    <2>2. Resolve(n)' = dentry'[Text[n]]
        BY <2>1, Zenon DEF Plain, Resolve, Accepts, Strict, ResolveText, LookupEntry
    <2> QED BY <1>1, <2>2, Zenon
<1>2. CASE n \notin M
    <2>1. cache'[n] = cache[n] /\ Resolve(n) = cache[n]
        BY <1>2, Zenon DEF KernelViewHolds
    <2>2. CASE Resolve(n) = OtherErrno /\ Resolve(n)' = OtherErrno
        BY <2>1, <2>2, Zenon
    <2>3. CASE n \in Utf8
        <3>1. ASSUME NEW m \in M PROVE Text[m] # Text[n]
            BY <1>2, <2>3, VfsNamesConstants, Zenon DEF Plain
        <3>2. dentry'[Text[n]] = dentry[Text[n]]
            BY <3>1, TextTyped, Zenon
        <3>3. Resolve(n)' = Resolve(n)
            BY <3>2, Zenon DEF Resolve, Accepts, Strict, ResolveText, LookupEntry
        <3> QED BY <2>1, <3>3, Zenon
    <2>4. n \notin Utf8 => Resolve(n) = OtherErrno /\ Resolve(n)' = OtherErrno
        BY Zenon DEF Resolve, Accepts, Strict
    <2> QED BY <2>2, <2>3, <2>4, Zenon
<1> QED BY <1>1, <1>2, Zenon

\* The same for a request that changes one name.
LEMMA OneViewKept ==
    ASSUME KernelViewHolds, NEW n \in DOMAIN Text, Plain(n),
           UNCHANGED <<plan, frontend>>, cache \in [DOMAIN Text -> Int],
           \A t \in Texts : t # Text[n] => dentry'[t] = dentry[t],
           \A m \in DOMAIN Text : m # n => cache'[m] = cache[m],
           cache'[n] = dentry'[Text[n]]
    PROVE  KernelViewHolds'
<1> DEFINE M == {n}
<1>1. M \in SUBSET DOMAIN Text /\ \A m \in M : Plain(m)
    BY Zenon
<1>2. \A t \in Texts : dentry'[t] = dentry[t] \/ \E m \in M : Text[m] = t
    BY Zenon
<1>3. /\ \A m \in DOMAIN Text \ M : cache'[m] = cache[m]
      /\ \A m \in M : cache'[m] = dentry'[Text[m]]
    BY Zenon
<1> HIDE DEF M
<1> QED BY <1>1, <1>2, <1>3, ViewKept, Zenon

\* A counter stays in its range when it wraps.
LEMMA CounterTyped ==
    ASSUME NEW v \in Int
    PROVE  Counter(v) \in 0 .. CounterValues - 1
BY VfsNamesConstants DEF Counter

\* The attributes of what is kept.
LEMMA KeptTyped ==
    ASSUME NamesTypeOK, NEW d, NEW i \in Inodes \cup {NoEntry}
    PROVE  Kept(d, i) \in [Inodes -> {"none", "file", "dir", "symlink"}]
BY Zenon DEF NamesTypeOK, Kept

\* What the requests about names do to the stored entries, the counters and
\* the kernel's view.
NamesCore == plan \in Plans /\ NamesTypeOK /\ (RenamesVisible => KernelViewHolds)

\* What the kernel holds for a name is a number; a positive one is an inode.
LEMMA CacheTyped ==
    ASSUME NamesTypeOK
    PROVE  /\ cache \in [DOMAIN Text -> Int]
           /\ \A n \in DOMAIN Text : cache[n] > 0 => cache[n] \in Inodes
           /\ count \in Int /\ used \in Int
BY DEF NamesTypeOK, Inodes, NoEntry, Special, Self, Unknown

\* A lookup tells the kernel what the name resolves to.
LEMMA LookupCore ==
    ASSUME NamesCore, NEW n \in DOMAIN Text, Lookup(n)
    PROVE  NamesCore'
<1>1. Resolve(n) \in Inodes \cup {NoEntry, Special, Self, Unknown}
    BY TextTyped, Zenon DEF NamesCore, NamesTypeOK, Lookup, Resolve, ResolveText, LookupEntry
<1>2. NamesTypeOK'
    BY <1>1, Zenon DEF NamesCore, NamesTypeOK, Lookup
<1>3. \A m \in DOMAIN Text : Resolve(m)' = Resolve(m)
    BY Zenon DEF Lookup, Resolve, Accepts, Strict, ResolveText, LookupEntry
<1>4. ASSUME NEW m \in DOMAIN Text PROVE cache'[m] = IF m = n THEN Resolve(n) ELSE cache[m]
    BY Zenon DEF NamesCore, NamesTypeOK, Lookup
<1>5. RenamesVisible => KernelViewHolds'
    BY <1>3, <1>4, Zenon DEF NamesCore, KernelViewHolds, Unknown
<1> QED BY <1>2, <1>5, Zenon DEF NamesCore, Lookup

\* The kernel may forget what it was told.
LEMMA ForgetCore ==
    ASSUME NamesCore, NEW n \in DOMAIN Text, Forget(n)
    PROVE  NamesCore'
<1>1. NamesTypeOK'
    BY Zenon DEF NamesCore, NamesTypeOK, Forget
<1>2. \A m \in DOMAIN Text : Resolve(m)' = Resolve(m)
    BY Zenon DEF Forget, Resolve, Accepts, Strict, ResolveText, LookupEntry
<1>3. ASSUME NEW m \in DOMAIN Text PROVE cache'[m] = IF m = n THEN Unknown ELSE cache[m]
    BY Zenon DEF NamesCore, NamesTypeOK, Forget
<1>4. RenamesVisible => KernelViewHolds'
    BY <1>2, <1>3, Zenon DEF NamesCore, KernelViewHolds, Unknown
<1> QED BY <1>1, <1>4, Zenon DEF NamesCore, Forget

\* mknod, mkdir, create and symlink store the entry they tell of.
LEMMA MakeCore ==
    ASSUME NamesCore, NEW n \in DOMAIN Text, NEW request,
           NEW kind \in {"file", "dir", "symlink"}, Make(request, n, kind)
    PROVE  NamesCore'
<1>1. made + 1 \in Inodes /\ Text[n] \in Texts
    BY TextTyped, Zenon DEF Make
<1>2. count' \in 0 .. CounterValues - 1 /\ used' \in 0 .. CounterValues - 1
    BY CounterTyped, CacheTyped DEF Make, NamesCore
<1>3. NamesTypeOK'
    BY <1>1, <1>2, Zenon DEF NamesCore, NamesTypeOK, Make
<1>4. /\ \A t \in Texts : t # Text[n] => dentry'[t] = dentry[t]
      /\ \A m \in DOMAIN Text : m # n => cache'[m] = cache[m]
      /\ cache'[n] = dentry'[Text[n]] /\ UNCHANGED <<plan, frontend>>
    BY <1>1, Zenon DEF NamesCore, NamesTypeOK, Make
<1>5. ASSUME RenamesVisible PROVE KernelViewHolds'
    <2>1. KernelViewHolds /\ NamesTypeOK
        BY <1>5, Zenon DEF NamesCore
    <2>2. Plain(n)
        BY <2>1, VisibleIsPlain, Zenon DEF Make
    <2> QED BY <1>4, <2>1, <2>2, CacheTyped, OneViewKept, Zenon
<1> QED BY <1>3, <1>5, Zenon DEF NamesCore, Make

\* link stores the entry it tells of.
LEMMA HardLinkCore ==
    ASSUME NamesCore, NEW n \in DOMAIN Text, NEW i \in Inodes, HardLink(i, n)
    PROVE  NamesCore'
<1>1. Text[n] \in Texts
    BY TextTyped, Zenon
<1>2. NamesTypeOK'
    BY <1>1, Zenon DEF NamesCore, NamesTypeOK, HardLink
<1>3. /\ \A t \in Texts : t # Text[n] => dentry'[t] = dentry[t]
      /\ \A m \in DOMAIN Text : m # n => cache'[m] = cache[m]
      /\ cache'[n] = dentry'[Text[n]] /\ UNCHANGED <<plan, frontend>>
    BY <1>1, Zenon DEF NamesCore, NamesTypeOK, HardLink
<1>4. ASSUME RenamesVisible PROVE KernelViewHolds'
    <2>1. KernelViewHolds /\ NamesTypeOK
        BY <1>4, Zenon DEF NamesCore
    <2>2. Plain(n)
        BY <2>1, VisibleIsPlain, Zenon DEF HardLink
    <2> QED BY <1>3, <2>1, <2>2, CacheTyped, OneViewKept, Zenon
<1> QED BY <1>2, <1>4, Zenon DEF NamesCore, HardLink

\* unlink and rmdir remove the entry whose absence they tell of.
LEMMA TakeCore ==
    ASSUME NamesCore, NEW n \in DOMAIN Text, NEW request, Take(request, n)
    PROVE  NamesCore'
<1>1. Text[n] \in Texts /\ dentry[Text[n]] \in Inodes \cup {NoEntry}
    BY TextTyped, Zenon DEF NamesCore, NamesTypeOK
<1>2. count' \in 0 .. CounterValues - 1 /\ used' \in 0 .. CounterValues - 1
    <2>1. /\ count' = Counter(IF attr' # attr THEN count - 1 ELSE count)
          /\ used' = Counter(IF attr' # attr /\ attr[dentry[Text[n]]] # "file" THEN used - 1
                             ELSE used)
        BY Zenon DEF Take
    <2>2. count - 1 \in Int /\ used - 1 \in Int /\ count \in Int /\ used \in Int
        BY CacheTyped DEF NamesCore
    <2> QED BY <2>1, <2>2, CounterTyped, Zenon
<1>3. attr' \in [Inodes -> {"none", "file", "dir", "symlink"}]
    BY <1>1, KeptTyped, Zenon DEF NamesCore, Take
<1>4. NamesTypeOK'
    BY <1>1, <1>2, <1>3, Zenon DEF NamesCore, NamesTypeOK, Take
<1>5. /\ \A t \in Texts : t # Text[n] => dentry'[t] = dentry[t]
      /\ \A m \in DOMAIN Text : m # n => cache'[m] = cache[m]
      /\ cache'[n] = dentry'[Text[n]] /\ UNCHANGED <<plan, frontend>>
    BY <1>1, Zenon DEF NamesCore, NamesTypeOK, Take
<1>6. ASSUME RenamesVisible PROVE KernelViewHolds'
    <2>1. KernelViewHolds /\ NamesTypeOK
        BY <1>6, Zenon DEF NamesCore
    <2>2. Plain(n)
        BY <2>1, VisibleIsPlain, Zenon DEF Take
    <2> QED BY <1>5, <2>1, <2>2, CacheTyped, OneViewKept, Zenon
<1> QED BY <1>4, <1>6, Zenon DEF NamesCore, Take

\* A rename gives the target what the source had, and the source nothing or,
\* when they are exchanged, what the target had.
LEMMA RenameCore ==
    ASSUME NamesCore, NEW n \in plan.names, NEW m \in plan.names,
           n \in DOMAIN Text, m \in DOMAIN Text, NEW exchange \in BOOLEAN, Rename(n, m, exchange)
    PROVE  NamesCore'
<1> DEFINE t == Text[n]
           u == Text[m]
           M == {n, m}
<1>1. t \in Texts /\ u \in Texts /\ dentry[t] \in Inodes \cup {NoEntry}
      /\ dentry[u] \in Inodes \cup {NoEntry}
    BY TextTyped, Zenon DEF NamesCore, NamesTypeOK
<1>2. /\ n # m /\ cache[n] > 0 /\ cache[m] # Unknown /\ cache[m] # Self
      /\ (exchange => cache[m] # NoEntry) /\ UNCHANGED <<plan, frontend, count, used>>
    BY Zenon DEF Rename
<1>3. /\ dentry' = [dentry EXCEPT ![u] = dentry[t], ![t] = IF exchange THEN dentry[u] ELSE NoEntry]
      /\ cache' = [cache EXCEPT ![m] = cache[n], ![n] = IF exchange THEN cache[m] ELSE NoEntry]
      /\ attr' = Kept(dentry', dentry[u])
    BY Zenon DEF Rename
<1>4. attr' \in [Inodes -> {"none", "file", "dir", "symlink"}]
    BY <1>1, <1>3, KeptTyped, Zenon DEF NamesCore
<1>5. dentry' \in [Texts -> Inodes \cup {NoEntry}]
    BY <1>1, <1>3, Zenon DEF NamesCore, NamesTypeOK
<1>6. cache' \in [DOMAIN Text -> Inodes \cup {NoEntry, Special, Self, Unknown}]
    BY <1>3, Zenon DEF NamesCore, NamesTypeOK
<1>7. NamesTypeOK'
    BY <1>2, <1>4, <1>5, <1>6, Zenon DEF NamesCore, NamesTypeOK
<1>8. ASSUME RenamesVisible PROVE KernelViewHolds'
    <2>1. KernelViewHolds /\ NamesTypeOK
        BY <1>8, Zenon DEF NamesCore
    <2>2. Plain(n) /\ cache[n] = dentry[t]
        BY <1>2, <2>1, VisibleIsPlain, Zenon
    <2>3. ~((plan.root \/ u = Control) /\ u \in Internal)
        BY <1>8, Zenon DEF Rename, RenamesVisible, NamesCore
    <2>4. Plain(m) /\ cache[m] = dentry[u]
        <3>1. Resolve(m) = cache[m]
            BY <1>2, <2>1, Zenon DEF KernelViewHolds
        <3>2. cache[m] # OtherErrno
            BY DEF NamesCore, NamesTypeOK, Inodes, NoEntry, Special, Self, Unknown, OtherErrno
        <3>3. /\ m \in Utf8 /\ ~(frontend = "fuser" /\ NameLen[Text[m]] > MaxNameLength)
              /\ Resolve(m) = ResolveText(Text[m])
            BY <3>1, <3>2, Zenon DEF Resolve, Accepts, Strict
        <3>4. Text[m] # Dot /\ ResolveText(Text[m]) = dentry[u]
            BY <1>2, <2>3, <3>1, <3>3, Zenon DEF ResolveText, LookupEntry
        <3> QED BY <2>3, <3>1, <3>3, <3>4, Zenon DEF Plain
    <2>5. t # u
        BY <1>2, <2>2, <2>4, VfsNamesConstants, Zenon DEF Plain
    <2>6. M \in SUBSET DOMAIN Text /\ \A x \in M : Plain(x)
        BY <2>2, <2>4, Zenon
    <2>7. \A x \in Texts : dentry'[x] = dentry[x] \/ \E y \in M : Text[y] = x
        BY <1>3, Zenon DEF NamesCore, NamesTypeOK
    <2>8. \A x \in DOMAIN Text \ M : cache'[x] = cache[x]
        BY <1>3, Zenon DEF NamesCore, NamesTypeOK
    <2>9. ASSUME NEW x \in M PROVE cache'[x] = dentry'[Text[x]]
        <3>1. dentry'[u] = dentry[t] /\ dentry'[t] = IF exchange THEN dentry[u] ELSE NoEntry
            BY <1>1, <2>5, <1>3, Zenon DEF NamesCore, NamesTypeOK
        <3>2. cache'[m] = cache[n] /\ cache'[n] = IF exchange THEN cache[m] ELSE NoEntry
            BY <1>2, <1>3, Zenon DEF NamesCore, NamesTypeOK
        <3> QED BY <2>2, <2>4, <3>1, <3>2, Zenon
    <2>10. KernelViewHolds'
        <3> HIDE DEF M
        <3> QED BY <1>2, <2>1, <2>6, <2>7, <2>8, <2>9, CacheTyped, ViewKept, Zenon
    <2> QED BY <2>10, Zenon
<1> QED BY <1>2, <1>7, <1>8, Zenon DEF NamesCore

\* A new mount starts with an empty kernel cache.
LEMMA RemountCore ==
    ASSUME NamesCore, Remount
    PROVE  NamesCore'
<1>1. NamesTypeOK'
    BY VfsNamesConstants DEF NamesCore, NamesTypeOK, Remount
<1>2. KernelViewHolds'
    BY Zenon DEF Remount, KernelViewHolds, Unknown
<1> QED BY <1>1, <1>2, Zenon DEF NamesCore, Remount

\* Listing a directory changes no name.
LEMMA DirectoryCore ==
    ASSUME NamesCore, UNCHANGED <<plan, frontend, names>>
    PROVE  NamesCore'
<1>1. NamesTypeOK'
    BY Zenon DEF NamesCore, NamesTypeOK, names
<1>2. \A n \in DOMAIN Text : Resolve(n)' = Resolve(n)
    BY Zenon DEF names, Resolve, Accepts, Strict, ResolveText, LookupEntry
<1>3. RenamesVisible => KernelViewHolds'
    BY <1>2, Zenon DEF NamesCore, names, KernelViewHolds, Unknown
<1> QED BY <1>1, <1>3, Zenon DEF NamesCore

-----------------------------------------------------------------------------
(* Listings.                                                                *)

Listings ==
    /\ ListingTypeOK
    /\ \A h \in Handles : ListingInv(ls[h], children[h], dentry)

\* The entries change while a directory is listed: fewer names were there all
\* along, and more were ever there.
LEMMA WitnessListings ==
    ASSUME Listings, Witness(dentry'), UNCHANGED children,
           dentry' \in [Texts -> Inodes \cup {NoEntry}]
    PROVE  Listings'
<1> DEFINE Seen(r) == [r EXCEPT !.stable = @ \cap Present(dentry'), !.ever = @ \cup Present(dentry')]
<1>1. ls' = [h \in Handles |-> Seen(ls[h])]
    BY Zenon DEF Witness
<1>2. Present(dentry') \in SUBSET Texts
    BY Zenon DEF Present
<1>3. ASSUME NEW h \in Handles
      PROVE  /\ ls'[h] \in ListingRecord
             /\ ls'[h].pc = ls[h].pc /\ ls'[h].offset = ls[h].offset /\ ls'[h].plus = ls[h].plus
             /\ ls'[h].got = ls[h].got /\ ls'[h].list = ls[h].list
             /\ ls'[h].stable = ls[h].stable \cap Present(dentry')
             /\ ls'[h].ever = ls[h].ever \cup Present(dentry')
    <2>1. ls'[h] = Seen(ls[h]) /\ ls[h] \in ListingRecord
        BY <1>1, Zenon DEF Listings, ListingTypeOK
    <2> QED BY <1>2, <2>1, Zenon DEF ListingRecord
<1>4. ListingTypeOK'
    BY <1>1, <1>3, Zenon DEF Listings, ListingTypeOK
<1>5. ASSUME NEW h \in Handles
      PROVE  ListingInv(ls[h], children[h], dentry)'
    <2>1. ListingInv(ls[h], children[h], dentry)
        BY Zenon DEF Listings
    <2>2. ASSUME NEW s, Lists(s, ls[h]) PROVE Lists(s, ls'[h])
        BY <1>3, <2>2 DEF Lists
    <2>3. Paged(ls[h], children[h]) => Paged(ls'[h], children[h])
        BY <1>3, <2>2, Zenon DEF Paged
    <2>4. Exact(ls[h]) => Exact(ls'[h])
        BY <1>3 DEF Exact
    <2>5. Paging(ls'[h]) = Paging(ls[h])
        BY <1>3, Zenon DEF Paging
    <2>6. ls'[h].stable \subseteq Present(dentry') /\ Present(dentry') \subseteq ls'[h].ever
        BY <1>3, Zenon
    <2> QED BY <1>3, <2>1, <2>2, <2>3, <2>4, <2>5, <2>6, Zenon DEF ListingInv
<1> QED BY <1>4, <1>5, Zenon DEF Listings

\* A step of the listing through handle h.
LEMMA OneListing ==
    ASSUME Listings, NEW h \in Handles, NEW r \in ListingRecord, Move(h, r),
           NEW c \in Seq(Entry), children' = [children EXCEPT ![h] = c], UNCHANGED dentry,
           ListingInv(r, c, dentry)
    PROVE  Listings'
<1>1. /\ ls \in [Handles -> ListingRecord] /\ children \in [Handles -> Seq(Entry)]
      /\ ls' = [ls EXCEPT ![h] = r]
    BY Zenon DEF Listings, ListingTypeOK, Move
<1>2. ListingTypeOK'
    BY <1>1, Zenon DEF ListingTypeOK
<1>3. ASSUME NEW g \in Handles PROVE ListingInv(ls[g], children[g], dentry)'
    <2>1. CASE g = h
        <3>1. ls'[g] = r /\ children'[g] = c
            BY <1>1, <2>1, Zenon
        <3> QED BY <3>1, Zenon
    <2>2. CASE g # h
        <3>1. ls'[g] = ls[g] /\ children'[g] = children[g]
            BY <1>1, <2>2, Zenon
        <3>2. ListingInv(ls[g], children[g], dentry)
            BY Zenon DEF Listings
        <3> QED BY <3>1, <3>2, Zenon
    <2> QED BY <2>1, <2>2, Zenon
<1> QED BY <1>2, <1>3, Zenon DEF Listings

\* A handle that is not open owes nothing.
LEMMA ClosedListing ==
    /\ Closed \in ListingRecord
    /\ \A c, d : ListingInv(Closed, c, d)
<1>1. <<>> \in Seq(Texts) /\ <<>> \in Seq(Entry) /\ 0 \in Nat
    OBVIOUS
<1>2. Closed \in ListingRecord
    BY <1>1, Zenon DEF Closed, ListingRecord
<1>3. Closed.pc = "closed"
    BY Zenon DEF Closed
<1> QED BY <1>2, <1>3, Zenon DEF ListingInv, Paging

\* A new handle owes nothing yet.
LEMMA OpenDirListings ==
    ASSUME Listings, NEW h \in Handles, OpenDir(h)
    PROVE  Listings'
<1> DEFINE r == [Closed EXCEPT !.pc = "idle"]
<1>1. r \in ListingRecord /\ r.pc = "idle" /\ r.offset = 0
    BY ClosedListing, Zenon DEF Closed, ListingRecord
<1>2. \A c, d : ListingInv(r, c, d)
    BY <1>1, Zenon DEF ListingInv, Paging
<1>3. Move(h, r) /\ children' = [children EXCEPT ![h] = <<>>] /\ UNCHANGED dentry
    BY Zenon DEF OpenDir, names
<1>4. <<>> \in Seq(Entry)
    OBVIOUS
<1> HIDE DEF r
<1> QED BY <1>1, <1>2, <1>3, <1>4, OneListing, Zenon

\* Neither does a released one.
LEMMA ReleaseDirListings ==
    ASSUME Listings, NEW h \in Handles, ReleaseDir(h)
    PROVE  Listings'
<1>1. Move(h, Closed) /\ children' = [children EXCEPT ![h] = <<>>] /\ UNCHANGED dentry
    BY Zenon DEF ReleaseDir, names
<1>2. <<>> \in Seq(Entry)
    OBVIOUS
<1> QED BY <1>1, <1>2, ClosedListing, OneListing, Zenon

\* A snapshot has every name of the directory once.
LEMMA ListDentryExact ==
    /\ ListDentry \in Seq(Present(dentry))
    /\ \A j, k \in DOMAIN ListDentry : ListDentry[j] = ListDentry[k] => j = k
    /\ \A t \in Present(dentry) : \E k \in DOMAIN ListDentry : ListDentry[k] = t
<1> DEFINE S == {k \in DOMAIN Order : dentry[Order[k]] # NoEntry}
           a == Ascending(S)
<1>1. DOMAIN Order = 1 .. Len(Order) /\ Len(Order) \in Nat
    BY VfsNamesConstants
<1>2. S \in SUBSET Int /\ IsFiniteSet(S)
    <2>1. S \in SUBSET (1 .. Len(Order)) /\ IsFiniteSet(1 .. Len(Order))
        BY <1>1, FS_Interval
    <2> QED BY <1>1, <2>1, FS_Subset
<1>3. /\ DOMAIN a = 1 .. Cardinality(S)
      /\ \A k \in 1 .. Cardinality(S) : a[k] \in S /\ RankIn(S, a[k]) = k
      /\ \A i \in S : \E k \in 1 .. Cardinality(S) : a[k] = i
    BY <1>2, AscendingBijective, Zenon
<1>4. Cardinality(S) \in Nat
    BY <1>2, FS_CardinalityType, Zenon
<1>5. ListDentry = [j \in DOMAIN a |-> Order[a[j]]]
    BY Zenon DEF ListDentry
<1>6. \A i \in S : Order[i] \in Present(dentry)
    BY Zenon DEF Present, Texts, Range
<1> HIDE DEF S, a
<1>7. ListDentry \in Seq(Present(dentry)) /\ DOMAIN ListDentry = 1 .. Cardinality(S)
    BY <1>3, <1>4, <1>5, <1>6
<1>8. ASSUME NEW j \in DOMAIN ListDentry, NEW k \in DOMAIN ListDentry,
             ListDentry[j] = ListDentry[k]
      PROVE  j = k
    <2>1. Order[a[j]] = Order[a[k]] /\ a[j] \in DOMAIN Order /\ a[k] \in DOMAIN Order
        BY <1>3, <1>5, <1>7, <1>8, Zenon DEF S
    <2>2. a[j] = a[k]
        BY <2>1, VfsNamesConstants, Zenon DEF IsInjective
    <2> QED BY <1>3, <1>7, <2>2
<1>9. ASSUME NEW t \in Present(dentry) PROVE \E k \in DOMAIN ListDentry : ListDentry[k] = t
    <2>1. PICK i \in DOMAIN Order : Order[i] = t
        BY Zenon DEF Present, Texts, Range
    <2>2. i \in S
        BY <2>1, Zenon DEF S, Present
    <2>3. PICK k \in 1 .. Cardinality(S) : a[k] = i
        BY <1>3, <2>2, Zenon
    <2> QED BY <1>3, <1>5, <1>7, <2>1, <2>3, Zenon
<1> QED BY <1>7, <1>8, <1>9, Zenon

\* A plain listing is exact when it is made; one with attributes goes on to
\* read them.
LEMMA ReadDirListListings ==
    ASSUME Listings, NamesTypeOK, NEW h \in Handles, ReadDirList(h)
    PROVE  Listings'
<1> DEFINE list == ListDentry
           plain == [k \in DOMAIN list |->
                        [name |-> list[k], inode |-> dentry[list[k]], full |-> FALSE]]
           r == ls[h]
<1>1. r \in ListingRecord /\ r.pc = "list" /\ ListingInv(r, children[h], dentry)
      /\ children \in [Handles -> Seq(Entry)]
    BY Zenon DEF Listings, ListingTypeOK, ReadDirList
<1>2. /\ r.stable \subseteq Present(dentry) /\ Present(dentry) \subseteq r.ever
      /\ r.offset = 0 /\ r.got = <<>>
    BY <1>1, Zenon DEF ListingInv
<1>3. \A t \in Present(dentry) : t \in Texts /\ dentry[t] \in Inodes
    BY Zenon DEF Present, NamesTypeOK, NoEntry
<1>4. /\ list \in Seq(Present(dentry))
      /\ \A j, k \in DOMAIN list : list[j] = list[k] => j = k
      /\ \A t \in Present(dentry) : \E k \in DOMAIN list : list[k] = t
    BY ListDentryExact, Zenon
<1> HIDE DEF list
<1>5. /\ plain \in Seq(Entry) /\ DOMAIN plain = DOMAIN list
      /\ \A k \in DOMAIN list : plain[k].name = list[k] /\ plain[k].inode \in Inodes
    <2>1. DOMAIN list = 1 .. Len(list) /\ Len(list) \in Nat
          /\ \A k \in DOMAIN list : list[k] \in Texts /\ dentry[list[k]] \in Inodes
        BY <1>3, <1>4
    <2>2. ASSUME NEW k \in DOMAIN list
          PROVE  plain[k] \in Entry /\ plain[k].name = list[k] /\ plain[k].inode \in Inodes
        BY <2>1, Zenon DEF Entry
    <2>3. DOMAIN plain = DOMAIN list /\ plain \in [1 .. Len(list) -> Entry]
        BY <2>1, <2>2, Zenon
    <2> HIDE DEF plain
    <2>4. plain \in Seq(Entry)
        BY <2>1, <2>3
    <2> QED BY <2>2, <2>3, <2>4, Zenon
<1>6. /\ IF r.plus
         THEN Move(h, [r EXCEPT !.pc = "attr", !.list = plain]) /\ UNCHANGED children
         ELSE Move(h, [r EXCEPT !.pc = "reply"]) /\ children' = [children EXCEPT ![h] = plain]
      /\ UNCHANGED dentry
    BY Zenon DEF ReadDirList, list, names
<1> HIDE DEF plain
<1>7. ASSUME NEW q, q.stable = r.stable, q.ever = r.ever PROVE Lists(plain, q)
    BY <1>2, <1>4, <1>5, <1>7 DEF Lists
<1>8. CASE r.plus
    <2> DEFINE q == [r EXCEPT !.pc = "attr", !.list = plain]
    <2>1. /\ q \in ListingRecord /\ q.pc = "attr" /\ q.list = plain /\ q.offset = 0
          /\ q.got = <<>> /\ q.stable = r.stable /\ q.ever = r.ever
        BY <1>1, <1>2, <1>5, Zenon DEF ListingRecord
    <2>2. Move(h, q) /\ children' = [children EXCEPT ![h] = children[h]] /\ UNCHANGED dentry
        BY <1>1, <1>6, <1>8, Zenon
    <2> HIDE DEF q
    <2>3. Lists(q.list, q)
        BY <1>7, <2>1, Zenon
    <2>4. ListingInv(q, children[h], dentry)
        BY <1>5, <2>1, <2>3, Zenon DEF ListingInv, Paging
    <2>5. children[h] \in Seq(Entry)
        BY <1>1, Zenon
    <2> QED BY <2>1, <2>2, <2>4, <2>5, OneListing, Zenon
<1>9. CASE ~r.plus
    <2> DEFINE q == [r EXCEPT !.pc = "reply"]
    <2>1. /\ q \in ListingRecord /\ q.pc = "reply" /\ q.offset = 0 /\ q.plus = r.plus
          /\ q.got = <<>> /\ q.stable = r.stable /\ q.ever = r.ever
        BY <1>1, <1>2, Zenon DEF ListingRecord
    <2>2. Move(h, q) /\ children' = [children EXCEPT ![h] = plain] /\ UNCHANGED dentry
        BY <1>6, <1>9, Zenon
    <2> HIDE DEF q
    <2>3. Lists(plain, q)
        BY <1>7, <2>1, Zenon
    <2>4. Paged(q, plain)
        BY <1>5, <1>9, <2>1, <2>3 DEF Paged
    <2>5. ListingInv(q, plain, dentry)
        BY <2>1, <2>4, Zenon DEF ListingInv, Paging
    <2> QED BY <1>5, <2>1, <2>2, <2>5, OneListing, Zenon
<1>10. r.plus \in BOOLEAN
    BY <1>1, Zenon DEF ListingRecord
<1> QED BY <1>8, <1>9, <1>10, Zenon

\* A process that goes on does so with the children of its first page.
LEMMA ReadDirListings ==
    ASSUME Listings, NEW h \in Handles, NEW plus \in BOOLEAN, ReadDir(h, plus)
    PROVE  Listings'
<1> DEFINE r == ls[h]
           c == children[h]
           offset == IF r.pc # "idle" THEN 0 ELSE r.offset
           next == IF NeedsListing(h, offset) THEN "list" ELSE "reply"
           fresh == [r EXCEPT !.offset = 0, !.got = <<>>, !.plus = plus,
                              !.stable = Present(dentry), !.ever = Present(dentry)]
           q == IF offset = 0 THEN [fresh EXCEPT !.pc = next]
                ELSE [r EXCEPT !.pc = next, !.plus = plus]
<1>1. r \in ListingRecord /\ c \in Seq(Entry) /\ ListingInv(r, c, dentry)
    BY Zenon DEF Listings, ListingTypeOK
<1>2. /\ plus => offset = 0 \/ r.plus
      /\ Move(h, q) /\ UNCHANGED <<children, dentry>>
    BY Zenon DEF ReadDir, names
<1>3. children' = [children EXCEPT ![h] = c]
    BY <1>2, Zenon DEF Listings, ListingTypeOK
<1>4. CASE offset = 0
    <2>1. next = "list"
        BY <1>4, Zenon DEF NeedsListing
    <2>2. Present(dentry) \in SUBSET Texts /\ <<>> \in Seq(Texts) /\ 0 \in Nat
        BY DEF Present
    <2>3. q = [fresh EXCEPT !.pc = "list"]
        BY <1>4, <2>1, Zenon
    <2>4. /\ q \in ListingRecord /\ q.pc = "list" /\ q.offset = 0 /\ q.got = <<>>
          /\ q.stable = Present(dentry) /\ q.ever = Present(dentry)
        BY <1>1, <2>2, <2>3, Zenon DEF ListingRecord
    <2> HIDE DEF q
    <2>5. ListingInv(q, c, dentry)
        BY <2>4, Zenon DEF ListingInv, Paging
    <2> QED BY <1>1, <1>2, <1>3, <2>4, <2>5, OneListing, Zenon
<1>5. CASE offset # 0
    <2>1. r.pc = "idle" /\ offset = r.offset /\ Paging(r) /\ Paged(r, c)
        BY <1>1, <1>5, Zenon DEF ListingInv, Paging
    <2>2. r.offset \in Nat /\ r.offset <= Len(c) /\ c # <<>>
        BY <1>1, <1>5, <2>1 DEF Paged, ListingRecord
    <2>3. q = [r EXCEPT !.pc = "reply", !.plus = plus]
        BY <1>5, <2>2, Zenon DEF NeedsListing
    <2>4. /\ q \in ListingRecord /\ q.pc = "reply" /\ q.offset = r.offset /\ q.got = r.got
          /\ q.stable = r.stable /\ q.ever = r.ever /\ q.plus = plus
        BY <1>1, <2>3, Zenon DEF ListingRecord
    <2>5. plus => r.plus
        BY <1>2, <1>5, Zenon
    <2> HIDE DEF q
    <2>6. Lists(c, q)
        BY <2>1, <2>4, Zenon DEF Paged, Lists
    <2>7. Paged(q, c)
        BY <2>1, <2>4, <2>5, <2>6, Zenon DEF Paged
    <2>8. ListingInv(q, c, dentry)
        BY <2>4, <2>7, Zenon DEF ListingInv
    <2> QED BY <1>1, <1>2, <1>3, <2>4, <2>8, OneListing, Zenon
<1> QED BY <1>4, <1>5, Zenon

\* The attributes are read later, and the listing is still one of the names that
\* were there since it began.
LEMMA ReadDirAttrListings ==
    ASSUME Listings, NEW h \in Handles, ReadDirAttr(h)
    PROVE  Listings'
<1> DEFINE r == ls[h]
           list == r.list
           kept == \A k \in DOMAIN list : attr[list[k].inode] # "none"
           c == [k \in DOMAIN list |-> [list[k] EXCEPT !.inode = Self, !.full = TRUE]]
           q == [r EXCEPT !.pc = IF kept THEN "reply" ELSE "failed", !.list = <<>>]
<1>1. r \in ListingRecord /\ r.pc = "attr" /\ ListingInv(r, children[h], dentry)
      /\ children \in [Handles -> Seq(Entry)]
    BY Zenon DEF Listings, ListingTypeOK, ReadDirAttr
<1>2. Lists(list, r) /\ r.offset = 0 /\ r.got = <<>> /\ list \in Seq(Entry)
    BY <1>1, Zenon DEF ListingInv, ListingRecord
<1>3. /\ Move(h, q) /\ UNCHANGED dentry
      /\ children' = IF ~kept THEN children ELSE [children EXCEPT ![h] = c]
    BY Zenon DEF ReadDirAttr, names
<1>4. /\ q \in ListingRecord /\ q.offset = 0 /\ q.got = <<>>
      /\ q.stable = r.stable /\ q.ever = r.ever /\ q.pc = IF kept THEN "reply" ELSE "failed"
    <2>1. <<>> \in Seq(Entry)
        OBVIOUS
    <2> HIDE DEF kept
    <2> QED BY <1>1, <1>2, <2>1, Zenon DEF ListingRecord
<1>5. /\ c \in Seq(Entry) /\ DOMAIN c = DOMAIN list
      /\ \A k \in DOMAIN list : c[k].name = list[k].name /\ c[k].full
    <2>1. DOMAIN list = 1 .. Len(list) /\ Len(list) \in Nat
          /\ \A k \in DOMAIN list : list[k] \in Entry
        BY <1>2
    <2>2. ASSUME NEW k \in DOMAIN list
          PROVE  c[k] \in Entry /\ c[k].name = list[k].name /\ c[k].full
        <3>1. c[k] = [list[k] EXCEPT !.inode = Self, !.full = TRUE] /\ list[k] \in Entry
            BY <2>1, Zenon
        <3> QED BY <3>1, Zenon DEF Entry
    <2>3. DOMAIN c = DOMAIN list /\ c \in [1 .. Len(list) -> Entry]
        BY <2>1, <2>2, Zenon
    <2> HIDE DEF c
    <2>4. c \in Seq(Entry)
        BY <2>1, <2>3
    <2> QED BY <2>2, <2>3, <2>4, Zenon
<1> HIDE DEF kept, c, q
<1>6. CASE kept
    <2>1. Lists(c, q)
        BY <1>2, <1>4, <1>5 DEF Lists
    <2>2. Paged(q, c)
        BY <1>4, <1>5, <2>1 DEF Paged
    <2>3. q.pc = "reply"
        BY <1>4, <1>6, Zenon
    <2>4. ListingInv(q, c, dentry)
        BY <2>2, <2>3, Zenon DEF ListingInv
    <2> QED BY <1>3, <1>4, <1>5, <1>6, <2>4, OneListing, Zenon
<1>7. CASE ~kept
    <2>1. q.pc = "failed"
        BY <1>4, <1>7, Zenon
    <2>2. ListingInv(q, children[h], dentry)
        BY <2>1, Zenon DEF ListingInv, Paging
    <2>3. children' = [children EXCEPT ![h] = children[h]] /\ children[h] \in Seq(Entry)
        BY <1>1, <1>3, <1>7, Zenon
    <2> QED BY <1>3, <1>4, <2>2, <2>3, OneListing, Zenon
<1> QED BY <1>6, <1>7, Zenon

\* The elements of a concatenation.
LEMMA ConcatAt ==
    ASSUME NEW T, NEW a \in Seq(T), NEW b \in Seq(T)
    PROVE  /\ a \o b \in Seq(T) /\ Len(a \o b) = Len(a) + Len(b)
           /\ \A i \in 1 .. Len(a) + Len(b) :
                (a \o b)[i] = IF i <= Len(a) THEN a[i] ELSE b[i - Len(a)]
OBVIOUS

\* A reply has the children from the offset on.
LEMMA ServedExact ==
    ASSUME NEW h \in Handles, ls[h] \in ListingRecord, children[h] \in Seq(Entry),
           Paged(ls[h], children[h])
    PROVE  /\ DOMAIN Served(h) = 1 .. Len(children[h]) - ls[h].offset
           /\ \A k \in DOMAIN Served(h) : Served(h)[k] = children[h][ls[h].offset + k]
<1> DEFINE c == children[h]
           o == ls[h].offset
           S == {k \in o + 1 .. Len(c) : ls[h].plus => c[k].full}
<1>1. o \in Nat /\ Len(c) \in Nat /\ o <= Len(c) /\ DOMAIN c = 1 .. Len(c)
    BY DEF Paged, ListingRecord
<1>2. S = o + 1 .. Len(c)
    <2>1. ASSUME NEW k \in o + 1 .. Len(c) PROVE ls[h].plus => c[k].full
        <3>1. k \in DOMAIN c
            BY <1>1
        <3> QED BY <3>1, Zenon DEF Paged
    <2> QED BY <2>1, Zenon
<1>3. Served(h) = [j \in DOMAIN Ascending(S) |-> c[Ascending(S)[j]]]
    BY Zenon DEF Served
<1> HIDE DEF S, c, o
<1>4. /\ DOMAIN Ascending(o + 1 .. Len(c)) = 1 .. Len(c) - o
      /\ \A k \in 1 .. Len(c) - o : Ascending(o + 1 .. Len(c))[k] = o + k
    <2>1. o \in Int /\ Len(c) \in Int /\ o <= Len(c)
        BY <1>1
    <2> QED BY <2>1, AscendingInterval, Zenon
<1>5. DOMAIN Ascending(S) = 1 .. Len(c) - o /\ \A k \in 1 .. Len(c) - o : Ascending(S)[k] = o + k
    BY <1>2, <1>4, Zenon
<1>6. DOMAIN Served(h) = 1 .. Len(c) - o
    BY <1>3, <1>5, Zenon
<1>7. ASSUME NEW k \in 1 .. Len(c) - o PROVE Served(h)[k] = c[o + k]
    <2>1. Served(h)[k] = c[Ascending(S)[k]]
        BY <1>3, <1>5, Zenon
    <2> QED BY <1>5, <2>1, Zenon
<1> QED BY <1>6, <1>7, Zenon DEF c, o

\* A page continues where the last one ended, and the last page makes the
\* listing complete.
LEMMA ReadDirReplyListings ==
    ASSUME Listings, NEW h \in Handles, NEW room \in 1 .. Len(Order), ReadDirReply(h, room)
    PROVE  Listings'
<1> DEFINE r == ls[h]
           c == children[h]
           served == Served(h)
           k == IF room < Len(served) THEN room ELSE Len(served)
           part == SubSeq(served, 1, k)
           more == [j \in 1 .. k |-> part[j].name]
           q == IF k = 0 THEN [r EXCEPT !.pc = "done", !.offset = 0]
                ELSE [r EXCEPT !.pc = "idle", !.offset = @ + k, !.got = @ \o more]
<1>1. r \in ListingRecord /\ c \in Seq(Entry) /\ r.pc = "reply" /\ Paged(r, c)
    BY Zenon DEF Listings, ListingTypeOK, ReadDirReply, ListingInv, Paging
<1>2. Move(h, q) /\ UNCHANGED <<children, dentry>>
    BY Zenon DEF ReadDirReply, names
<1>3. children' = [children EXCEPT ![h] = c]
    BY <1>2, Zenon DEF Listings, ListingTypeOK
<1>4. /\ r.offset \in Nat /\ Len(c) \in Nat /\ r.offset <= Len(c) /\ DOMAIN c = 1 .. Len(c)
      /\ r.got \in Seq(Texts) /\ Len(r.got) = r.offset /\ DOMAIN r.got = 1 .. r.offset
      /\ \A i \in 1 .. r.offset : r.got[i] = c[i].name
    BY <1>1 DEF Paged, ListingRecord
<1>5. /\ DOMAIN served = 1 .. Len(c) - r.offset
      /\ \A i \in DOMAIN served : served[i] = c[r.offset + i]
    BY <1>1, ServedExact, Zenon
<1>6. ASSUME NEW i \in DOMAIN c PROVE c[i] \in Entry /\ c[i].name \in Texts
    <2>1. c[i] \in Entry
        BY <1>1
    <2> QED BY <2>1, Zenon DEF Entry
<1>7. served \in Seq(Entry) /\ Len(served) = Len(c) - r.offset
    <2>1. served = [i \in DOMAIN served |-> served[i]]
        BY Zenon DEF Served
    <2>2. ASSUME NEW i \in DOMAIN served PROVE served[i] \in Entry
        <3>1. r.offset + i \in DOMAIN c
            BY <1>4, <1>5
        <3> QED BY <1>5, <1>6, <3>1, Zenon
    <2>3. Len(c) - r.offset \in Nat
        BY <1>4
    <2> HIDE DEF served
    <2>4. served \in [1 .. Len(c) - r.offset -> Entry]
        BY <1>5, <2>1, <2>2, Zenon
    <2> QED BY <2>3, <2>4
<1> HIDE DEF served
<1>8. k \in Nat /\ k <= Len(c) - r.offset
      /\ (k = 0 => r.offset = Len(c))
    <2>1. room \in Nat /\ room >= 1 /\ Len(served) \in Nat
        BY <1>7, VfsNamesConstants
    <2> QED BY <1>4, <1>7, <2>1
<1> HIDE DEF r, c
<1>9. CASE k = 0
    <2>1. q = [r EXCEPT !.pc = "done", !.offset = 0]
        BY <1>9, Zenon
    <2> HIDE DEF q
    <2>2. /\ q \in ListingRecord /\ q.pc = "done" /\ q.got = r.got
          /\ q.stable = r.stable /\ q.ever = r.ever
        BY <1>1, <2>1, Zenon DEF ListingRecord
    <2>3. r.offset = Len(c) /\ Lists(c, r)
        BY <1>1, <1>8, <1>9, Zenon DEF Paged
    <2>4. DOMAIN r.got = DOMAIN c /\ \A i \in DOMAIN c : r.got[i] = c[i].name
        BY <1>4, <2>3, Zenon
    <2>5. Exact(q)
        BY <2>2, <2>3, <2>4 DEF Lists, Exact
    <2>6. ListingInv(q, c, dentry)
        BY <2>2, <2>5, Zenon DEF ListingInv, Paging
    <2> QED BY <1>1, <1>2, <1>3, <2>2, <2>6, OneListing, Zenon
<1>10. CASE k # 0
    <2>1. q = [r EXCEPT !.pc = "idle", !.offset = @ + k, !.got = @ \o more]
        BY <1>10, Zenon
    <2>2. ASSUME NEW j \in 1 .. k PROVE more[j] = c[r.offset + j].name /\ more[j] \in Texts
        <3>1. part[j] = served[j] /\ j \in DOMAIN served /\ r.offset + j \in DOMAIN c
            BY <1>4, <1>5, <1>7, <1>8
        <3>2. more[j] = part[j].name
            BY Zenon
        <3> HIDE DEF part, more
        <3> QED BY <1>5, <1>6, <3>1, <3>2, Zenon
    <2> HIDE DEF q, k, part
    <2>3. more \in Seq(Texts) /\ Len(more) = k
        BY <1>8, <2>2
    <2> HIDE DEF more
    <2>4. /\ r.got \o more \in Seq(Texts) /\ Len(r.got \o more) = r.offset + k
          /\ \A i \in 1 .. r.offset + k :
                (r.got \o more)[i] = IF i <= r.offset THEN r.got[i] ELSE more[i - r.offset]
        <3>1. /\ r.got \o more \in Seq(Texts) /\ Len(r.got \o more) = Len(r.got) + Len(more)
              /\ \A i \in 1 .. Len(r.got) + Len(more) :
                    (r.got \o more)[i] = IF i <= Len(r.got) THEN r.got[i] ELSE more[i - Len(r.got)]
            BY <1>4, <2>3, ConcatAt, Zenon
        <3> QED BY <1>4, <2>3, <3>1, Zenon
    <2>5. /\ q \in ListingRecord /\ q.pc = "idle" /\ q.offset = r.offset + k
          /\ q.got = r.got \o more /\ q.plus = r.plus /\ q.stable = r.stable /\ q.ever = r.ever
        <3>1. PICK n, g : n = r.offset + k /\ g = r.got \o more
            BY Zenon
        <3>2. n \in Nat /\ g \in Seq(Texts) /\ q = [r EXCEPT !.pc = "idle", !.offset = n, !.got = g]
            BY <1>4, <1>8, <2>1, <2>4, <3>1
        <3>3. /\ q \in ListingRecord /\ q.pc = "idle" /\ q.offset = n /\ q.got = g
              /\ q.plus = r.plus /\ q.stable = r.stable /\ q.ever = r.ever
            BY <1>1, <3>2, Zenon DEF ListingRecord
        <3> QED BY <3>1, <3>3, Zenon
    <2>6. ASSUME NEW i \in 1 .. r.offset + k PROVE (r.got \o more)[i] = c[i].name
        <3>1. CASE i <= r.offset
            BY <1>4, <1>8, <2>4, <3>1
        <3>2. CASE ~(i <= r.offset)
            <4>1. i - r.offset \in 1 .. k /\ r.offset + (i - r.offset) = i
                BY <1>4, <1>8, <3>2
            <4>2. more[i - r.offset] = c[i].name
                BY <2>2, <4>1, Zenon
            <4> QED BY <2>4, <3>2, <4>2, Zenon
        <3> QED BY <3>1, <3>2, Zenon
    <2>7. Lists(c, q)
        BY <1>1, <2>5, Zenon DEF Paged, Lists
    <2>8. Paged(q, c)
        <3>1. q.offset <= Len(c) /\ Len(q.got) = q.offset
            <4>1. r.offset + k <= Len(c)
                BY <1>4, <1>8
            <4> QED BY <2>4, <2>5, <4>1, Zenon
        <3>2. \A j \in 1 .. q.offset : q.got[j] = c[j].name
            BY <2>5, <2>6, Zenon
        <3>3. q.plus => \A j \in DOMAIN c : c[j].full
            BY <1>1, <2>5, Zenon DEF Paged
        <3> QED BY <2>7, <3>1, <3>2, <3>3, Zenon DEF Paged
    <2>9. ListingInv(q, c, dentry)
        BY <2>5, <2>8, Zenon DEF ListingInv
    <2> QED BY <1>1, <1>2, <1>3, <2>5, <2>9, OneListing, Zenon
<1> QED BY <1>9, <1>10, Zenon

-----------------------------------------------------------------------------
(* Theorems.                                                                *)

NamesInv == NamesCore /\ Listings

\* A fresh mount satisfies the invariant.
LEMMA NamesInitInv == NamesInit => NamesInv
<1> SUFFICES ASSUME NamesInit PROVE NamesInv
    BY Zenon
<1>1. NamesTypeOK /\ plan \in Plans
    BY VfsNamesConstants DEF NamesInit, NamesTypeOK
<1>2. KernelViewHolds
    BY Zenon DEF NamesInit, KernelViewHolds, Unknown
<1>3. ListingTypeOK
    BY ClosedListing DEF NamesInit, ListingTypeOK
<1>4. \A h \in Handles : ListingInv(ls[h], children[h], dentry)
    BY ClosedListing, Zenon DEF NamesInit
<1> QED BY <1>1, <1>2, <1>3, <1>4, Zenon DEF NamesInv, NamesCore, Listings

\* A step that leaves the listings alone.
LEMMA IdleListings ==
    ASSUME Listings, UNCHANGED <<ls, children, dentry>>
    PROVE  Listings'
BY Zenon DEF Listings, ListingTypeOK

\* A request that makes an entry keeps the invariant.
LEMMA MakeInv ==
    ASSUME NamesInv, NEW n \in DOMAIN Text, NEW request, NEW kind \in {"file", "dir", "symlink"},
           Make(request, n, kind)
    PROVE  NamesInv'
<1>1. NamesCore'
    BY MakeCore, Zenon DEF NamesInv
<1>2. Witness(dentry') /\ UNCHANGED children
    BY Zenon DEF Make
<1> QED BY <1>1, <1>2, WitnessListings, Zenon DEF NamesInv, NamesCore, NamesTypeOK

\* So does one that removes an entry.
LEMMA TakeInv ==
    ASSUME NamesInv, NEW n \in DOMAIN Text, NEW request, Take(request, n)
    PROVE  NamesInv'
<1>1. NamesCore'
    BY TakeCore, Zenon DEF NamesInv
<1>2. Witness(dentry') /\ UNCHANGED children
    BY Zenon DEF Take
<1> QED BY <1>1, <1>2, WitnessListings, Zenon DEF NamesInv, NamesCore, NamesTypeOK

\* So does every request about names.
LEMMA NameStepInv ==
    ASSUME NamesInv, NEW n \in plan.names,
           \/ Lookup(n) \/ Forget(n)
           \/ Mknod(n) \/ Mkdir(n) \/ CreateFile(n) \/ Symlink(n) \/ Unlink(n) \/ Rmdir(n)
           \/ \E i \in Inodes : HardLink(i, n)
           \/ \E m \in plan.names, exchange \in BOOLEAN : Rename(n, m, exchange)
    PROVE  NamesInv'
<1>1. \A m \in plan.names : m \in DOMAIN Text
    BY VfsNamesConstants, Zenon DEF NamesInv, NamesCore
<1>2. CASE Lookup(n)
    BY <1>1, <1>2, LookupCore, IdleListings, Zenon DEF NamesInv, Lookup
<1>3. CASE Forget(n)
    BY <1>1, <1>3, ForgetCore, IdleListings, Zenon DEF NamesInv, Forget
<1>4. CASE Mknod(n) \/ Mkdir(n) \/ CreateFile(n) \/ Symlink(n)
    BY <1>1, <1>4, MakeInv, Zenon DEF Mknod, Mkdir, CreateFile, Symlink
<1>5. CASE Unlink(n) \/ Rmdir(n)
    BY <1>1, <1>5, TakeInv, Zenon DEF Unlink, Rmdir
<1>6. ASSUME NEW i \in Inodes, HardLink(i, n) PROVE NamesInv'
    <2>1. NamesCore'
        BY <1>1, <1>6, HardLinkCore, Zenon DEF NamesInv
    <2>2. Witness(dentry') /\ UNCHANGED children
        BY <1>6, Zenon DEF HardLink
    <2> QED BY <2>1, <2>2, WitnessListings, Zenon DEF NamesInv, NamesCore, NamesTypeOK
<1>7. ASSUME NEW m \in plan.names, NEW exchange \in BOOLEAN, Rename(n, m, exchange)
      PROVE  NamesInv'
    <2>1. NamesCore'
        BY <1>1, <1>7, RenameCore, Zenon DEF NamesInv
    <2>2. Witness(dentry') /\ UNCHANGED children
        BY <1>7, Zenon DEF Rename
    <2> QED BY <2>1, <2>2, WitnessListings, Zenon DEF NamesInv, NamesCore, NamesTypeOK
<1> QED BY <1>2, <1>3, <1>4, <1>5, <1>6, <1>7, Zenon

\* So does every request about a directory handle.
LEMMA DirectoryStepInv ==
    ASSUME NamesInv, NEW h \in Handles,
           \/ OpenDir(h) \/ ReadDirList(h) \/ ReadDirAttr(h) \/ ReleaseDir(h)
           \/ \E plus \in BOOLEAN : ReadDir(h, plus)
           \/ \E room \in 1 .. Len(Order) : ReadDirReply(h, room)
    PROVE  NamesInv'
<1>1. UNCHANGED <<plan, frontend, names>>
    BY Zenon DEF OpenDir, ReadDirList, ReadDirAttr, ReleaseDir, ReadDir, ReadDirReply
<1>2. NamesCore'
    BY <1>1, DirectoryCore, Zenon DEF NamesInv
<1>3. Listings /\ NamesTypeOK
    BY Zenon DEF NamesInv, NamesCore
<1>4. Listings'
    BY <1>3, OpenDirListings, ReadDirListListings, ReadDirAttrListings, ReleaseDirListings,
       ReadDirListings, ReadDirReplyListings, Zenon
<1> QED BY <1>2, <1>4, Zenon DEF NamesInv

\* So does a new mount.
LEMMA RemountInv ==
    ASSUME NamesInv, Remount
    PROVE  NamesInv'
<1>1. NamesCore'
    BY RemountCore, Zenon DEF NamesInv
<1>0. ls' = [h \in Handles |-> Closed] /\ children' = [h \in Handles |-> <<>>]
    BY Zenon DEF Remount
<1>2. ListingTypeOK'
    BY <1>0, ClosedListing DEF ListingTypeOK
<1>3. \A h \in Handles : ListingInv(ls[h], children[h], dentry)'
    BY <1>0, ClosedListing, Zenon
<1> QED BY <1>1, <1>2, <1>3, Zenon DEF NamesInv, Listings

\* The invariant is inductive.
LEMMA NamesNextInv == NamesInv /\ [NamesNext]_namesVars => NamesInv'
<1> SUFFICES ASSUME NamesInv, [NamesNext]_namesVars PROVE NamesInv'
    BY Zenon
<1>1. CASE UNCHANGED namesVars
    <2>1. UNCHANGED <<plan, frontend, names>> /\ UNCHANGED <<ls, children, dentry>>
        BY <1>1, Zenon DEF namesVars, names
    <2> QED BY <2>1, DirectoryCore, IdleListings, Zenon DEF NamesInv
<1>2. CASE NamesNext
    BY <1>2, NameStepInv, DirectoryStepInv, RemountInv, Zenon DEF NamesNext
<1> QED BY <1>1, <1>2, Zenon

\* The inductive invariant of the names of a directory and its listings.
THEOREM NamesInvariant == NamesSpec => []NamesInv
BY NamesInitInv, NamesNextInv, PTL DEF NamesSpec

\* Type correctness of the entries, the kernel's view and the counters.
THEOREM NamesTypeCorrect == NamesSpec => []NamesTypeOK
<1>1. NamesInv => NamesTypeOK
    BY Zenon DEF NamesInv, NamesCore
<1> QED BY <1>1, NamesInvariant, PTL

\* A listing through readdir or readdirplus that reaches its end, however
\* small the pages and whatever is created, removed or renamed meanwhile, has
\* every name that was there all along exactly once and none that never was.
THEOREM ListingsAreExact == NamesSpec => []ListingExact
<1>1. ASSUME NamesInv PROVE ListingExact
    <2> SUFFICES ASSUME NEW h \in Handles, ls[h].pc = "done"
                 PROVE  /\ ls[h].stable \subseteq Range(ls[h].got)
                        /\ Range(ls[h].got) \subseteq ls[h].ever /\ IsInjective(ls[h].got)
        BY Zenon DEF ListingExact
    <2>1. Exact(ls[h])
        BY <1>1, Zenon DEF NamesInv, Listings, ListingInv
    <2> QED BY <2>1 DEF Exact, Range, IsInjective
<1> QED BY <1>1, NamesInvariant, PTL

\* What the kernel was told about a name is what a lookup of it finds, in
\* both front ends, as long as nothing is renamed onto an internal node.
THEOREM KernelViewIsTrue ==
    ASSUME RenamesVisible
    PROVE  NamesSpec => []KernelViewHolds
<1>1. NamesInv => KernelViewHolds
    BY Zenon DEF NamesInv, NamesCore
<1> QED BY <1>1, NamesInvariant, PTL

-----------------------------------------------------------------------------
(* statfs. The entries name stored inodes only, and the counters are the    *)
(* sums that StatfsFigures names.                                           *)

\* What was made since the mount less what was removed, but for renames.
Grown == Cardinality(Stored(attr)) - since.start + since.replaced

\* The counters are the sums.
Sums == count = Counter(Grown) /\ used = Counter(Grown + since.files)

\* The invariant behind statfs.
Accounts ==
    /\ attr \in [Inodes -> {"none", "file", "dir", "symlink"}] /\ made \in Nat
    /\ dentry \in [Texts -> Inodes \cup {NoEntry}]
    /\ since \in [start : Nat, replaced : Nat, files : Nat]
    /\ \A i \in Inodes : i > made => attr[i] = "none"
    /\ \A t \in Texts : dentry[t] # NoEntry => attr[dentry[t]] # "none"
    /\ Sums

\* Adding to a counter that has wrapped is adding to what it counts.
LEMMA CounterAdds ==
    ASSUME NEW v \in Int, NEW d \in Int
    PROVE  Counter(Counter(v) + d) = Counter(v + d)
<1> DEFINE c == CounterValues
<1>1. c \in Nat \ {0}
    BY VfsNamesConstants, Zenon
<1> HIDE DEF c
<1>2. PICK q \in Int, r \in 0 .. c - 1 : v = c * q + r /\ v % c = r
    BY <1>1
<1>3. PICK p \in Int, s \in 0 .. c - 1 : r + d = c * p + s /\ (r + d) % c = s
    BY <1>1
<1>4. q + p \in Int /\ v + d = c * (q + p) + s
    BY <1>1, <1>2, <1>3
<1>5. PICK k \in Int, u \in 0 .. c - 1 : v + d = c * k + u /\ (v + d) % c = u
    BY <1>1
<1>6. c * (q + p - k) = u - s
    BY <1>1, <1>4, <1>5
<1>7. q + p - k = 0
    <2> DEFINE e == q + p - k
    <2>1. e \in Int /\ c * e = u - s
        BY <1>6
    <2> HIDE DEF e
    <2>2. u - s < c /\ u - s > 0 - c
        BY <1>1, <1>3, <1>5
    <2>3. e >= 1 => c * e >= c
        BY <1>1, <2>1
    <2>4. e <= 0 - 1 => c * e <= 0 - c
        BY <1>1, <2>1
    <2>5. e = 0
        BY <1>1, <2>1, <2>2, <2>3, <2>4
    <2> QED BY <2>5, Zenon DEF e
<1>8. u = s
    BY <1>1, <1>3, <1>5, <1>6, <1>7
<1> QED BY <1>2, <1>3, <1>5, <1>8, Zenon DEF Counter, c

\* The inodes are finitely many; making one adds it, removing one takes it off.
LEMMA StoredChanges ==
    ASSUME NEW a \in [Inodes -> {"none", "file", "dir", "symlink"}], NEW i \in Inodes
    PROVE  /\ Cardinality(Stored(a)) \in Nat
           /\ a[i] = "none" => \A kind \in {"file", "dir", "symlink"} :
                Cardinality(Stored([a EXCEPT ![i] = kind])) = Cardinality(Stored(a)) + 1
           /\ a[i] # "none" =>
                Cardinality(Stored([a EXCEPT ![i] = "none"])) = Cardinality(Stored(a)) - 1
<1>1. IsFiniteSet(Inodes)
    BY VfsNamesConstants, FS_Interval DEF Inodes
<1>2. IsFiniteSet(Stored(a)) /\ Stored(a) \subseteq Inodes
    BY <1>1, FS_Subset, Zenon DEF Stored
<1>3. Cardinality(Stored(a)) \in Nat
    BY <1>2, FS_CardinalityType, Zenon
<1>4. ASSUME a[i] = "none", NEW kind \in {"file", "dir", "symlink"}
      PROVE  Cardinality(Stored([a EXCEPT ![i] = kind])) = Cardinality(Stored(a)) + 1
    <2>1. Stored([a EXCEPT ![i] = kind]) = Stored(a) \cup {i} /\ i \notin Stored(a)
        BY <1>4, Zenon DEF Stored
    <2> QED BY <1>2, <2>1, FS_AddElement, Zenon
<1>5. ASSUME a[i] # "none"
      PROVE  Cardinality(Stored([a EXCEPT ![i] = "none"])) = Cardinality(Stored(a)) - 1
    <2>1. Stored([a EXCEPT ![i] = "none"]) = Stored(a) \ {i} /\ i \in Stored(a)
        BY <1>5, Zenon DEF Stored
    <2> QED BY <1>2, <2>1, FS_RemoveElement, Zenon
<1> QED BY <1>3, <1>4, <1>5, Zenon

\* mknod, mkdir, create and symlink.
LEMMA MakeAccounts ==
    ASSUME Accounts, NEW n \in DOMAIN Text, NEW request,
           NEW kind \in {"file", "dir", "symlink"}, Make(request, n, kind)
    PROVE  Accounts'
<1> DEFINE i == made + 1
           there == Cardinality(Stored(attr))
<1>1. /\ Text[n] \in Texts /\ i \in Inodes /\ attr[i] = "none" /\ since' = since /\ made' = i
      /\ attr' = [attr EXCEPT ![i] = kind] /\ dentry' = [dentry EXCEPT ![Text[n]] = i]
      /\ count' = Counter(count + 1) /\ used' = Counter(used + 1)
    BY TextTyped DEF Make, Accounts
<1>2. there \in Nat /\ Cardinality(Stored(attr')) = there + 1
    BY <1>1, StoredChanges, Zenon DEF Accounts
<1> HIDE DEF there
<1>3. Grown \in Int /\ Grown' = Grown + 1 /\ since.files \in Int
    BY <1>1, <1>2 DEF Grown, Accounts, there
<1>4. Sums'
    <2>1. count' = Counter(Grown + 1)
        BY <1>1, <1>3, CounterAdds DEF Accounts, Sums
    <2>2. used' = Counter(Grown + since.files + 1)
        BY <1>1, <1>3, CounterAdds DEF Accounts, Sums
    <2> QED BY <1>1, <1>3, <2>1, <2>2 DEF Sums
<1>5. \A j \in Inodes : j > made' => attr'[j] = "none"
    BY <1>1 DEF Accounts, Inodes
<1>6. \A t \in Texts : dentry'[t] # NoEntry => attr'[dentry'[t]] # "none"
    BY <1>1, Zenon DEF Accounts
<1> QED BY <1>1, <1>4, <1>5, <1>6 DEF Accounts

\* link: the inode is one that is stored.
LEMMA HardLinkAccounts ==
    ASSUME Accounts, NEW n \in DOMAIN Text, NEW i \in Inodes, HardLink(i, n)
    PROVE  Accounts'
<1>1. /\ Text[n] \in Texts /\ attr[i] # "none" /\ dentry' = [dentry EXCEPT ![Text[n]] = i]
      /\ UNCHANGED <<attr, made, count, used, since>>
    BY TextTyped, Zenon DEF HardLink
<1>2. Sums'
    BY <1>1, Zenon DEF Accounts, Sums, Grown
<1> QED BY <1>1, <1>2, Zenon DEF Accounts

\* What unlink, rmdir and rename leave of the inode of an entry they change.
LEMMA KeptAccounts ==
    ASSUME Accounts, NEW d \in [Texts -> Inodes \cup {NoEntry}], NEW t \in Texts,
           \A u \in Texts : d[u] # NoEntry => \E v \in Texts : d[u] = dentry[v],
           NEW a, a = Kept(d, dentry[t])
    PROVE  /\ a \in [Inodes -> {"none", "file", "dir", "symlink"}]
           /\ \A i \in Inodes : i > made => a[i] = "none"
           /\ \A u \in Texts : d[u] # NoEntry => a[d[u]] # "none"
           /\ a # attr => Cardinality(Stored(a)) = Cardinality(Stored(attr)) - 1
           /\ Cardinality(Stored(attr)) \in Nat
<1> DEFINE i == dentry[t]
<1>0. Cardinality(Stored(attr)) \in Nat
    <2>1. CASE Inodes = {}
        <3>1. Stored(attr) = {}
            BY <2>1, Zenon DEF Stored
        <3> QED BY <3>1, FS_EmptySet
    <2> QED BY <2>1, StoredChanges, Zenon DEF Accounts
<1>1. CASE a = attr
    <2>1. \A u \in Texts : d[u] # NoEntry => attr[d[u]] # "none"
        BY Zenon DEF Accounts
    <2> QED BY <1>0, <1>1, <2>1, Zenon DEF Accounts
<1>2. CASE a # attr
    <2>1. i # NoEntry /\ (\A u \in Texts : d[u] # i) /\ a = [attr EXCEPT ![i] = "none"]
        BY <1>2, Zenon DEF Kept
    <2>2. i \in Inodes /\ attr[i] # "none"
        BY <2>1 DEF Accounts
    <2>3. Cardinality(Stored(a)) = Cardinality(Stored(attr)) - 1
        BY <2>1, <2>2, StoredChanges, Zenon DEF Accounts
    <2>4. \A u \in Texts : d[u] # NoEntry => a[d[u]] # "none"
        BY <2>1, <2>2, Zenon DEF Accounts
    <2>5. \A j \in Inodes : j > made => a[j] = "none"
        BY <2>1, <2>2, Zenon DEF Accounts
    <2>6. a \in [Inodes -> {"none", "file", "dir", "symlink"}]
        BY <2>1, <2>2, Zenon DEF Accounts
    <2> QED BY <1>0, <2>2, <2>3, <2>4, <2>5, <2>6, Zenon
<1> QED BY <1>1, <1>2, Zenon

\* unlink and rmdir.
LEMMA TakeAccounts ==
    ASSUME Accounts, NEW n \in DOMAIN Text, NEW request, Take(request, n)
    PROVE  Accounts'
<1> DEFINE i == dentry[Text[n]]
           gone == attr' # attr
           there == Cardinality(Stored(attr))
<1>1. /\ Text[n] \in Texts /\ dentry' = [dentry EXCEPT ![Text[n]] = NoEntry]
      /\ attr' = Kept(dentry', i) /\ made' = made
      /\ count' = Counter(IF gone THEN count - 1 ELSE count)
      /\ used' = Counter(IF gone /\ attr[i] # "file" THEN used - 1 ELSE used)
      /\ since' = IF gone /\ attr[i] = "file" THEN [since EXCEPT !.files = @ + 1] ELSE since
    BY TextTyped, Zenon DEF Take
<1>2. /\ dentry' \in [Texts -> Inodes \cup {NoEntry}]
      /\ \A u \in Texts : dentry'[u] # NoEntry => \E v \in Texts : dentry'[u] = dentry[v]
    BY <1>1, Zenon DEF Accounts
<1>3. /\ attr' \in [Inodes -> {"none", "file", "dir", "symlink"}]
      /\ \A j \in Inodes : j > made' => attr'[j] = "none"
      /\ \A u \in Texts : dentry'[u] # NoEntry => attr'[dentry'[u]] # "none"
      /\ gone => Cardinality(Stored(attr')) = there - 1
      /\ there \in Nat
    <2>1. PICK d : d = dentry' /\ d \in [Texts -> Inodes \cup {NoEntry}]
        BY <1>2, Zenon
    <2>2. \A x \in Texts : d[x] # NoEntry => \E v \in Texts : d[x] = dentry[v]
        BY <1>2, <2>1, Zenon
    <2>3. PICK a : a = attr' /\ a = Kept(d, dentry[Text[n]]) /\ Text[n] \in Texts
        BY <1>1, <2>1, Zenon
    <2>4. /\ a \in [Inodes -> {"none", "file", "dir", "symlink"}]
          /\ \A j \in Inodes : j > made => a[j] = "none"
          /\ \A x \in Texts : d[x] # NoEntry => a[d[x]] # "none"
          /\ a # attr => Cardinality(Stored(a)) = there - 1
          /\ there \in Nat
        BY <2>1, <2>2, <2>3, KeptAccounts
    <2> QED BY <1>1, <2>1, <2>3, <2>4, Zenon
<1>4. /\ since' \in [start : Nat, replaced : Nat, files : Nat]
      /\ since'.start = since.start /\ since'.replaced = since.replaced
      /\ since'.files = IF gone /\ attr[i] = "file" THEN since.files + 1 ELSE since.files
    BY <1>1 DEF Accounts
<1>5. ~gone => Cardinality(Stored(attr')) = there
    BY Zenon
<1> HIDE DEF there, gone, i
<1>6. /\ Grown \in Int /\ since.files \in Int
      /\ Grown' = IF gone THEN Grown - 1 ELSE Grown
    BY <1>3, <1>4, <1>5 DEF Grown, Accounts, there
<1>7. count' = Counter(Grown')
    <2>1. count' = Counter(Counter(Grown) + (IF gone THEN 0 - 1 ELSE 0))
        BY <1>1, <1>6, CounterTyped DEF Accounts, Sums
    <2> QED BY <1>6, <2>1, CounterAdds
<1>8. used' = Counter(Grown' + since'.files)
    <2>1. used' = Counter(Counter(Grown + since.files) + (IF gone /\ attr[i] # "file" THEN 0 - 1 ELSE 0))
        BY <1>1, <1>6, CounterTyped DEF Accounts, Sums
    <2>2. Grown' + since'.files = Grown + since.files + (IF gone /\ attr[i] # "file" THEN 0 - 1 ELSE 0)
        BY <1>4, <1>6
    <2>3. (IF gone /\ attr[i] # "file" THEN 0 - 1 ELSE 0) \in Int /\ Grown + since.files \in Int
        BY <1>6
    <2> QED BY <2>1, <2>2, <2>3, CounterAdds, Zenon
<1>9. Sums'
    BY <1>7, <1>8, Zenon DEF Sums
<1> QED BY <1>1, <1>2, <1>3, <1>4, <1>9, Zenon DEF Accounts

\* rename: what it replaces is counted on.
LEMMA RenameAccounts ==
    ASSUME Accounts, NEW n \in DOMAIN Text, NEW m \in DOMAIN Text, NEW exchange \in BOOLEAN,
           Rename(n, m, exchange)
    PROVE  Accounts'
<1> DEFINE t == Text[n]
           u == Text[m]
           gone == attr' # attr
           there == Cardinality(Stored(attr))
<1>1. /\ t \in Texts /\ u \in Texts /\ UNCHANGED <<made, count, used>>
      /\ dentry' = [dentry EXCEPT ![u] = dentry[t], ![t] = IF exchange THEN dentry[u] ELSE NoEntry]
      /\ attr' = Kept(dentry', dentry[u])
      /\ since' = IF gone THEN [since EXCEPT !.replaced = @ + 1] ELSE since
    BY TextTyped, Zenon DEF Rename
<1>2. /\ dentry' \in [Texts -> Inodes \cup {NoEntry}]
      /\ \A x \in Texts : dentry'[x] # NoEntry => \E v \in Texts : dentry'[x] = dentry[v]
    BY <1>1, Zenon DEF Accounts
<1>3. /\ attr' \in [Inodes -> {"none", "file", "dir", "symlink"}]
      /\ \A j \in Inodes : j > made' => attr'[j] = "none"
      /\ \A x \in Texts : dentry'[x] # NoEntry => attr'[dentry'[x]] # "none"
      /\ gone => Cardinality(Stored(attr')) = there - 1
      /\ there \in Nat
    <2>1. PICK d : d = dentry' /\ d \in [Texts -> Inodes \cup {NoEntry}]
        BY <1>2, Zenon
    <2>2. \A x \in Texts : d[x] # NoEntry => \E v \in Texts : d[x] = dentry[v]
        BY <1>2, <2>1, Zenon
    <2>3. PICK a : a = attr' /\ a = Kept(d, dentry[u]) /\ u \in Texts
        BY <1>1, <2>1, Zenon
    <2>4. /\ a \in [Inodes -> {"none", "file", "dir", "symlink"}]
          /\ \A j \in Inodes : j > made => a[j] = "none"
          /\ \A x \in Texts : d[x] # NoEntry => a[d[x]] # "none"
          /\ a # attr => Cardinality(Stored(a)) = there - 1
          /\ there \in Nat
        BY <2>1, <2>2, <2>3, KeptAccounts
    <2> QED BY <1>1, <2>1, <2>3, <2>4, Zenon
<1>4. /\ since' \in [start : Nat, replaced : Nat, files : Nat]
      /\ since'.start = since.start /\ since'.files = since.files
      /\ since'.replaced = IF gone THEN since.replaced + 1 ELSE since.replaced
    BY <1>1 DEF Accounts
<1>5. ~gone => Cardinality(Stored(attr')) = there
    BY Zenon
<1> HIDE DEF there, gone, t, u
<1>6. Grown' = Grown
    BY <1>3, <1>4, <1>5 DEF Grown, Accounts, there
<1>7. Sums'
    BY <1>1, <1>4, <1>6, Zenon DEF Sums, Accounts
<1> QED BY <1>1, <1>2, <1>3, <1>4, <1>7, Zenon DEF Accounts

\* A mount begins with both counters at zero and remembers what is there.
LEMMA MountAccounts ==
    ASSUME attr \in [Inodes -> {"none", "file", "dir", "symlink"}]
    PROVE  /\ Mounted(attr) \in [start : Nat, replaced : Nat, files : Nat]
           /\ Cardinality(Stored(attr)) - Mounted(attr).start + Mounted(attr).replaced = 0
           /\ Mounted(attr).files = 0 /\ Counter(0) = 0
<1>1. IsFiniteSet(Inodes)
    BY VfsNamesConstants, FS_Interval DEF Inodes
<1>2. IsFiniteSet(Stored(attr))
    BY <1>1, FS_Subset, Zenon DEF Stored
<1>3. Cardinality(Stored(attr)) \in Nat
    BY <1>2, FS_CardinalityType, Zenon
<1>4. Counter(0) = 0
    BY VfsNamesConstants DEF Counter
<1> QED BY <1>3, <1>4 DEF Mounted

\* So a new mount keeps the sums.
LEMMA RemountAccounts == Accounts /\ Remount => Accounts'
<1> SUFFICES ASSUME Accounts, Remount PROVE Accounts'
    BY Zenon
<1>1. UNCHANGED <<attr, dentry, made>> /\ count' = 0 /\ used' = 0 /\ since' = Mounted(attr)
    BY Zenon DEF Remount
<1>2. Sums' /\ since' \in [start : Nat, replaced : Nat, files : Nat]
    BY <1>1, MountAccounts DEF Accounts, Sums, Grown
<1> QED BY <1>1, <1>2, Zenon DEF Accounts

\* The sums hold through every request and every mount.
LEMMA AccountsInvariant == NamesSpec => []Accounts
<1>1. ASSUME NamesInit PROVE Accounts
    <2>1. attr \in [Inodes -> {"none", "file", "dir", "symlink"}]
        BY <1>1, Zenon DEF NamesInit
    <2>2. Sums /\ since \in [start : Nat, replaced : Nat, files : Nat]
        BY <1>1, <2>1, MountAccounts DEF NamesInit, Sums, Grown
    <2> QED BY <1>1, <2>1, <2>2, Zenon DEF NamesInit, Accounts
<1>2. ASSUME Accounts, plan \in Plans, [NamesNext]_namesVars PROVE Accounts'
    <2>1. CASE UNCHANGED names
        BY <1>2, <2>1, Zenon DEF names, Accounts, Sums, Grown
    <2>2. CASE UNCHANGED namesVars
        BY <2>1, <2>2, Zenon DEF namesVars, names
    <2>3. ASSUME NEW n \in plan.names,
                 \/ Lookup(n) \/ Forget(n)
                 \/ Mknod(n) \/ Mkdir(n) \/ CreateFile(n) \/ Symlink(n) \/ Unlink(n) \/ Rmdir(n)
                 \/ \E i \in Inodes : HardLink(i, n)
                 \/ \E m \in plan.names, exchange \in BOOLEAN : Rename(n, m, exchange)
          PROVE  Accounts'
        <3>1. \A m \in plan.names : m \in DOMAIN Text
            BY <1>2, VfsNamesConstants, Zenon
        <3>2. CASE Lookup(n) \/ Forget(n)
            BY <1>2, <3>2, Zenon DEF Lookup, Forget, Accounts, Sums, Grown
        <3>3. CASE Mknod(n) \/ Mkdir(n) \/ CreateFile(n) \/ Symlink(n)
            BY <1>2, <3>1, <3>3, MakeAccounts, Zenon DEF Mknod, Mkdir, CreateFile, Symlink
        <3>4. CASE Unlink(n) \/ Rmdir(n)
            BY <1>2, <3>1, <3>4, TakeAccounts, Zenon DEF Unlink, Rmdir
        <3>5. CASE \E i \in Inodes : HardLink(i, n)
            BY <1>2, <3>1, <3>5, HardLinkAccounts, Zenon
        <3>6. CASE \E m \in plan.names, exchange \in BOOLEAN : Rename(n, m, exchange)
            BY <1>2, <3>1, <3>6, RenameAccounts, Zenon
        <3> QED BY <2>3, <3>2, <3>3, <3>4, <3>5, <3>6, Zenon
    <2>4. ASSUME NEW h \in Handles,
                 \/ OpenDir(h) \/ ReadDirList(h) \/ ReadDirAttr(h) \/ ReleaseDir(h)
                 \/ \E plus \in BOOLEAN : ReadDir(h, plus)
                 \/ \E room \in 1 .. Len(Order) : ReadDirReply(h, room)
          PROVE  Accounts'
        BY <2>1, <2>4, Zenon DEF OpenDir, ReadDirList, ReadDirAttr, ReleaseDir, ReadDir, ReadDirReply
    <2> QED BY <1>2, <2>2, <2>3, <2>4, RemountAccounts, Zenon DEF NamesNext
<1>3. NamesInv => plan \in Plans
    BY Zenon DEF NamesInv, NamesCore
<1> QED BY <1>1, <1>2, <1>3, NamesInvariant, PTL DEF NamesSpec

\* After any requests, by any front end and over any mounts, statfs answers with
\* what the volume holds, counted from the mount on, together with the inodes
\* that renames replaced and the unit of every regular file that was removed,
\* for any range of the counters, any capacity and any names.
THEOREM StatfsFiguresHold == NamesSpec => []StatfsFigures
<1>1. ASSUME Accounts PROVE StatfsFigures
    <2>1. count = Counter(Grown) /\ used = Counter(Grown + since.files)
        BY <1>1, Zenon DEF Accounts, Sums
    <2>2. Grown \in Int
        <3>1. Cardinality(Stored(attr)) \in Nat
            BY <1>1, MountAccounts, Zenon DEF Accounts, Mounted
        <3> QED BY <1>1, <3>1 DEF Accounts, Grown
    <2>3. Counter(Grown) \in Int /\ CounterValues \in Int
        BY <2>2, CounterTyped, VfsNamesConstants
    <2>4. StatFs.files - StatFs.ffree = count
        BY <2>1, <2>3 DEF StatFs, FSStat
    <2>5. StatFs.bfree = FreeBlocks(StatFs.blocks, used \div BlockUnits)
        BY Zenon DEF StatFs, FSStat
    <2> QED BY <2>1, <2>4, <2>5, Zenon DEF StatfsFigures, Grown
<1> QED BY <1>1, AccountsInvariant, PTL
-----------------------------------------------------------------------------
(* ReadyFile. The invariant says which steps run under the lease, and at     *)
(* which steps a record, a retired entry or a temporary file of a process    *)
(* can exist.                                                                *)

Published == {"linked", "identify", "ready"}
Unretired == {"start", "temp", "link", "reclaim", "relink"} \cup Published
Temporary == {"link", "reclaim", "inspect", "giveBack", "relink", "failed", "linked"}
Holding == (Unretired \ {"start"}) \cup Temporary \cup {"check", "putBack", "release"}

\* The lease is held at exactly the steps of create and remove_if_owned.
LeaseHeld == \A p \in Procs : lease = p <=> pc[p] \in Holding

\* Where the record of a process is: at the path from its publication to its
\* removal, and under a retirement name of its own only when it is removed.
Records ==
    \A p \in Procs :
        /\ pc[p] \in Published /\ p \notin robbed => path = p
        /\ path = p => pc[p] \in Published \cup {"killed"}
        /\ p \in temp => pc[p] \in Temporary \cup {"killed"}
        /\ \A q \in Procs : retired[q] = p => pc[p] = "killed" \/ (q = p /\ pc[p] = "check")

\* A name for retirement is free when it is needed.
RetirementFree == \A p \in Procs : pc[p] \in Unretired => retired[p] = None

ReadyInv == ReadyTypeOK /\ LeaseHeld /\ Records /\ RetirementFree /\ ForeignPreserved

\* The inductive invariant holds when no mount has started.
LEMMA ReadyInitInv == ReadyInit => ReadyInv
  BY ReadyFileConstants, Zenon DEF ReadyInit, ReadyInv, ReadyTypeOK, LeaseHeld, Records,
     RetirementFree,
     ForeignPreserved, ReadySteps, Entries, Holding, Published, Unretired, Temporary

\* Every step of a mount, of the kernel or of another program keeps it.
LEMMA ReadyNextInv == ReadyInv /\ [ReadyNext]_readyVars => ReadyInv'
  <1> SUFFICES ASSUME ReadyInv, [ReadyNext]_readyVars PROVE ReadyInv'
    BY Zenon
  <1> USE ReadyFileConstants DEF ReadyInv, ReadyTypeOK, LeaseHeld, Records, RetirementFree,
     ForeignPreserved, ReadySteps, Entries, Holding, Published, Unretired, Temporary, Goto,
     others, Over
  <1>1. ASSUME NEW p \in Procs, AcquireLease(p) PROVE ReadyInv'
    BY <1>1 DEF AcquireLease
  <1>2. ASSUME NEW p \in Procs, LeaseRefused(p) PROVE ReadyInv'
    BY <1>2 DEF LeaseRefused
  <1>3. ASSUME NEW p \in Procs, WriteTemp(p) PROVE ReadyInv'
    BY <1>3 DEF WriteTemp
  <1>4. ASSUME NEW p \in Procs, Link(p) PROVE ReadyInv'
    BY <1>4 DEF Link
  <1>5. ASSUME NEW p \in Procs, RemoveTemp(p) PROVE ReadyInv'
    BY <1>5 DEF RemoveTemp
  <1>6. ASSUME NEW p \in Procs, Identify(p) PROVE ReadyInv'
    BY <1>6 DEF Identify
  <1>7. ASSUME NEW p \in Procs, CreateFails(p) PROVE ReadyInv'
    BY <1>7 DEF CreateFails
  <1>8. ASSUME NEW p \in Procs, Retire(p) PROVE ReadyInv'
    BY <1>8 DEF Retire
  <1>9. ASSUME NEW p \in Procs, Inspect(p) PROVE ReadyInv'
    BY <1>9 DEF Inspect, Reclaimable, OwnerIsDead
  <1>10. ASSUME NEW p \in Procs, Check(p) PROVE ReadyInv'
    BY <1>10 DEF Check, Owned
  <1>11. ASSUME NEW p \in Procs, Restore(p) PROVE ReadyInv'
    BY <1>11 DEF Restore
  <1>12. ASSUME NEW p \in Procs, ReleaseLease(p) PROVE ReadyInv'
    BY <1>12 DEF ReleaseLease
  <1>13. ASSUME NEW p \in Procs, Exit(p) PROVE ReadyInv'
    BY <1>13 DEF Exit
  <1>14. ASSUME NEW p \in Procs, Kill(p) PROVE ReadyInv'
    BY <1>14 DEF Kill
  <1>15. ASSUME NEW p \in Procs, ReusePid(p) PROVE ReadyInv'
    BY <1>15 DEF ReusePid
  <1>16. ASSUME NEW f \in Foreign, Place(f) PROVE ReadyInv'
    BY <1>16 DEF Place
  <1>17. CASE TakeAway
    BY <1>17 DEF TakeAway
  <1>18. CASE UNCHANGED readyVars
    BY <1>18 DEF readyVars
  <1>19. QED
    BY <1>1, <1>2, <1>3, <1>4, <1>5, <1>6, <1>7, <1>8, <1>9, <1>10, <1>11, <1>12,
       <1>13, <1>14, <1>15, <1>16, <1>17, <1>18, Zenon DEF ReadyNext, Process

\* The inductive invariant holds in every reachable state.
LEMMA ReadyInvariance == ReadySpec => []ReadyInv
  BY ReadyInitInv, ReadyNextInv, PTL DEF ReadySpec

\* A ready mount keeps its record at the path whatever other mounts do.
THEOREM RecordStays == ReadySpec => []ReadyRecordStays
  <1>1. ReadyInv => ReadyRecordStays
    BY Zenon DEF ReadyInv, Records, ReadyRecordStays, Published
  <1>2. QED
    BY ReadyInvariance, <1>1, PTL

\* Only a killed mount leaves its record or its temporary file behind.
THEOREM RecordRemoved == ReadySpec => []OwnerRemovesRecord
  <1>1. ReadyInv => OwnerRemovesRecord
    BY DEF ReadyInv, ReadyTypeOK, LeaseHeld, Records, OwnerRemovesRecord, Holding, Unretired,
       Temporary, Published
  <1>2. QED
    BY ReadyInvariance, <1>1, PTL

\* No mount destroys an entry that another program put at the path.
THEOREM ForeignSafe == ReadySpec => []ForeignPreserved
  <1>1. ReadyInv => ForeignPreserved
    BY Zenon DEF ReadyInv
  <1>2. QED
    BY ReadyInvariance, <1>1, PTL

\* Type correctness of ReadyFile.
THEOREM ReadyTypeCorrect == ReadySpec => []ReadyTypeOK
  <1>1. ReadyInv => ReadyTypeOK
    BY Zenon DEF ReadyInv
  <1>2. QED
    BY ReadyInvariance, <1>1, PTL
=============================================================================
