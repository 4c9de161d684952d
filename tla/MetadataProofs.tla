--------------------------- MODULE MetadataProofs ---------------------------
(***************************************************************************)
(* Proofs about Metadata for any number of inodes, names and concurrent    *)
(* requests: the inductive invariant, that every step keeps it, and the    *)
(* safety properties that follow. A batch is collected in one step and     *)
(* written in a later one, past whatever else was written in between: that *)
(* it is sound at first is shown in MetadataBatchProofs, that it stays so  *)
(* in MetadataTreeProofs.                                                  *)
(***************************************************************************)
EXTENDS MetadataBatchProofs

-----------------------------------------------------------------------------
(* The inductive invariant.                                                 *)

\* The number IdTable hands out next. Everything that exists, is open or is
\* about to be written has a smaller one.
Frontier == Filled.next

Typed ==
    /\ dentry \in Dentries /\ attr \in Attrs /\ files \in [Inodes -> OpenFile \cup {None}]
    /\ counter \in Nat /\ ids \in [next : Nat, max : Nat] /\ ids.next <= ids.max /\ ids.max <= counter
    /\ chunks \subseteq Inodes /\ doomed \subseteq Inodes /\ deleting \subseteq Inodes
    /\ req = [c \in Calls |-> req[c]] /\ bound \in Bounds

\* What holds of a request in flight. A file it deletes was closed when it
\* looked, so that one that is open now was opened late.
Pended(r) ==
    /\ Formed(r) /\ Opens(attr, r) /\ (~r.stale => Sound(dentry, attr, r))
    /\ r.ino < Frontier /\ \A i \in DOMAIN r.attr : i < Frontier
    /\ \A i \in r.doom : IsOpened(i) => i \in late

\* An inode the request is about to make.
Makes(r, i) == ~r.stale /\ i \in DOMAIN r.attr /\ attr[i] = None

\* Two requests in flight: their locks exclude each other, and what one of
\* them makes the other neither writes nor opens.
Distinct(r, q) ==
    /\ r.held \cap q.held = {}
    /\ \A i \in Inodes : Makes(r, i) => /\ i \in DOMAIN q.attr => q.stale
                                        /\ q.op = "open" => q.ino # i

Requests == \A c \in Calls : req[c] # Idle => Pended(req[c])
Apart == \A c, d \in Calls : req[c] # Idle /\ req[d] # Idle /\ c # d => Distinct(req[c], req[d])

\* Nothing is left of an inode that is about to be made.
NewInodes ==
    \A c \in Calls, i \in Inodes : req[c] # Idle /\ Makes(req[c], i) =>
        i \notin chunks /\ i \notin doomed /\ i \notin deleting /\ files[i] = None

Used ==
    \A i \in Inodes : \/ attr[i] # None \/ files[i] # None
                      \/ i \in chunks \/ i \in doomed \/ i \in deleting
        => i < Frontier

\* Only files are open or have slices.
Files == \A i \in Inodes : attr[i] # None /\ (files[i] # None \/ i \in chunks) => IsFile(i)

Inv ==
    /\ Typed /\ Requests /\ Apart /\ NewInodes /\ Used /\ Files
    /\ Namespace(dentry, attr) /\ DeletionExact /\ OpenFileKept

\* The next number is within what the counter has given out.
LEMMA FrontierType == ASSUME Typed PROVE Frontier \in Nat /\ Frontier <= counter
  BY MetadataConstants DEF Typed, Frontier, Filled

\* The invariant holds at the start.
LEMMA InitInv == Init => Inv
<1> SUFFICES ASSUME Init PROVE Inv
  BY Zenon
<1>1. Root \in Inodes /\ NewAttr("dir", Root) \in Attributes /\ NewAttr("dir", Root) # None
  BY Values, Zenon DEF NewAttr, Attributes, Root
<1>2. Typed
  BY <1>1 DEF Init, Typed, Dentries, Attrs
<1>3. Requests /\ Apart /\ NewInodes
  BY Zenon DEF Init, Requests, Apart, NewInodes
<1>4. Frontier = 2
  BY DEF Init, Frontier, Filled
<1>5. Used
  BY <1>1, <1>4 DEF Init, Used, Root
<1>6. Files
  BY Zenon DEF Init, Files
<1>7. Namespace(dentry, attr)
  <2>1. Rooted(dentry, attr)
    BY <1>1, Values, Zenon DEF Init, Rooted, Dir, NewAttr
  <2>2. Filed(dentry, attr)
    BY Zenon DEF Init, Filed
  <2>3. \A i \in Inodes : i # Root => attr[i] = None
    BY Zenon DEF Init
  <2>4. Placed(dentry, attr)
    BY <2>3, Zenon DEF Placed, Dir
  <2>5. LinksCounted(dentry, attr)
    BY <1>1, <2>1, <2>3, Zenon DEF LinksCounted, Rooted, Dir
  <2>6. NoRing(attr)
    BY <2>3, Zenon DEF NoRing, Dir
  <2> QED BY <2>1, <2>2, <2>4, <2>5, <2>6, Zenon DEF Namespace
<1>8. DeletionExact /\ OpenFileKept
  BY Zenon DEF Init, DeletionExact, OpenFileKept, IsOpened
<1> QED BY <1>2, <1>3, <1>5, <1>6, <1>7, <1>8, Zenon DEF Inv

\* A step that starts a request, and changes nothing else but cached lengths
\* and the table of inode numbers.
LEMMA StartKeeps ==
    ASSUME Inv, NEW c \in Calls, NEW r,
           UNCHANGED <<dentry, attr, chunks, doomed, deleting, late, bound>>,
           req' = [req EXCEPT ![c] = r],
           files' \in [Inodes -> OpenFile \cup {None}],
           \A i \in Inodes : (files'[i] = None) = (files[i] = None) /\ IsOpened(i)' = IsOpened(i),
           Typed => /\ counter' \in Nat /\ ids' \in [next : Nat, max : Nat]
                    /\ ids.next' <= ids.max' /\ ids.max' <= counter',
           Frontier <= Frontier', r.ino < Frontier', \A i \in DOMAIN r.attr : i < Frontier',
           Admissible(r),
           \A i \in DOMAIN r.attr : attr[i] = None => ~(i < Frontier),
           r.op = "open" => attr[r.ino] # None \/ ~(r.ino < Frontier),
           \A d \in Calls : d # c /\ req[d] # Idle => req[d].held \cap r.held = {}
    PROVE  Inv'
<1>1. /\ dentry' = dentry /\ attr' = attr /\ chunks' = chunks /\ doomed' = doomed
      /\ deleting' = deleting /\ late' = late
      /\ req'[c] = r /\ \A d \in Calls : d # c => req'[d] = req[d]
  BY Zenon DEF Inv, Typed
<1>2. Typed'
  BY Zenon DEF Inv, Typed
<1>3. Frontier \in Nat /\ Frontier' \in Nat
  <2>1. Frontier \in Nat
    BY FrontierType, Zenon DEF Inv
  <2>2. Frontier' \in Nat
    BY <1>2, MetadataConstants, Zenon DEF Typed, Frontier, Filled
  <2> QED BY <2>1, <2>2, Zenon
<1>4. Requests'
  <2> SUFFICES ASSUME NEW d \in Calls, req'[d] # Idle PROVE Pended(req[d])'
    BY Zenon DEF Requests
  <2>1. CASE d = c
    <3>1. Formed(r) /\ Opens(attr', r) /\ Sound(dentry', attr', r) /\ r.doom \subseteq Inodes
      BY <1>1, Zenon DEF Admissible, Formed
    <3>2. \A i \in r.doom : ~IsOpened(i)'
      BY <3>1, Zenon DEF Admissible
    <3> QED BY <1>1, <2>1, <3>1, <3>2, Zenon DEF Pended
  <2>2. CASE d # c
    <3>1. req'[d] = req[d] /\ Pended(req[d])
      BY <1>1, <2>2, Zenon DEF Inv, Requests
    <3>2. req[d].ino \in Nat /\ \A i \in DOMAIN req[d].attr : i \in Nat
      BY <3>1, Values, Zenon DEF Pended, Formed
    <3>3. req[d].ino < Frontier' /\ \A i \in DOMAIN req[d].attr : i < Frontier'
      BY <1>3, <3>1, <3>2 DEF Pended
    <3>4. \A i \in req[d].doom : IsOpened(i)' => i \in late'
      BY <1>1, <3>1, Zenon DEF Pended, Formed
    <3> QED BY <1>1, <3>1, <3>3, <3>4, Zenon DEF Pended
  <2> QED BY <2>1, <2>2, Zenon
<1>5. \A q, i : Makes(q, i)' = Makes(q, i)
  BY <1>1, Zenon DEF Makes
<1>6. \A d \in Calls : d # c /\ req[d] # Idle => Distinct(r, req[d])' /\ Distinct(req[d], r)'
  <2> SUFFICES ASSUME NEW d \in Calls, d # c, req[d] # Idle
               PROVE  Distinct(r, req[d])' /\ Distinct(req[d], r)'
    BY Zenon
  <2>1. Pended(req[d]) /\ req'[d] = req[d]
    BY <1>1, Zenon DEF Inv, Requests
  <2>2. \A i \in Inodes : Makes(r, i) => /\ i \in DOMAIN req[d].attr => req[d].stale
                                         /\ req[d].op = "open" => req[d].ino # i
    BY <2>1, Zenon DEF Pended, Makes
  <2>3. \A i \in Inodes : Makes(req[d], i) => /\ i \in DOMAIN r.attr => r.stale
                                              /\ r.op = "open" => r.ino # i
    BY <2>1, Zenon DEF Pended, Makes
  <2>4. r.held \cap req[d].held = {} /\ req[d].held \cap r.held = {}
    BY Zenon
  <2> QED BY <1>5, <2>1, <2>2, <2>3, <2>4, Zenon DEF Distinct
<1>7. Apart'
  <2> SUFFICES ASSUME NEW d \in Calls, NEW e \in Calls, req'[d] # Idle, req'[e] # Idle, d # e
               PROVE  Distinct(req[d], req[e])'
    BY Zenon DEF Apart
  <2>1. CASE d = c \/ e = c
    BY <1>1, <1>6, <2>1, Zenon
  <2>2. CASE d # c /\ e # c
    <3>1. Distinct(req[d], req[e]) /\ req'[d] = req[d] /\ req'[e] = req[e]
      BY <1>1, <2>2, Zenon DEF Inv, Apart
    <3> QED BY <1>5, <3>1, Zenon DEF Distinct
  <2> QED BY <2>1, <2>2, Zenon
<1>8. NewInodes'
  <2> SUFFICES ASSUME NEW d \in Calls, NEW i \in Inodes, req'[d] # Idle, Makes(req'[d], i)
               PROVE  i \notin chunks' /\ i \notin doomed' /\ i \notin deleting' /\ files'[i] = None
    BY <1>5, Zenon DEF NewInodes
  <2>1. CASE d = c
    BY <1>1, <2>1, Zenon DEF Inv, Used, Makes
  <2>2. CASE d # c
    BY <1>1, <2>2, Zenon DEF Inv, NewInodes
  <2> QED BY <2>1, <2>2, Zenon
<1>9. Used'
  BY <1>1, <1>3, Values DEF Inv, Used
<1>10. Files' /\ Namespace(dentry, attr)'
  BY <1>1, Zenon DEF Inv, Files, IsFile
<1>11. DeletionExact' /\ OpenFileKept'
  BY <1>1 DEF Inv, DeletionExact, OpenFileKept, HasName, Entries
<1> QED BY <1>2, <1>4, <1>7, <1>8, <1>9, <1>10, <1>11, Zenon DEF Inv

\* IdTable::next hands out the frontier and moves it.
LEMMA NumberTaken ==
    ASSUME Typed, NEW i, NextInode(i)
    PROVE  /\ i = Frontier /\ Frontier' \in Nat /\ i \in Nat /\ i < Frontier' /\ Frontier <= Frontier'
           /\ counter' \in Nat /\ ids' \in [next : Nat, max : Nat]
           /\ ids.next' <= ids.max' /\ ids.max' <= counter'
  BY MetadataConstants DEF Typed, NextInode, Filled, Frontier

\* Refreshing a cached attribute opens and closes nothing.
LEMMA RefreshedFiles ==
    ASSUME Inv, NEW i \in Inodes, attr[i] # None, files' = Refreshed(i, attr[i].length)
    PROVE  /\ files' \in [Inodes -> OpenFile \cup {None}]
           /\ \A j \in Inodes : (files'[j] = None) = (files[j] = None) /\ IsOpened(j)' = IsOpened(j)
<1>1. files \in [Inodes -> OpenFile \cup {None}] /\ attr[i].length \in Nat
  BY Zenon DEF Inv, Typed, Attrs, Attributes
<1>2. CASE files[i] = None
  BY <1>1, <1>2, Zenon DEF Refreshed, IsOpened
<1>3. CASE files[i] # None
  <2>1. files' = [files EXCEPT ![i] = [files[i] EXCEPT !.length = attr[i].length]]
    BY <1>1, <1>3, Zenon DEF Refreshed
  <2>2. /\ [files[i] EXCEPT !.length = attr[i].length] \in OpenFile
        /\ [files[i] EXCEPT !.length = attr[i].length].ref = files[i].ref
    BY <1>1, <1>3, Zenon DEF OpenFile
  <2>3. [files[i] EXCEPT !.length = attr[i].length] # None
    BY <2>2, Values, Zenon
  <2> QED BY <1>1, <1>3, <2>1, <2>2, <2>3, Zenon DEF IsOpened
<1> QED BY <1>2, <1>3, Zenon

\* A request about an inode that exists, without new ones.
LEMMA StartExisting ==
    ASSUME Inv, NEW c \in Calls, NEW r,
           UNCHANGED <<dentry, attr, chunks, doomed, deleting, late, bound, counter, ids>>,
           files' \in [Inodes -> OpenFile \cup {None}],
           \A i \in Inodes : (files'[i] = None) = (files[i] = None) /\ IsOpened(i)' = IsOpened(i),
           req' = [req EXCEPT ![c] = r],
           Admissible(r), Existing(r),
           \A d \in Calls : d # c /\ req[d] # Idle => req[d].held \cap r.held = {}
    PROVE  Inv'
<1>1. r.ino \in Inodes /\ DOMAIN r.attr \subseteq Inodes
  BY Zenon DEF Admissible, Formed
<1>2. Frontier' = Frontier /\ Frontier \in Nat
  BY FrontierType, Zenon DEF Inv, Frontier, Filled
<1>3. r.ino < Frontier' /\ \A i \in DOMAIN r.attr : i < Frontier'
  BY <1>1, <1>2, Zenon DEF Inv, Used, Existing
<1>4. /\ counter' \in Nat /\ ids' \in [next : Nat, max : Nat]
      /\ ids.next' <= ids.max' /\ ids.max' <= counter'
  BY Zenon DEF Inv, Typed
<1>5. /\ Frontier <= Frontier' /\ \A i \in DOMAIN r.attr : attr[i] = None => ~(i < Frontier)
      /\ r.op = "open" => attr[r.ino] # None \/ ~(r.ino < Frontier)
  BY <1>2 DEF Existing
<1> QED BY <1>3, <1>4, <1>5, StartKeeps, Zenon

\* What Start does.
LEMMA Started ==
    ASSUME NEW c \in Calls, NEW r, Start(c, r)
    PROVE  /\ req' = [req EXCEPT ![c] = r]
           /\ \A d \in Calls : d # c /\ req[d] # Idle => req[d].held \cap r.held = {}
  BY Zenon DEF Start, Free

\* The common form of the operations: nothing in memory changes.
LEMMA StartKept ==
    ASSUME Inv, NEW c \in Calls, NEW r, Start(c, r),
           UNCHANGED <<database, table, memory, late, bound>>,
           Admissible(r), Existing(r)
    PROVE  Inv'
<1>1. /\ files' \in [Inodes -> OpenFile \cup {None}]
      /\ \A i \in Inodes : (files'[i] = None) = (files[i] = None) /\ IsOpened(i)' = IsOpened(i)
  BY Zenon DEF Inv, Typed, memory, IsOpened
<1>2. UNCHANGED <<dentry, attr, chunks, doomed, deleting, late, bound, counter, ids>>
  BY Zenon DEF database, table, memory
<1> QED BY <1>1, <1>2, Started, StartExisting, Zenon

\* The invariant holds of the database.
LEMMA InvDatabase == Inv => Database
  BY Zenon DEF Inv, Typed, Database

\* mknod, mkdir, symlink, create.
LEMMA MakeKeeps ==
    ASSUME Inv, NEW c \in Calls, NEW p \in Inodes, NEW n \in Names, NEW i \in Inodes,
           \E k \in {"dir", "file", "symlink"} : DoMknod(c, p, n, k, i) \/ Create(c, p, n, i)
    PROVE  Inv'
<1>1. Database /\ IsDir(p) /\ dentry[<<p, n>>] = None /\ NextInode(i)
      /\ UNCHANGED <<database, memory, late, bound>>
  BY InvDatabase, Zenon DEF DoMknod, Create
<1>2. PICK k, op, batch, r :
        /\ k \in {"dir", "file", "symlink"} /\ op \in {"write", "open"}
        /\ batch \in {Put(i, NewAttr(k, p)), Put(i, NewAttr(k, p)) ++ Touch(p)}
        /\ op = "open" => k = "file"
        /\ r = Making(op, p, n, i, batch)
        /\ Start(c, r)
  BY Zenon DEF DoMknod, Create, Making
<1>3. r.ino = i /\ r.op = op /\ Start(c, r)
  BY <1>2, Zenon DEF Request, Making
<1>4. /\ i = Frontier /\ Frontier' \in Nat /\ i \in Nat /\ i < Frontier' /\ Frontier <= Frontier'
      /\ counter' \in Nat /\ ids' \in [next : Nat, max : Nat]
      /\ ids.next' <= ids.max' /\ ids.max' <= counter'
  BY <1>1, NumberTaken, Zenon DEF Inv
<1>5. ~(i < Frontier) /\ attr[i] = None
  BY <1>4 DEF Inv, Used
<1>6. Admissible(r) /\ \A j \in DOMAIN r.attr : attr[j] = None => j = i
  <2>1. /\ Database /\ IsDir(p) /\ dentry[<<p, n>>] = None
        /\ k \in {"dir", "file", "symlink"} /\ op \in {"write", "open"}
        /\ batch \in {Put(i, NewAttr(k, p)), Put(i, NewAttr(k, p)) ++ Touch(p)}
        /\ op = "open" => k = "file"
        /\ r = Making(op, p, n, i, batch)
    BY <1>1, <1>2, Zenon
  <2> QED BY <1>5, <2>1, MakeAdmissible
<1>7. DOMAIN r.attr \subseteq Inodes
  BY <1>6, Zenon DEF Admissible, Formed
<1>8. \A j \in DOMAIN r.attr : j < Frontier'
  <2> TAKE j \in DOMAIN r.attr
  <2>1. CASE attr[j] = None
    BY <1>4, <1>6, <2>1, Zenon
  <2>2. CASE attr[j] # None
    <3>1. j \in Nat /\ j < Frontier
      BY <1>7, <2>2, Values, Zenon DEF Inv, Used
    <3> QED BY <1>4, <3>1
  <2> QED BY <2>1, <2>2, Zenon
<1>9. /\ files' \in [Inodes -> OpenFile \cup {None}]
      /\ \A j \in Inodes : (files'[j] = None) = (files[j] = None) /\ IsOpened(j)' = IsOpened(j)
  BY <1>1, Zenon DEF Inv, Typed, memory, IsOpened
<1>10. UNCHANGED <<dentry, attr, chunks, doomed, deleting, late, bound>>
  BY <1>1, Zenon DEF database, memory
<1>11. /\ req' = [req EXCEPT ![c] = r]
       /\ \A d \in Calls : d # c /\ req[d] # Idle => req[d].held \cap r.held = {}
  BY <1>3, Started, Zenon
<1> QED BY <1>3, <1>4, <1>5, <1>6, <1>8, <1>9, <1>10, <1>11, StartKeeps, Zenon

\* rmdir.
LEMMA RmdirKeeps ==
    ASSUME Inv, NEW c \in Calls, NEW p \in Inodes, NEW n \in Names, Rmdir(c, p, n)
    PROVE  Inv'
<1>1. PICK i, r :
        /\ i = dentry[<<p, n>>] /\ i # None /\ IsDir(p) /\ IsDir(i)
        /\ \A m \in Names : dentry[<<i, m>>] = None
        /\ r = [Request("write", i, Held({p, i})) EXCEPT
                    !.dentry = Put(<<p, n>>, None), !.attr = Put(i, None) ++ Touch(p)]
        /\ Start(c, r) /\ UNCHANGED <<database, table, memory, late, bound>>
  BY ZenonT(30) DEF Rmdir
<1>2. Admissible(r) /\ Existing(r)
  BY <1>1, InvDatabase, RmdirAdmissible, Zenon
<1> QED BY <1>1, <1>2, StartKept, SMTT(20)

\* unlink.
LEMMA UnlinkKeeps ==
    ASSUME Inv, NEW c \in Calls, NEW p \in Inodes, NEW n \in Names, Unlink(c, p, n)
    PROVE  Inv'
<1>1. PICK i, s, r :
        /\ i = dentry[<<p, n>>] /\ i # None /\ IsDir(p) /\ ~IsDir(i)
        /\ s = [Request("write", i, Held({p, i})) EXCEPT
                    !.dentry = Put(<<p, n>>, None), !.attr = Touch(p)]
        /\ r = DropLink(s, i)
        /\ Start(c, r) /\ UNCHANGED <<database, table, memory, late, bound>>
  BY Zenon DEF Unlink
<1>2. /\ s = Fields(s) /\ s.op = "write" /\ s.ino = i /\ s.held = Held({p, i})
      /\ s.dentry = Put(<<p, n>>, None) /\ s.attr = Touch(p) /\ s.slices = {} /\ s.doom = {}
      /\ s.size = 0 /\ s.stale \in BOOLEAN /\ ~s.stale
  BY <1>1, Zenon DEF Request, Fields
<1>3. Admissible(r) /\ Existing(r)
  <2>1. /\ i = dentry[<<p, n>>] /\ i # None /\ IsDir(p) /\ ~IsDir(i) /\ r = DropLink(s, i)
    BY <1>1, Zenon
  <2> QED BY <1>2, <2>1, InvDatabase, UnlinkAdmissible, Zenon
<1> QED BY <1>1, <1>3, StartKept, SMTT(20)

\* link.
LEMMA LinkKeeps ==
    ASSUME Inv, NEW c \in Calls, NEW p \in Inodes, NEW n \in Names, NEW i \in Inodes, Link(c, i, p, n)
    PROVE  Inv'
<1>1. PICK r :
        /\ HasName(i) /\ ~IsDir(i) /\ IsDir(p) /\ dentry[<<p, n>>] = None
        /\ r = [Request("write", i, Held({p, i})) EXCEPT
                    !.dentry = Put(<<p, n>>, i),
                    !.attr = Put(i, [attr[i] EXCEPT !.nlink = @ + 1]) ++ Touch(p)]
        /\ Start(c, r) /\ files' = Refreshed(i, attr[i].length)
        /\ UNCHANGED <<database, table, removed, deleting, late, bound>>
  BY Zenon DEF Link
<1>2. Admissible(r) /\ Existing(r)
  BY <1>1, InvDatabase, LinkAdmissible, Zenon
<1>3. attr[i] # None
  <2>1. PICK k \in Keys : dentry[k] = i
    BY <1>1, Zenon DEF HasName, Entries
  <2> QED BY <2>1, InvDatabase, Values, Zenon DEF Database, Namespace, Filed
<1>4. /\ files' \in [Inodes -> OpenFile \cup {None}]
      /\ \A j \in Inodes : (files'[j] = None) = (files[j] = None) /\ IsOpened(j)' = IsOpened(j)
  BY <1>1, <1>3, RefreshedFiles, Zenon
<1>5. UNCHANGED <<dentry, attr, chunks, doomed, deleting, late, bound, counter, ids>>
  BY <1>1, Zenon DEF database, table
<1>6. /\ req' = [req EXCEPT ![c] = r]
      /\ \A d \in Calls : d # c /\ req[d] # Idle => req[d].held \cap r.held = {}
  BY <1>1, Started, Zenon
<1> QED BY <1>2, <1>4, <1>5, <1>6, StartExisting, Zenon

\* The record in which RenameBatch has it.
Moving(p, n, q, m, s, v, held) ==
    [Request("write", s, held) EXCEPT
        !.dentry = Put(<<q, m>>, s) ++ Put(<<p, n>>, v),
        !.attr = Put(s, Moved(s, q)) ++ Touch(q) ++ Touch(p)]

\* rename, in either form, is one of the two kinds of batch.
LEMMA RenameMoves ==
    ASSUME NEW p, NEW n, NEW q, NEW m, NEW s, NEW v, NEW held, NEW u, NEW k, NEW l,
           k = <<p, n>>, l = <<q, m>>, k # l, s # p, s # q, u = Moving(p, n, q, m, s, v, held)
    PROVE  Moves(u, k, l, s, v, held)
<1>1. /\ u = Fields(u) /\ u.op = "write" /\ u.ino = s /\ u.held = held
      /\ u.slices = {} /\ u.doom = {} /\ u.size = 0 /\ u.stale \in BOOLEAN /\ ~u.stale
      /\ u.dentry = Put(l, s) ++ Put(k, v)
      /\ u.attr = Put(s, Moved(s, q)) ++ Touch(q) ++ Touch(p)
  BY Zenon DEF Request, Fields, Moving
<1>2. DOMAIN u.dentry = {k, l} /\ u.dentry[k] = v /\ u.dentry[l] = s
  BY <1>1, Zenon DEF Put, ++
<1>3. /\ DOMAIN u.attr = {s, p, q} /\ u.attr[s] = Moved(s, q)
      /\ u.attr[p] = attr[p] /\ u.attr[q] = attr[q]
  BY <1>1 DEF Put, ++, Touch
<1>4. k[1] = p /\ l[1] = q
  BY Zenon
<1> QED BY <1>1, <1>2, <1>3, <1>4, Zenon DEF Moves

\* rename.
LEMMA RenameKeeps ==
    ASSUME Inv, NEW c \in Calls, NEW p \in Inodes, NEW n \in Names, NEW q \in Inodes, NEW m \in Names,
           NEW flag, Rename(c, p, n, q, m, flag)
    PROVE  Inv'
<1>1. Database
  BY InvDatabase, Zenon
<1>2. PICK s, t, k, l, r :
        /\ s = dentry[k] /\ t = dentry[l] /\ k = <<p, n>> /\ l = <<q, m>> /\ s # None
        /\ k # l /\ IsDir(p) /\ IsDir(q) /\ (IF t = None THEN flag # "exchange" ELSE flag # "noreplace")
        /\ t # None /\ IsDir(t) /\ flag # "exchange" => \A e \in Names : dentry[<<t, e>>] = None
        /\ s # t /\ ~Above(s, q) /\ (t # None => ~Above(t, p))
        /\ r = RenameBatch(p, n, q, m, flag)
        /\ Start(c, r) /\ UNCHANGED <<database, table, memory, late, bound>>
  BY Zenon DEF Rename, RenameAllowed
<1>3. k \in Keys /\ l \in Keys /\ p = k[1] /\ q = l[1]
  BY <1>2, Zenon DEF Keys
<1>4. s # p /\ s # q /\ t # q /\ t # p /\ s \in Inodes /\ attr[s] # None
  BY <1>1, <1>2, <1>3, NoSelf, NotAbove, Values, Zenon DEF Database, Dentries, Namespace, Filed
<1>5. PICK u, v :
        /\ v = (IF flag = "exchange" THEN t ELSE None)
        /\ u = Moving(p, n, q, m, s, v, RenameLocks(s, t, p, q, flag))
        /\ r = IF flag = "exchange" THEN [u EXCEPT !.attr = Put(t, Moved(t, p)) ++ @]
                                    ELSE Replaced(u, t)
  BY <1>2, ZenonT(30) DEF RenameBatch, Moving
<1>6. Moves(u, k, l, s, v, RenameLocks(s, t, p, q, flag))
  BY <1>2, <1>4, <1>5, RenameMoves
<1>7. Admissible(r) /\ Existing(r)
  <2>1. CASE flag = "exchange"
    <3>1. /\ r = Fields(r) /\ r.op = "write" /\ r.ino = s
          /\ r.held = RenameLocks(s, t, p, q, "exchange") /\ r.dentry = u.dentry
          /\ r.attr = Put(t, Moved(t, p)) ++ u.attr
          /\ r.slices = {} /\ r.doom = {} /\ r.size = 0 /\ r.stale \in BOOLEAN /\ ~r.stale
      BY <1>5, <1>6, <2>1 DEF Fields, Moves
    <3>2. /\ DOMAIN r.dentry = {k, l} /\ r.dentry[k] = t /\ r.dentry[l] = s
      BY <1>5, <1>6, <2>1, <3>1, Zenon DEF Moves
    <3>3. /\ DOMAIN r.attr = {s, t, p, q} /\ r.attr[s] = Moved(s, q) /\ r.attr[t] = Moved(t, p)
          /\ r.attr[p] = attr[p] /\ r.attr[q] = attr[q]
      BY <1>2, <1>3, <1>4, <1>6, <3>1 DEF Put, ++, Moves
    <3>4. s = dentry[k] /\ t = dentry[l] /\ s # None /\ t # None /\ k # l
          /\ IsDir(p) /\ IsDir(q) /\ s # t /\ ~Above(s, q) /\ ~Above(t, p)
      BY <1>2, <2>1, Zenon
    <3> QED BY <1>1, <1>3, <3>1, <3>2, <3>3, <3>4, ExchangeAdmissible, Zenon
  <2>2. CASE flag # "exchange"
    <3>1. Moves(u, k, l, s, None, RenameLocks(s, t, p, q, flag)) /\ r = Replaced(u, t)
      BY <1>5, <1>6, <2>2, Zenon
    <3>2. Replacing(k, l, p, q, s, t)
      BY <1>2, <1>3, <2>2, Zenon DEF Replacing
    <3> QED BY <1>1, <2>2, <3>1, <3>2, ReplaceAdmissible, Zenon
  <2> QED BY <2>1, <2>2, Zenon
<1> QED BY <1>2, <1>7, StartKept, Zenon

\* set_attr, on its own or after the truncation of the same request.
LEMMA SetAttrKeeps ==
    ASSUME Inv, NEW c \in Calls, NEW i \in Inodes, SetAttr(c, i)
    PROVE  Inv'
<1>1. PICK r :
        /\ r = [Request("write", i, Held({i})) EXCEPT !.attr = Put(i, attr[i])]
        /\ attr[i] # None /\ UNCHANGED <<database, table, memory, late, bound>>
        /\ \/ Start(c, r)
           \/ /\ req[c] # Idle /\ req[c].op = "truncated" /\ req[c].ino = i
              /\ req' = [req EXCEPT ![c] = r]
  BY Zenon DEF SetAttr
<1>2. Sets(r, "write", i, Held({i}), attr[i], {}, 0) /\ r.held = Held({i})
  <2>1. r = [Request("write", i, Held({i})) EXCEPT !.attr = Put(i, attr[i])]
    BY <1>1, Zenon
  <2> QED BY <2>1, Zenon DEF Request, Sets, Fields
<1>3. Admissible(r) /\ Existing(r)
  <2>1. attr[i] # None /\ attr[i] \in Attributes /\ Same(attr[i], attr[i])
    BY <1>1, Zenon DEF Inv, Typed, Attrs, Same
  <2>2. {} \subseteq {i} /\ 0 \in Nat /\ {} = {}
    BY Zenon
  <2> QED BY <1>2, <2>1, <2>2, InvDatabase, AttrAdmissible
<1>4. CASE Start(c, r)
  BY <1>1, <1>3, <1>4, StartKept, Zenon
<1>5. CASE /\ req[c] # Idle /\ req[c].op = "truncated" /\ req[c].ino = i
           /\ req' = [req EXCEPT ![c] = r]
  <2>1. req[c].held = Held({i})
    BY <1>5, Zenon DEF Inv, Requests, Pended, Formed
  <2>2. \A d \in Calls : d # c /\ req[d] # Idle => req[d].held \cap r.held = {}
    BY <1>2, <1>5, <2>1, Zenon DEF Inv, Apart, Distinct
  <2>3. /\ files' \in [Inodes -> OpenFile \cup {None}]
        /\ \A j \in Inodes : (files'[j] = None) = (files[j] = None) /\ IsOpened(j)' = IsOpened(j)
    BY <1>1, Zenon DEF Inv, Typed, memory, IsOpened
  <2>4. UNCHANGED <<dentry, attr, chunks, doomed, deleting, late, bound, counter, ids>>
    BY <1>1, Zenon DEF database, table, memory
  <2> QED BY <1>3, <1>5, <2>2, <2>3, <2>4, StartExisting, Zenon
<1> QED BY <1>1, <1>4, <1>5, Zenon

\* truncate, which may find nothing to do.
LEMMA TruncateKeeps ==
    ASSUME Inv, NEW c \in Calls, NEW i \in Inodes, NEW size \in 0 .. bound.len, Truncate(c, i, size)
    PROVE  Inv'
<1>1. PICK r : /\ r = Truncated(i, size) \/ r = DoTruncate(i, size)
               /\ IsFile(i) /\ Start(c, r) /\ UNCHANGED <<database, table, memory, late, bound>>
  BY Zenon DEF Truncate
<1>2. size \in Nat /\ attr[i] \in Attributes /\ attr[i] # None
  BY <1>1, MetadataConstants DEF Inv, Typed, Attrs, IsFile
<1>3. CASE r = Truncated(i, size)
  <2>1. Empty(r, i) /\ r.op = "truncated"
    BY <1>2, <1>3, EmptyFormed, Zenon
  <2>2. Sound(dentry, attr, r)
    BY <2>1, EmptySound, Zenon DEF Inv, Typed, Empty
  <2>3. Admissible(r) /\ Existing(r)
    BY <1>2, <2>1, <2>2, Zenon DEF Admissible, Existing, Opens, Empty
  <2> QED BY <1>1, <2>3, StartKept, Zenon
<1>4. CASE r = DoTruncate(i, size)
  <2>1. PICK a, slices :
            /\ a = [attr[i] EXCEPT !.length = size]
            /\ slices \subseteq {i} /\ Sets(r, "truncate", i, Held({i}), a, slices, size)
    BY <1>4, Zenon DEF DoTruncate, Request, Sets, Fields
  <2>2. a \in Attributes /\ Same(a, attr[i])
    <3>1. a \in Attributes /\ a.kind = attr[i].kind /\ a.nlink = attr[i].nlink /\ a.parent = attr[i].parent
      BY <1>2, <2>1, Zenon DEF Attributes
    <3> QED BY <1>2, <3>1, Values, Zenon DEF Same
  <2>3. Admissible(r) /\ Existing(r)
    BY <1>1, <1>2, <2>1, <2>2, InvDatabase, AttrAdmissible, Zenon
  <2> QED BY <1>1, <2>3, StartKept, Zenon
<1> QED BY <1>1, <1>3, <1>4, Zenon

\* write_slice, before its transaction commits.
LEMMA CommitKeeps ==
    ASSUME Inv, NEW c \in Calls, NEW i \in Inodes, NEW length \in 1 .. bound.len, Commit(c, i, length)
    PROVE  Inv'
<1>1. PICK a, r :
        /\ a = [attr[i] EXCEPT !.length = IF length > attr[i].length THEN length ELSE attr[i].length]
        /\ r = [Request("commit", i, {}) EXCEPT !.attr = Put(i, a), !.slices = {i}, !.size = length]
        /\ IsFile(i) /\ Start(c, r) /\ UNCHANGED <<database, table, memory, late, bound>>
  BY Zenon DEF Commit
<1>2. length \in Nat /\ attr[i] \in Attributes /\ attr[i] # None
  BY <1>1, MetadataConstants DEF Inv, Typed, Attrs, IsFile
<1>3. a \in Attributes /\ Same(a, attr[i])
  <2>1. a \in Attributes /\ a.kind = attr[i].kind /\ a.nlink = attr[i].nlink /\ a.parent = attr[i].parent
    BY <1>1, <1>2, Zenon DEF Attributes
  <2> QED BY <1>2, <2>1, Values, Zenon DEF Same
<1>4. Admissible(r) /\ Existing(r)
  <2>1. Sets(r, "commit", i, {}, a, {i}, length)
    BY <1>1, Zenon DEF Request, Sets, Fields
  <2> QED BY <1>1, <1>2, <1>3, <2>1, InvDatabase, AttrAdmissible, Zenon
<1> QED BY <1>1, <1>4, StartKept, SMTT(20)

\* open.
LEMMA OpenKeeps ==
    ASSUME Inv, NEW c \in Calls, NEW i \in Inodes, Open(c, i)
    PROVE  Inv'
<1>1. PICK r : /\ r = [Request("open", i, {}) EXCEPT !.size = attr[i].length]
               /\ IsFile(i) /\ Start(c, r) /\ UNCHANGED <<database, table, memory, late, bound>>
  BY Zenon DEF Open
<1>2. attr[i] # None /\ attr[i].length \in Nat /\ attr[i].kind = "file"
  BY <1>1, Values, Zenon DEF Inv, Typed, Attrs, Attributes, IsFile
<1>3. Empty(r, i)
  <2>1. Empty([Request("open", i, {}) EXCEPT !.size = attr[i].length], i)
    BY <1>2, EmptyFormed, Zenon
  <2> QED BY <1>1, <2>1, Zenon
<1>4. Sound(dentry, attr, r)
  BY <1>3, EmptySound, Zenon DEF Inv, Typed, Empty
<1>5. Admissible(r) /\ Existing(r)
  BY <1>2, <1>3, <1>4, Zenon DEF Admissible, Existing, Opens, Empty
<1> QED BY <1>1, <1>5, StartKept, Zenon

\* A step that writes no inode and opens nothing: requests may end, files be
\* closed and chunks be deleted together with their mark.
LEMMA QuietKeeps ==
    ASSUME Inv, Typed', dentry' = dentry, attr' = attr, Frontier <= Frontier',
           \A c \in Calls : req'[c] # Idle => req'[c] = req[c],
           \A i \in Inodes : /\ files'[i] # None => files[i] # None
                             /\ IsOpened(i)' => IsOpened(i) /\ (i \in late => i \in late'),
           chunks' \subseteq chunks, doomed' \subseteq doomed, deleting' \subseteq deleting,
           \A i \in chunks' : i \in doomed => i \in doomed'
    PROVE  Inv'
<1>1. Frontier \in Nat /\ Frontier' \in Nat
  <2>1. Frontier \in Nat
    BY FrontierType, Zenon DEF Inv
  <2>2. Frontier' \in Nat
    BY MetadataConstants, Zenon DEF Typed, Frontier, Filled
  <2> QED BY <2>1, <2>2, Zenon
<1>2. Requests'
  <2> SUFFICES ASSUME NEW d \in Calls, req'[d] # Idle PROVE Pended(req[d])'
    BY Zenon DEF Requests
  <2>1. req'[d] = req[d] /\ Pended(req[d])
    BY Zenon DEF Inv, Requests
  <2>2. req[d].ino \in Nat /\ \A i \in DOMAIN req[d].attr : i \in Nat
    BY <2>1, Values, Zenon DEF Pended, Formed
  <2>3. req[d].ino < Frontier' /\ \A i \in DOMAIN req[d].attr : i < Frontier'
    BY <1>1, <2>1, <2>2 DEF Pended
  <2>4. \A i \in req[d].doom : IsOpened(i)' => i \in late'
    BY <2>1, Zenon DEF Pended, Formed
  <2> QED BY <2>1, <2>3, <2>4, Zenon DEF Pended
<1>3. \A r, i : Makes(r, i)' = Makes(r, i)
  BY Zenon DEF Makes
<1>4. Apart'
  <2> SUFFICES ASSUME NEW d \in Calls, NEW e \in Calls, req'[d] # Idle, req'[e] # Idle, d # e
               PROVE  Distinct(req[d], req[e])'
    BY Zenon DEF Apart
  <2>1. Distinct(req[d], req[e]) /\ req'[d] = req[d] /\ req'[e] = req[e]
    BY Zenon DEF Inv, Apart
  <2> QED BY <1>3, <2>1, Zenon DEF Distinct
<1>5. NewInodes'
  BY <1>3, Zenon DEF Inv, NewInodes
<1>6. Used'
  BY <1>1, Values DEF Inv, Used
<1>7. Files' /\ Namespace(dentry, attr)'
  BY Zenon DEF Inv, Files, IsFile
<1>8. DeletionExact' /\ OpenFileKept'
  BY DEF Inv, DeletionExact, OpenFileKept, HasName, Entries
<1> QED BY <1>2, <1>4, <1>5, <1>6, <1>7, <1>8, Zenon DEF Inv

\* The steps other than operations and writes.
LEMMA QuietSteps ==
    ASSUME Inv,
           \/ \E c \in Calls : Conflict(c)
           \/ \E i \in Inodes : Close(i) \/ GetAttr(i) \/ DeleteChunks(i)
           \/ Crash
           \/ UNCHANGED vars
    PROVE  Inv'
<1>1. Frontier \in Nat /\ Frontier <= counter
  BY FrontierType, Zenon DEF Inv
<1>2. ASSUME NEW c \in Calls, Conflict(c) PROVE Inv'
  <2>1. /\ UNCHANGED <<dentry, attr, chunks, doomed, counter, ids, files, deleting, late, bound>>
        /\ req' = [req EXCEPT ![c] = Idle]
    BY <1>2, Zenon DEF Conflict, database, table, memory
  <2>2. Typed' /\ Frontier' = Frontier
    BY <2>1, Zenon DEF Inv, Typed, Frontier, Filled
  <2>3. \A d \in Calls : req'[d] # Idle => req'[d] = req[d]
    BY <2>1, Zenon DEF Inv, Typed
  <2>4. \A i \in Inodes : /\ files'[i] # None => files[i] # None
                          /\ IsOpened(i)' => IsOpened(i) /\ (i \in late => i \in late')
    BY <2>1, Zenon DEF IsOpened
  <2> QED BY <1>1, <2>1, <2>2, <2>3, <2>4, QuietKeeps
<1>3. ASSUME NEW i \in Inodes, Close(i) PROVE Inv'
  <2>1. /\ UNCHANGED <<dentry, attr, chunks, doomed, counter, ids, deleting, req, bound>>
        /\ IsOpened(i) /\ files' = Closed(i)
        /\ late' = IF files[i].ref = 1 THEN late \ {i} ELSE late
    BY <1>3, Zenon DEF Close, database, table
  <2>2. /\ files[i] # None /\ files[i] \in OpenFile /\ files[i].ref \in Nat /\ files[i].ref > 0
        /\ files \in [Inodes -> OpenFile \cup {None}]
    BY <2>1, Zenon DEF Inv, Typed, IsOpened, OpenFile
  <2>3. PICK f \in OpenFile : files' = [files EXCEPT ![i] = f] /\ f.ref = files[i].ref - 1
    <3>1. files' = [files EXCEPT ![i] = [files[i] EXCEPT !.ref = files[i].ref - 1]]
      BY <2>1, <2>2, Zenon DEF Closed
    <3>2. /\ [files[i] EXCEPT !.ref = files[i].ref - 1] \in OpenFile
          /\ [files[i] EXCEPT !.ref = files[i].ref - 1].ref = files[i].ref - 1
      BY <2>2 DEF OpenFile
    <3> QED BY <3>1, <3>2, Zenon
  <2>4. Typed' /\ Frontier' = Frontier
    BY <2>1, <2>2, <2>3, Zenon DEF Inv, Typed, Frontier, Filled
  <2>5. \A j \in Inodes : /\ files'[j] # None => files[j] # None
                          /\ IsOpened(j)' => IsOpened(j) /\ (j \in late => j \in late')
    BY <2>1, <2>2, <2>3 DEF IsOpened
  <2> QED BY <1>1, <2>1, <2>4, <2>5, QuietKeeps
<1>4. ASSUME NEW i \in Inodes, GetAttr(i) PROVE Inv'
  <2>1. /\ UNCHANGED <<dentry, attr, chunks, doomed, counter, ids, deleting, req, late, bound>>
        /\ attr[i] # None /\ files' = Refreshed(i, attr[i].length)
    BY <1>4, Zenon DEF GetAttr, database, table
  <2>2. /\ files' \in [Inodes -> OpenFile \cup {None}]
        /\ \A j \in Inodes : (files'[j] = None) = (files[j] = None) /\ IsOpened(j)' = IsOpened(j)
    BY <2>1, RefreshedFiles, Zenon
  <2>3. Typed' /\ Frontier' = Frontier
    BY <2>1, <2>2, Zenon DEF Inv, Typed, Frontier, Filled
  <2> QED BY <1>1, <2>1, <2>2, <2>3, QuietKeeps
<1>5. ASSUME NEW i \in Inodes, DeleteChunks(i) PROVE Inv'
  <2>1. /\ UNCHANGED <<dentry, attr, counter, ids, files, req, late, bound>>
        /\ chunks' = chunks \ {i} /\ doomed' = doomed \ {i} /\ deleting' = deleting \ {i}
    BY <1>5, Zenon DEF DeleteChunks, table
  <2>2. Typed' /\ Frontier' = Frontier
    BY <2>1, Zenon DEF Inv, Typed, Frontier, Filled
  <2>3. \A j \in Inodes : /\ files'[j] # None => files[j] # None
                          /\ IsOpened(j)' => IsOpened(j) /\ (j \in late => j \in late')
    BY <2>1, Zenon DEF IsOpened
  <2> QED BY <1>1, <2>1, <2>2, <2>3, QuietKeeps
<1>6. CASE Crash
  <2>1. /\ UNCHANGED <<dentry, attr, chunks, doomed, counter, bound>>
        /\ ids' = [next |-> 0, max |-> 0] /\ files' = [i \in Inodes |-> None] /\ deleting' = {}
        /\ req' = [c \in Calls |-> Idle]
    BY <1>6, Zenon DEF Crash, database
  <2>2. Typed' /\ Frontier' = counter
    BY <2>1 DEF Inv, Typed, Frontier, Filled
  <2>3. \A j \in Inodes : /\ files'[j] # None => files[j] # None
                          /\ IsOpened(j)' => IsOpened(j) /\ (j \in late => j \in late')
    BY <2>1, Zenon DEF IsOpened
  <2> QED BY <1>1, <2>1, <2>2, <2>3, QuietKeeps, Zenon
<1>7. CASE UNCHANGED vars
  BY <1>7 DEF vars, database, table, memory, Inv, Typed, Requests, Pended, Apart, Distinct,
     Makes,
              NewInodes, Used, Files, DeletionExact, OpenFileKept, IsOpened, IsFile, HasName,
              Entries,
              Frontier, Filled
<1> QED BY <1>2, <1>3, <1>4, <1>5, <1>6, <1>7, Zenon

\* The write of r, but for the other requests.
Writes(r) ==
    /\ Pended(r) /\ ~r.stale
    /\ dentry' = r.dentry ++ dentry /\ attr' = r.attr ++ attr
    /\ chunks' = chunks \cup r.slices
    /\ doomed' = doomed \cup r.doom /\ deleting' = deleting \cup r.doom
    /\ files' = IF r.op = "open" THEN Opened(r.ino, r.size) ELSE files
    /\ late \subseteq late'
    /\ r.op = "open" /\ (attr'[r.ino] = None \/ \E d \in Calls : req[d] # Idle /\ r.ino \in req[d].doom)
            => r.ino \in late'
    /\ UNCHANGED <<counter, ids, bound>>

\* What a request becomes when r is written: a commit of an inode whose
\* attribute r wrote is stale.
Stays(r, q, q1) ==
    /\ Formed(q1)
    /\ q1.op = q.op /\ q1.ino = q.ino /\ q1.held = q.held /\ q1.attr = q.attr /\ q1.doom = q.doom
    /\ q.stale => q1.stale
    /\ ~q1.stale => q1 = q /\ ~q.stale /\ (q.op = "commit" => q.ino \notin DOMAIN r.attr)

\* The database after the write.
LEMMA WritesDatabase ==
    ASSUME Inv, NEW r, Writes(r)
    PROVE  /\ dentry' \in Dentries /\ attr' \in Attrs /\ Namespace(dentry, attr)'
           /\ r.ino \in Inodes /\ DOMAIN r.attr \subseteq Inodes
           /\ r.slices \subseteq DOMAIN r.attr /\ r.doom \subseteq DOMAIN r.attr
           /\ \A i \in Inodes :
                /\ i \notin DOMAIN r.attr => attr'[i] = attr[i]
                /\ i \in DOMAIN r.attr => attr'[i] = r.attr[i]
                /\ attr[i] # None /\ attr'[i] # None => attr'[i].kind = attr[i].kind
                /\ attr[i] # None /\ attr'[i] = None => (attr[i].kind = "file" => i \in r.doom)
                /\ i \in DOMAIN r.attr /\ attr[i] = None => Makes(r, i) /\ attr'[i] # None
                /\ i \in r.doom => attr'[i] = None
                /\ i \in r.slices => attr'[i] # None /\ attr'[i].kind = "file"
<1>1. /\ Formed(r) /\ Sound(dentry, attr, r) /\ ~r.stale
      /\ dentry' = r.dentry ++ dentry /\ attr' = r.attr ++ attr
      /\ dentry \in Dentries /\ attr \in Attrs
  BY Zenon DEF Inv, Typed, Writes, Pended
<1>2. dentry' \in Dentries
  BY <1>1, Zenon DEF ++, Dentries, Formed
<1>3. attr' \in Attrs /\ \A i \in Inodes : attr'[i] = IF i \in DOMAIN r.attr THEN r.attr[i] ELSE attr[i]
  BY <1>1, Zenon DEF ++, Attrs, Formed
<1>4. Namespace(dentry, attr)' /\ InodesLocked(dentry, attr, r) /\ Deletes(attr, r)
  BY <1>1, Zenon DEF Sound
<1>5. r.ino \in Inodes /\ DOMAIN r.attr \subseteq Inodes
  BY <1>1, Zenon DEF Formed
<1>6. r.slices \subseteq DOMAIN r.attr /\ r.doom \subseteq DOMAIN r.attr
  BY <1>4, Zenon DEF Deletes
<1>7. ASSUME NEW i \in Inodes
      PROVE  /\ i \notin DOMAIN r.attr => attr'[i] = attr[i]
             /\ i \in DOMAIN r.attr => attr'[i] = r.attr[i]
             /\ attr[i] # None /\ attr'[i] # None => attr'[i].kind = attr[i].kind
             /\ attr[i] # None /\ attr'[i] = None => (attr[i].kind = "file" => i \in r.doom)
             /\ i \in DOMAIN r.attr /\ attr[i] = None => Makes(r, i) /\ attr'[i] # None
             /\ i \in r.doom => attr'[i] = None
             /\ i \in r.slices => attr'[i] # None /\ attr'[i].kind = "file"
  <2>1. attr'[i] = IF i \in DOMAIN r.attr THEN r.attr[i] ELSE attr[i]
    BY <1>3, Zenon
  <2>2. attr[i] # None /\ attr'[i] # None => attr'[i].kind = attr[i].kind
    BY <1>4, <2>1, Zenon DEF InodesLocked
  <2>3. /\ attr[i] # None /\ attr'[i] = None => (attr[i].kind = "file" => i \in r.doom)
        /\ i \in DOMAIN r.attr /\ attr[i] = None => attr'[i] # None
        /\ i \in r.doom => attr'[i] = None
        /\ i \in r.slices => attr'[i] # None /\ attr'[i].kind = "file"
    BY <1>4, <2>1, Zenon DEF Deletes
  <2>4. i \in DOMAIN r.attr /\ attr[i] = None => Makes(r, i)
    BY <1>1, Zenon DEF Makes
  <2> QED BY <2>1, <2>2, <2>3, <2>4, Zenon
<1> QED BY <1>2, <1>3, <1>4, <1>5, <1>6, <1>7, Zenon

\* Another request after the write.
LEMMA OtherStays ==
    ASSUME Inv, NEW r, NEW q, NEW q1, Writes(r), Pended(q), Stays(r, q, q1),
           Distinct(r, q), \E d \in Calls : req[d] = q /\ q # Idle
    PROVE  /\ Pended(q1)'
           /\ \A i \in Inodes : Makes(q1, i)' => Makes(q, i)
<1>1. /\ Formed(q) /\ Formed(r) /\ Formed(q1) /\ Opens(attr, q) /\ ~r.stale
      /\ (~q.stale => Sound(dentry, attr, q)) /\ Sound(dentry, attr, r)
      /\ dentry \in Dentries /\ attr \in Attrs /\ Namespace(dentry, attr)
      /\ dentry' = r.dentry ++ dentry /\ attr' = r.attr ++ attr
  BY Zenon DEF Inv, Typed, Writes, Pended, Stays
<1>2. Frontier' = Frontier
  BY Zenon DEF Writes, Frontier, Filled
<1>3. ASSUME ~q1.stale
      PROVE  Sound(dentry, attr, q)' /\ \A i \in DOMAIN q.attr : Alike(attr'[i], attr[i])
  <2>1. q1 = q /\ ~q.stale /\ (q.op = "commit" => q.ino \notin DOMAIN r.attr)
    BY <1>3, Zenon DEF Stays
  <2>2. \A i \in DOMAIN r.attr \cap DOMAIN q.attr : attr[i] # None
    BY <1>1, <2>1, Zenon DEF Distinct, Makes, Formed
  <2>3. r.held \cap q.held = {}
    BY Zenon DEF Distinct
  <2>4. Sound(dentry, attr, q)
    BY <1>1, <2>1, Zenon
  <2>5. /\ Sound(r.dentry ++ dentry, r.attr ++ attr, q)
        /\ \A i \in DOMAIN q.attr : Alike((r.attr ++ attr)[i], attr[i])
    BY <1>1, <2>1, <2>2, <2>3, <2>4, StillSound, Zenon
  <2> QED BY <1>1, <2>5, Zenon
<1>4. Opens(attr, q1)'
  <2>1. q1.op = q.op /\ q1.ino = q.ino /\ q1.attr = q.attr /\ q.ino \in Inodes
    BY <1>1, Zenon DEF Stays, Formed
  <2>2. q.op = "open" => (attr'[q.ino] # None => attr'[q.ino].kind = "file")
    <3> SUFFICES ASSUME q.op = "open", attr'[q.ino] # None PROVE attr'[q.ino].kind = "file"
      BY Zenon
    <3>1. ~Makes(r, q.ino)
      BY <2>1, Zenon DEF Distinct
    <3>2. attr[q.ino] # None
      BY <2>1, <3>1, WritesDatabase, Zenon
    <3>3. attr[q.ino].kind = "file"
      BY <1>1, <3>2, Zenon DEF Opens
    <3> QED BY <2>1, <3>2, <3>3, WritesDatabase, Zenon
  <2> QED BY <1>1, <2>1, <2>2, Zenon DEF Opens
<1>5. \A i \in q1.doom : IsOpened(i)' => i \in late'
  <2> SUFFICES ASSUME NEW i \in q.doom, IsOpened(i)' PROVE i \in late'
    BY Zenon DEF Stays
  <2>1. i \in Inodes /\ r.ino \in Inodes /\ files \in [Inodes -> OpenFile \cup {None}]
    BY <1>1, Zenon DEF Formed, Inv, Typed
  <2>2. CASE IsOpened(i)
    BY <2>2, Zenon DEF Pended, Writes
  <2>3. CASE ~IsOpened(i)
    <3>1. r.op = "open" /\ i = r.ino
      BY <2>1, <2>3, Zenon DEF Writes, Opened, IsOpened
    <3> QED BY <3>1, Zenon DEF Writes
  <2> QED BY <2>2, <2>3, Zenon
<1>6. Pended(q1)'
  <2>1. q1.ino < Frontier' /\ \A i \in DOMAIN q1.attr : i < Frontier'
    BY <1>2, Zenon DEF Stays, Pended
  <2>2. ~q1.stale => Sound(dentry, attr, q1)'
    BY <1>3, Zenon DEF Stays
  <2> QED BY <1>1, <1>4, <1>5, <2>1, <2>2, Zenon DEF Pended
<1>7. ASSUME NEW i \in Inodes, Makes(q1, i)' PROVE Makes(q, i)
  <2>1. ~q1.stale /\ i \in DOMAIN q.attr /\ attr'[i] = None /\ ~q.stale
    BY <1>7, Zenon DEF Makes, Stays
  <2>2. Alike(attr'[i], attr[i])
    BY <1>3, <2>1, Zenon
  <2> QED BY <2>1, <2>2, Zenon DEF Alike, Same, Makes
<1> QED BY <1>6, <1>7, Zenon

\* What the write leaves of files and chunks.
LEMMA WritesKeep ==
    ASSUME Inv, NEW r, Writes(r),
           \A i \in Inodes :
              Makes(r, i) => i \notin chunks /\ i \notin doomed /\ i \notin deleting /\ files[i] = None
    PROVE  Used' /\ Files' /\ DeletionExact' /\ OpenFileKept'
<1>1. /\ files \in [Inodes -> OpenFile \cup {None}] /\ r.ino \in Inodes /\ Frontier' = Frontier
      /\ \A i \in Inodes : /\ i # r.ino \/ r.op # "open" => files'[i] = files[i]
                           /\ IsOpened(i)' => IsOpened(i) \/ (r.op = "open" /\ i = r.ino)
  BY WritesDatabase, Zenon DEF Inv, Typed, Writes, Opened, IsOpened, Frontier, Filled
<1>2. /\ Formed(r) /\ Opens(attr, r) /\ r.ino < Frontier /\ \A i \in DOMAIN r.attr : i < Frontier
      /\ \A i \in r.doom : IsOpened(i) => i \in late
  BY Zenon DEF Writes, Pended
<1>3. \A i \in Inodes : Makes(r, i) => i \notin chunks /\ i \notin doomed /\ i \notin deleting /\ files[i] = None
  BY Zenon
<1>4. /\ chunks' = chunks \cup r.slices /\ doomed' = doomed \cup r.doom
      /\ deleting' = deleting \cup r.doom /\ late \subseteq late'
      /\ r.op = "open" /\ attr'[r.ino] = None => r.ino \in late'
  BY Zenon DEF Writes
<1>5. Used'
  <2> SUFFICES ASSUME NEW i \in Inodes,
                      \/ attr'[i] # None \/ files'[i] # None
                      \/ i \in chunks' \/ i \in doomed' \/ i \in deleting'
               PROVE  i < Frontier'
    BY Zenon DEF Used
  <2>1. CASE i \in DOMAIN r.attr \/ i = r.ino
    BY <1>1, <1>2, <2>1, Zenon
  <2>2. CASE i \notin DOMAIN r.attr /\ i # r.ino
    <3>1. attr'[i] = attr[i] /\ i \notin r.slices /\ i \notin r.doom
      BY <2>2, WritesDatabase, Zenon
    <3> QED BY <1>1, <1>4, <2>2, <3>1, Zenon DEF Inv, Used
  <2> QED BY <2>1, <2>2, Zenon
<1>6. Files'
  <2> SUFFICES ASSUME NEW i \in Inodes, attr'[i] # None, files'[i] # None \/ i \in chunks'
               PROVE  attr'[i].kind = "file"
    BY Zenon DEF Files, IsFile
  <2>1. CASE files[i] # None \/ i \in chunks
    <3>1. attr[i] # None
      BY <1>3, <2>1, WritesDatabase, Zenon
    <3> QED BY <2>1, <3>1, WritesDatabase, Zenon DEF Inv, Files, IsFile
  <2>2. CASE i \in r.slices
    BY <2>2, WritesDatabase, Zenon
  <2>3. CASE r.op = "open" /\ i = r.ino
    BY <1>2, <2>3, WritesDatabase DEF Opens
  <2> QED BY <1>1, <1>4, <2>1, <2>2, <2>3, Zenon
<1>7. DeletionExact'
  <2> SUFFICES ASSUME NEW i \in Inodes
               PROVE  /\ i \in doomed' \cup deleting' => attr'[i] = None /\ ~HasName(i)'
                      /\ i \in chunks' /\ attr'[i] = None => i \in doomed'
    BY Zenon DEF DeletionExact
  <2>1. i \in doomed' \cup deleting' => attr'[i] = None
    BY <1>3, <1>4, WritesDatabase DEF Inv, DeletionExact
  <2>2. attr'[i] = None => ~HasName(i)'
    <3>1. \A k \in Keys : dentry'[k] # None => attr'[dentry'[k]] # None
      BY WritesDatabase, Zenon DEF Namespace, Filed
    <3>2. i # None
      BY Values, Zenon
    <3> QED BY <3>1, <3>2, Zenon DEF HasName, Entries
  <2>3. i \in chunks' /\ attr'[i] = None => i \in doomed'
    BY <1>4, WritesDatabase, Zenon DEF Inv, DeletionExact, Files, IsFile
  <2> QED BY <2>1, <2>2, <2>3, Zenon
<1>8. OpenFileKept'
  <2> SUFFICES ASSUME NEW i \in Inodes, IsOpened(i)', i \notin late'
               PROVE  attr'[i] # None /\ i \notin doomed'
    BY Zenon DEF OpenFileKept
  <2>1. i \in doomed' => attr'[i] = None
    BY <1>7, Zenon DEF DeletionExact
  <2>2. CASE IsOpened(i)
    <3>1. attr[i] # None /\ i \notin r.doom /\ files[i] # None
      BY <1>2, <1>4, <2>2, Zenon DEF Inv, OpenFileKept, IsOpened
    <3>2. attr[i].kind = "file"
      BY <3>1, Zenon DEF Inv, Files, IsFile
    <3> QED BY <2>1, <3>1, <3>2, WritesDatabase, Zenon
  <2>3. CASE r.op = "open" /\ i = r.ino
    BY <1>4, <2>1, <2>3, Zenon
  <2> QED BY <1>1, <2>2, <2>3, Zenon
<1> QED BY <1>5, <1>6, <1>7, <1>8, Zenon

\* Apply: the write of a request and what follows it.
LEMMA ApplyKeeps ==
    ASSUME Inv, NEW c \in Calls, Apply(c)
    PROVE  Inv'
<1>1. PICK r : r = req[c] /\ r # Idle /\ Pended(r) /\ ~r.stale
  BY Zenon DEF Apply, Admitted, Inv, Requests
<1>2. Writes(r)
  BY <1>1, Zenon DEF Apply, Writes, table
<1>3. /\ req' = [d \in Calls |-> req'[d]]
      /\ req'[c] # Idle => r.op = "truncate" /\ req'[c] = Truncated(r.ino, r.size)
      /\ \A d \in Calls \ {c} :
            req'[d] = IF req[d] # Idle /\ req[d].op = "commit" /\ req[d].ino \in DOMAIN r.attr
                      THEN [req[d] EXCEPT !.stale = TRUE] ELSE req[d]
  BY <1>1, Zenon DEF Apply
<1>4. ASSUME NEW d \in Calls \ {c}, req'[d] # Idle
      PROVE  /\ req[d] # Idle /\ Pended(req[d]) /\ Distinct(r, req[d]) /\ Distinct(req[d], r)
             /\ Stays(r, req[d], req'[d])
  <2>1. PICK q : q = req[d] /\ q # Idle
    BY <1>3, <1>4, Zenon
  <2>2. Pended(q) /\ Distinct(r, q) /\ Distinct(q, r)
    BY <1>1, <2>1, Zenon DEF Inv, Requests, Apart
  <2>3. Formed(q)
    BY <2>2, Zenon DEF Pended
  <2>4. PICK q1 : q1 = req'[d]
    BY Zenon
  <2>5. CASE q.op = "commit" /\ q.ino \in DOMAIN r.attr
    <3>1. q1 = [Fields(q) EXCEPT !.stale = TRUE]
      BY <1>3, <2>1, <2>3, <2>4, <2>5, Zenon DEF Formed
    <3>2. /\ q1 = Fields(q1) /\ q1.op = q.op /\ q1.ino = q.ino /\ q1.held = q.held
          /\ q1.attr = q.attr /\ q1.doom = q.doom /\ q1.dentry = q.dentry /\ q1.slices = q.slices
          /\ q1.size = q.size /\ q1.stale \in BOOLEAN /\ q1.stale
      BY <3>1, Zenon DEF Fields
    <3> QED BY <2>1, <2>2, <2>3, <2>4, <2>5, <3>2, Zenon DEF Formed, Stays
  <2>6. CASE ~(q.op = "commit" /\ q.ino \in DOMAIN r.attr)
    <3>1. q1 = q
      BY <1>3, <2>1, <2>4, <2>6, Zenon
    <3>2. q.stale => q.op = "commit"
      BY <2>3, Zenon DEF Formed
    <3> QED BY <2>1, <2>2, <2>3, <2>4, <2>6, <3>1, Zenon DEF Stays
  <2> QED BY <2>5, <2>6, Zenon
<1>5. ASSUME NEW d \in Calls \ {c}, req'[d] # Idle
      PROVE  Pended(req[d])' /\ \A i \in Inodes : Makes(req[d], i)' => Makes(req[d], i)
  BY <1>2, <1>4, <1>5, OtherStays, Zenon
<1>6. ASSUME req'[c] # Idle
      PROVE  /\ Pended(req[c])' /\ req'[c].held = r.held /\ req'[c].op # "open"
             /\ DOMAIN req'[c].attr = {}
  <2>1. /\ r.op = "truncate" /\ req'[c] = Truncated(r.ino, r.size)
        /\ r.ino \in Inodes /\ r.size \in Nat /\ r.held = Held({r.ino}) /\ r.ino < Frontier
    BY <1>1, <1>3, <1>6, Zenon DEF Pended, Formed
  <2>2. PICK q : q = req'[c] /\ Empty(q, r.ino) /\ q.op = "truncated" /\ q.held = Held({r.ino})
    BY <2>1, EmptyFormed, Zenon
  <2>3. Sound(dentry', attr', q)
    BY <1>2, <2>2, EmptySound, WritesDatabase, Zenon DEF Empty
  <2>4. Frontier' = Frontier
    BY <1>2, Zenon DEF Writes, Frontier, Filled
  <2>5. Pended(q)'
    BY <2>1, <2>2, <2>3, <2>4, Zenon DEF Pended, Empty, Opens
  <2> QED BY <2>1, <2>2, <2>5, Zenon DEF Empty
<1>7. Requests'
  BY <1>5, <1>6, Zenon DEF Requests
<1>8. Apart'
  <2> SUFFICES ASSUME NEW d \in Calls, NEW e \in Calls, req'[d] # Idle, req'[e] # Idle, d # e
               PROVE  Distinct(req[d], req[e])'
    BY Zenon DEF Apart
  <2>1. CASE d = c
    BY <1>4, <1>6, <2>1, Zenon DEF Distinct, Makes, Stays
  <2>2. CASE e = c
    BY <1>4, <1>6, <2>2, Zenon DEF Distinct, Makes, Stays
  <2>3. CASE d # c /\ e # c
    <3>1. Distinct(req[d], req[e]) /\ Stays(r, req[d], req'[d]) /\ Stays(r, req[e], req'[e])
      BY <1>4, <2>3, Zenon DEF Inv, Apart
    <3>2. \A i \in Inodes : Makes(req[d], i)' => Makes(req[d], i)
      BY <1>5, <2>3, Zenon
    <3> QED BY <3>1, <3>2, Zenon DEF Distinct, Stays
  <2> QED BY <2>1, <2>2, <2>3, Zenon
<1>9. NewInodes'
  <2> SUFFICES ASSUME NEW d \in Calls, NEW i \in Inodes, req'[d] # Idle, Makes(req[d], i)'
               PROVE  i \notin chunks' /\ i \notin doomed' /\ i \notin deleting' /\ files'[i] = None
    BY Zenon DEF NewInodes
  <2>1. d # c
    BY <1>6, Zenon DEF Makes
  <2>2. Makes(req[d], i) /\ Distinct(req[d], r) /\ req[d] # Idle
    BY <1>4, <1>5, <2>1, Zenon
  <2>3. i \notin DOMAIN r.attr /\ (r.op = "open" => r.ino # i)
    BY <1>1, <2>2, Zenon DEF Distinct
  <2>4. i \notin chunks /\ i \notin doomed /\ i \notin deleting /\ files[i] = None
    BY <2>2, Zenon DEF Inv, NewInodes
  <2>5. files \in [Inodes -> OpenFile \cup {None}]
    BY Zenon DEF Inv, Typed
  <2> QED BY <1>2, <2>3, <2>4, <2>5, WritesDatabase, Zenon DEF Writes, Opened
<1>10. \A i \in Inodes :
         Makes(r, i) => i \notin chunks /\ i \notin doomed /\ i \notin deleting /\ files[i] = None
  BY <1>1, Zenon DEF Inv, NewInodes
<1>11. Typed'
  <2>1. files' \in [Inodes -> OpenFile \cup {None}]
    <3>1. r.size \in Nat /\ r.ino \in Inodes /\ files \in [Inodes -> OpenFile \cup {None}]
      BY <1>1, Zenon DEF Pended, Formed, Inv, Typed
    <3>2. \A f \in OpenFile : [ref |-> f.ref + 1, length |-> f.length] \in OpenFile
      BY DEF OpenFile
    <3>3. [ref |-> 1, length |-> r.size] \in OpenFile
      BY <3>1, Zenon DEF OpenFile
    <3>4. Opened(r.ino, r.size) =
            [files EXCEPT ![r.ino] = IF files[r.ino] = None THEN [ref |-> 1, length |-> r.size]
                                     ELSE [ref |-> files[r.ino].ref + 1, length |-> files[r.ino].length]]
      BY <3>1, Zenon DEF Opened
    <3>5. PICK f \in OpenFile : Opened(r.ino, r.size) = [files EXCEPT ![r.ino] = f]
      <4>1. CASE files[r.ino] = None
        BY <3>3, <3>4, <4>1, Zenon
      <4>2. CASE files[r.ino] # None
        BY <3>1, <3>2, <3>4, <4>2, Zenon
      <4> QED BY <4>1, <4>2, Zenon
    <3>6. Opened(r.ino, r.size) \in [Inodes -> OpenFile \cup {None}]
      BY <3>1, <3>5, Zenon
    <3> QED BY <1>2, <3>1, <3>6, Zenon DEF Writes
  <2>2. UNCHANGED <<counter, ids, bound>> /\ chunks' \subseteq Inodes /\ doomed' \subseteq Inodes
        /\ deleting' \subseteq Inodes
    BY <1>1, <1>2, Zenon DEF Writes, Pended, Formed, Inv, Typed
  <2> QED BY <1>2, <1>3, <2>1, <2>2, WritesDatabase, Zenon DEF Inv, Typed
<1> QED BY <1>1, <1>2, <1>7, <1>8, <1>9, <1>10, <1>11, WritesDatabase, WritesKeep, Zenon DEF Inv

-----------------------------------------------------------------------------
(* The theorems.                                                            *)

\* Every step keeps the invariant: one case for each action of Next.
LEMMA NextKeeps == Inv /\ [Next]_vars => Inv'
<1> SUFFICES ASSUME Inv, [Next]_vars PROVE Inv'
  BY Zenon
<1>1. ASSUME NEW c \in Calls, NEW p \in Inodes, NEW n \in Names, NEW i \in Inodes,
             \/ Mkdir(c, p, n, i) \/ Mknod(c, p, n, i) \/ Symlink(c, p, n, i) \/ Create(c, p, n, i)
      PROVE  Inv'
  BY <1>1, MakeKeeps, Zenon DEF Mkdir, Mknod, Symlink
<1>2. ASSUME NEW c \in Calls, NEW p \in Inodes, NEW n \in Names, NEW i \in Inodes, Link(c, i, p, n)
      PROVE  Inv'
  BY <1>2, LinkKeeps, Zenon
<1>3. ASSUME NEW c \in Calls, NEW p \in Inodes, NEW n \in Names, Rmdir(c, p, n)
      PROVE  Inv'
  BY <1>3, RmdirKeeps, Zenon
<1>4. ASSUME NEW c \in Calls, NEW p \in Inodes, NEW n \in Names, Unlink(c, p, n)
      PROVE  Inv'
  BY <1>4, UnlinkKeeps, Zenon
<1>5. ASSUME NEW c \in Calls, NEW p \in Inodes, NEW n \in Names, NEW q \in Inodes, NEW m \in Names,
             NEW flag \in {"zero", "noreplace", "exchange"}, Rename(c, p, n, q, m, flag)
      PROVE  Inv'
  BY <1>5, RenameKeeps, Zenon
<1>6. ASSUME NEW c \in Calls, NEW i \in Inodes, SetAttr(c, i)
      PROVE  Inv'
  BY <1>6, SetAttrKeeps, Zenon
<1>7. ASSUME NEW c \in Calls, NEW i \in Inodes, Open(c, i)
      PROVE  Inv'
  BY <1>7, OpenKeeps, Zenon
<1>8. ASSUME NEW c \in Calls, NEW i \in Inodes, NEW size \in 0 .. bound.len, Truncate(c, i, size)
      PROVE  Inv'
  BY <1>8, TruncateKeeps, Zenon
<1>9. ASSUME NEW c \in Calls, NEW i \in Inodes, NEW length \in 1 .. bound.len, Commit(c, i, length)
      PROVE  Inv'
  BY <1>9, CommitKeeps, Zenon
<1>10. ASSUME NEW c \in Calls, Apply(c)
       PROVE  Inv'
  BY <1>10, ApplyKeeps, Zenon
<1>11. ASSUME \/ \E c \in Calls : Conflict(c)
              \/ \E i \in Inodes : Close(i) \/ GetAttr(i) \/ DeleteChunks(i)
              \/ Crash
              \/ UNCHANGED vars
       PROVE  Inv'
  BY <1>11, QuietSteps, Zenon
<1> QED BY <1>1, <1>2, <1>3, <1>4, <1>5, <1>6, <1>7, <1>8, <1>9, <1>10, <1>11 DEF Next

\* The invariant says what the model's properties say: a directory has one
\* entry, and going up from it ends at the root, because the directories of a
\* set that is closed upwards and lacks the root would form a ring.
LEMMA InvTree == Inv => NamespaceIsTree
<1> SUFFICES ASSUME Inv PROVE NamespaceIsTree
  BY Zenon
<1>1. /\ dentry \in Dentries /\ attr \in Attrs /\ Rooted(dentry, attr) /\ Filed(dentry, attr)
      /\ Placed(dentry, attr) /\ NoRing(attr)
  BY Zenon DEF Inv, Typed, Namespace
<1>2. \A i \in Inodes : IsDir(i) = Dir(attr, i)
  BY Zenon DEF IsDir, Dir
<1>3. \A k \in Keys : dentry[k] # None => IsDir(k[1]) /\ attr[dentry[k]] # None
  BY <1>1, <1>2, Zenon DEF Filed, Keys
<1>4. ASSUME NEW i \in Inodes \ {Root}, Dir(attr, i)
      PROVE  /\ Cardinality(Entries(i)) = 1
             /\ \A k \in Entries(i) : k[1] = attr[i].parent
  <2>1. PICK k \in Keys : k[1] = attr[i].parent /\ Named(dentry, i) = {k}
    BY <1>1, <1>4, Zenon DEF Placed
  <2>2. Entries(i) = {k}
    BY <2>1, Zenon DEF Entries, Named
  <2> QED BY <2>1, <2>2, FS_Singleton, Zenon
<1>5. ASSUME NEW i \in Inodes, Dir(attr, i)
      PROVE  Above(Root, i)
  <2> SUFFICES ASSUME NEW set \in SUBSET Inodes, i \in set, Root \notin set,
                      \A k \in Keys : dentry[k] \in set => k[1] \in set
               PROVE  FALSE
    BY Zenon DEF Above
  <2> DEFINE dirs == {j \in set : Dir(attr, j)}
  <2>1. dirs \in SUBSET (Inodes \ {Root}) /\ dirs # {} /\ \A j \in dirs : Dir(attr, j)
    BY <1>5, Zenon
  <2>2. PICK j \in dirs : attr[j].parent \notin dirs
    BY <1>1, <2>1, Zenon DEF NoRing
  <2>3. PICK k \in Keys : k[1] = attr[j].parent /\ Named(dentry, j) = {k}
    BY <1>1, <2>1, Zenon DEF Placed
  <2>4. dentry[k] = j /\ j # None
    BY <2>1, <2>3, Values, Zenon DEF Named
  <2>5. Dir(attr, k[1])
    BY <1>1, <2>4, Zenon DEF Filed
  <2> QED BY <2>2, <2>3, <2>4, <2>5, Zenon
<1> QED BY <1>2, <1>3, <1>4, <1>5, Zenon DEF NamespaceIsTree

\* The invariant holds in every reachable state, whatever the number of
\* inodes, names and requests.
THEOREM MetadataInvariant == Spec => []Inv
  BY InitInv, NextKeeps, PTL DEF Spec

\* The link count of a file or symlink is always the number of its entries,
\* although nothing validates the attributes that the batches of link, unlink,
\* rename, set_attr and truncate write back.
THEOREM LinksExact == Spec => []LinkCountExact
<1>1. Inv => LinkCountExact
  BY Zenon DEF Inv, Namespace, LinksCounted, LinkCountExact, IsDir, Entries, Named
<1> QED BY <1>1, MetadataInvariant, PTL

\* The directories always form a tree below the root and every entry names an
\* inode, whatever mkdir, rmdir and rename run beside each other.
THEOREM DirectoriesAreTree == Spec => []NamespaceIsTree
  BY InvTree, MetadataInvariant, PTL

\* Chunks are only ever deleted of inodes that are gone for good, and the
\* slices of an inode that is gone are always marked for deletion.
THEOREM DeletionsExact == Spec => []DeletionExact
<1>1. Inv => DeletionExact
  BY Zenon DEF Inv
<1> QED BY <1>1, MetadataInvariant, PTL

\* A file that was open before the request that removes its last name looked
\* at it keeps its inode until it is closed.
THEOREM OpenFilesKept == Spec => []OpenFileKept
<1>1. Inv => OpenFileKept
  BY Zenon DEF Inv
<1> QED BY <1>1, MetadataInvariant, PTL
=============================================================================
