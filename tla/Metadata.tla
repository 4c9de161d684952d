------------------------------ MODULE Metadata ------------------------------
(***************************************************************************)
(* The metadata engine over RocksDB: directory entries and inodes, the     *)
(* table of open files and the deletion of unlinked ones. An operation of  *)
(* the backend reads through a transaction, collects its writes in a batch *)
(* and writes the batch in one step past the transaction, so nothing it    *)
(* read is validated; only commit_slice is. What keeps the operations      *)
(* apart is the locking of the kernel above FUSE (Held).                   *)
(*                                                                         *)
(* Of an attribute the model keeps the kind, the links and the length of a *)
(* file and the parent of a directory. The link count of a directory and   *)
(* the counts per parent are written and never read by the code. A call    *)
(* that is refused changes nothing and is no step. The attribute cache is  *)
(* off (open_cache is zero), the cached attribute itself is still used by  *)
(* truncate.                                                               *)
(***************************************************************************)
EXTENDS Integers, FiniteSets

CONSTANTS
    MaxIno,     \* inode numbers are 1 .. MaxIno
    Step,       \* how many of them IdTable takes at a time
    Names,      \* names of directory entries
    Calls,      \* concurrent requests, of the kernel or of the flusher
    Bounds,     \* of the exploration, chosen together: the last inode, whether
                \* there are symlinks, the longest file, the handles of an inode
    None, Idle

VARIABLES
    dentry, attr,       \* database: entries (parent, name) and inodes
    chunks,             \* database: inodes with slice records
    doomed, sustained,  \* database: delete_chunk_after, sustained
    counter, ids,       \* database: NextInode; IdTable.next_max_pair
    files,              \* OpenFiles: reference_count and the length in attr
    removed, deleting,  \* removed_files; spawned do_delete_chunks
    req,                \* what each request is about to write
    late,               \* inodes opened while they were being deleted
    bound               \* the member of Bounds this behaviour keeps to

database == <<dentry, attr, chunks, doomed, sustained>>
table == <<counter, ids>>
memory == <<files, removed, deleting>>
vars == <<database, table, memory, req, late, bound>>

Root == 1
Inodes == 1 .. MaxIno
Keys == Inodes \X Names

Attributes ==
    [kind : {"dir", "file", "symlink"}, nlink : Nat, length : Nat, parent : Nat]
OpenFile == [ref : Nat, length : Nat]

ASSUME MetadataConstants ==
    /\ MaxIno \in Nat \ {0} /\ Step \in Nat \ {0} /\ IsFiniteSet(Names)
    /\ \A b \in Bounds : b.len \in Nat
    /\ None \notin Nat \cup Attributes \cup OpenFile

IsDir(i) == attr[i] # None /\ attr[i].kind = "dir"
IsFile(i) == attr[i] # None /\ attr[i].kind = "file"
Entries(i) == {k \in Keys : dentry[k] = i}
HasName(i) == Entries(i) # {}

\* mknod: the attribute of a new inode.
NewAttr(k, parent) ==
    [kind |-> k, nlink |-> 1, length |-> 0, parent |-> IF k = "dir" THEN parent ELSE 0]

Init ==
    /\ dentry = [k \in Keys |-> None]
    /\ attr = [i \in Inodes |-> IF i = Root THEN NewAttr("dir", Root) ELSE None]
    /\ chunks = {} /\ doomed = {} /\ sustained = {}
    /\ counter = 2 /\ ids = [next |-> 0, max |-> 0]
    /\ files = [i \in Inodes |-> None] /\ removed = {} /\ deleting = {}
    /\ req = [c \in Calls |-> Idle]
    /\ late = {} /\ bound \in Bounds
-----------------------------------------------------------------------------
(* Requests. `ino` is the inode they are about, `held` the locks they run   *)
(* under, `dentry`, `attr`, `slices`, `doom`, `sustain` their write batch,  *)
(* `stale` that a key their transaction tracks was written since.           *)

\* A batch is a function of the keys it writes; a later write goes before.
Nothing == <<>>
Put(key, value) == [k \in {key} |-> value]
b ++ f == [k \in DOMAIN b \cup DOMAIN f |-> IF k \in DOMAIN b THEN b[k] ELSE f[k]]

Request(op, i, held) ==
    [op |-> op, ino |-> i, held |-> held, dentry |-> Nothing, attr |-> Nothing,
     slices |-> {}, doom |-> {}, sustain |-> {}, size |-> 0, stale |-> FALSE]

\* The locks Linux holds over a request: the directories whose entries change,
\* the inode that is linked, unlinked, replaced or whose attributes are set,
\* and a directory that gets another parent.
Held(inodes) == {<<"inode", i>> : i \in inodes}
Free(locks) == \A d \in Calls : req[d] # Idle => req[d].held \cap locks = {}

Start(c, r) ==
    /\ req[c] = Idle /\ Free(r.held)
    /\ req' = [req EXCEPT ![c] = r]

\* The parent is written back with a new mtime. skip_dir_mtime is taken as
\* zero, so that this is never left out.
Touch(p) == Put(p, attr[p])
-----------------------------------------------------------------------------
(* IdTable::next takes a range of inode numbers when its own is used up.    *)

\* Mutant: a range is taken without moving the counter.
FilledInPlace ==
    IF ids.next >= ids.max THEN [next |-> counter, max |-> counter + Step, counter |-> counter]
                           ELSE [next |-> ids.next, max |-> ids.max, counter |-> counter]

Filled ==
    IF ids.next >= ids.max
    THEN [next |-> counter, max |-> counter + Step, counter |-> counter + Step]
    ELSE [next |-> ids.next, max |-> ids.max, counter |-> counter]

NextInode(i) ==
    /\ i = Filled.next /\ i <= bound.ino
    /\ counter' = Filled.counter
    /\ ids' = [next |-> i + 1, max |-> Filled.max]

DoMknod(c, p, n, k, i) ==
    /\ IsDir(p) /\ dentry[<<p, n>>] = None
    /\ NextInode(i)
    /\ Start(c, [Request("write", i, Held({p})) EXCEPT
                    !.dentry = Put(<<p, n>>, i),
                    !.attr = IF k = "dir" THEN Put(i, NewAttr(k, p)) ++ Touch(p)
                                          ELSE Put(i, NewAttr(k, p))])
    /\ UNCHANGED <<database, memory, late, bound>>

Mkdir(c, p, n, i) == DoMknod(c, p, n, "dir", i)
Mknod(c, p, n, i) == DoMknod(c, p, n, "file", i)
Symlink(c, p, n, i) == bound.symlinks /\ DoMknod(c, p, n, "symlink", i)

\* Bound: handles of an inode, with those on their way.
Handles(i) ==
    (IF files[i] = None THEN 0 ELSE files[i].ref)
        + Cardinality({c \in Calls : req[c] # Idle /\ req[c].op = "open" /\ req[c].ino = i})

\* create opens the inode it made.
Create(c, p, n, i) ==
    /\ IsDir(p) /\ dentry[<<p, n>>] = None /\ Handles(i) < bound.open
    /\ NextInode(i)
    /\ Start(c, [Request("open", i, Held({p})) EXCEPT
                    !.dentry = Put(<<p, n>>, i), !.attr = Put(i, NewAttr("file", p))])
    /\ UNCHANGED <<database, memory, late, bound>>

\* Mutant: rmdir does not look for entries in the directory.
RmdirFull(c, p, n) ==
    LET i == dentry[<<p, n>>]
    IN /\ i # None /\ IsDir(p)
       /\ IsDir(i)
       /\ Start(c, [Request("write", i, Held({p, i})) EXCEPT
                        !.dentry = Put(<<p, n>>, None), !.attr = Put(i, None) ++ Touch(p)])
       /\ UNCHANGED <<database, table, memory, late, bound>>

Rmdir(c, p, n) ==
    LET i == dentry[<<p, n>>]
    IN /\ i # None /\ IsDir(p)
       /\ IsDir(i) /\ \A m \in Names : dentry[<<i, m>>] = None
       /\ Start(c, [Request("write", i, Held({p, i})) EXCEPT
                        !.dentry = Put(<<p, n>>, None), !.attr = Put(i, None) ++ Touch(p)])
       /\ UNCHANGED <<database, table, memory, late, bound>>

\* The kernel links only inodes that still have a name. The engine's check
\* refreshes the cached attribute.
Refreshed(i, length) ==
    IF files[i] = None THEN files ELSE [files EXCEPT ![i].length = length]

Link(c, i, p, n) ==
    /\ HasName(i) /\ ~IsDir(i) /\ IsDir(p) /\ dentry[<<p, n>>] = None
    /\ Start(c, [Request("write", i, Held({p, i})) EXCEPT
                    !.dentry = Put(<<p, n>>, i),
                    !.attr = Put(i, [attr[i] EXCEPT !.nlink = @ + 1]) ++ Touch(p)])
    /\ files' = Refreshed(i, attr[i].length)
    /\ UNCHANGED <<database, table, removed, deleting, late, bound>>
-----------------------------------------------------------------------------
(* Removing a name: by unlink, or because rename replaces it.               *)

IsOpened(i) == files[i] # None /\ files[i].ref > 0

\* Mutant: an open file is deleted with its last name.
DropLinkOpened(r, i) ==
    LET nlink == attr[i].nlink - 1
    IN IF nlink > 0 THEN [r EXCEPT !.attr = Put(i, [attr[i] EXCEPT !.nlink = nlink]) ++ @]
       ELSE [r EXCEPT !.attr = Put(i, None) ++ @,
                      !.doom = IF IsFile(i) THEN {i} ELSE {}]

\* An open file stays as a sustained inode without links; the chunks of a
\* closed one are left to a task.
DropLink(r, i) ==
    LET nlink == attr[i].nlink - 1
        left == Put(i, [attr[i] EXCEPT !.nlink = nlink])
    IN IF nlink > 0 THEN [r EXCEPT !.attr = left ++ @]
       ELSE IF IsFile(i) /\ IsOpened(i)
       THEN [r EXCEPT !.attr = left ++ @, !.sustain = {i}]
       ELSE [r EXCEPT !.attr = Put(i, None) ++ @,
                      !.doom = IF IsFile(i) THEN {i} ELSE {}]

Unlink(c, p, n) ==
    LET i == dentry[<<p, n>>]
    IN /\ i # None /\ ~IsDir(i) /\ IsDir(p)
       /\ Start(c, DropLink([Request("write", i, Held({p, i})) EXCEPT
                                    !.dentry = Put(<<p, n>>, None), !.attr = Touch(p)], i))
       /\ UNCHANGED <<database, table, memory, late, bound>>

\* Whether d is i or contains it, by the entries as the kernel sees them: d is
\* in every set that has i and, of what it has, the directories it lies in.
Above(d, i) ==
    \A set \in SUBSET Inodes :
        i \in set /\ (\A k \in Keys : dentry[k] \in set => k[1] \in set) => d \in set

Moved(i, p) == IF IsDir(i) THEN [attr[i] EXCEPT !.parent = p] ELSE attr[i]

\* What the kernel lets through: no directory into itself or over one above
\* it, nothing over itself, and directories only over directories.
RenameAllowed(s, t, p, q, flag) ==
    /\ s # t /\ ~Above(s, q)
    /\ t # None => ~Above(t, p) /\ (flag = "exchange" \/ IsDir(s) = IsDir(t))

RenameLocks(s, t, p, q, flag) ==
    Held({p, q} \cup {i \in {s} : ~IsDir(s) \/ p # q}
                \cup {i \in {t} \ {None} : ~IsDir(t) \/ p # q \/ flag # "exchange"})
        \cup (IF p # q THEN {<<"rename", Root>>} ELSE {})

\* The entry that rename replaces.
Replaced(r, t) ==
    IF t = None THEN r
    ELSE IF IsDir(t) THEN [r EXCEPT !.attr = Put(t, None) ++ @]
    ELSE DropLink(r, t)

\* The batch: the entries, the moved inode, the parents, and the inode that was
\* at the new name, exchanged or replaced.
RenameBatch(p, n, q, m, flag) ==
    LET s == dentry[<<p, n>>]
        t == dentry[<<q, m>>]
        r == [Request("write", s, RenameLocks(s, t, p, q, flag)) EXCEPT
                !.dentry = Put(<<q, m>>, s)
                                ++ Put(<<p, n>>, IF flag = "exchange" THEN t ELSE None),
                !.attr = Put(s, Moved(s, q)) ++ Touch(q) ++ Touch(p)]
    IN IF flag = "exchange" THEN [r EXCEPT !.attr = Put(t, Moved(t, p)) ++ @] ELSE Replaced(r, t)

Rename(c, p, n, q, m, flag) ==
    LET s == dentry[<<p, n>>]
        t == dentry[<<q, m>>]
    IN /\ s # None /\ <<p, n>> # <<q, m>> /\ IsDir(p) /\ IsDir(q)
       /\ s # q /\ s # attr[q].parent
       /\ IF t = None THEN flag # "exchange" ELSE flag # "noreplace"
       /\ t # None /\ IsDir(t) /\ flag # "exchange" => \A k \in Names : dentry[<<t, k>>] = None
       /\ RenameAllowed(s, t, p, q, flag)
       /\ Start(c, RenameBatch(p, n, q, m, flag))
       /\ UNCHANGED <<database, table, memory, late, bound>>
-----------------------------------------------------------------------------
(* Attributes and lengths.                                                  *)

Pending(op, i) == \E d \in Calls : req[d] # Idle /\ req[d].op = op /\ req[d].ino = i

\* set_attr reads the attribute and writes all of it back. It also follows
\* the truncation of the same request.
SetAttr(c, i) ==
    LET r == [Request("write", i, Held({i})) EXCEPT !.attr = Put(i, attr[i])]
    IN /\ attr[i] # None
       /\ \/ Start(c, r)
          \/ /\ req[c] # Idle /\ req[c].op = "truncated" /\ req[c].ino = i
             /\ req' = [req EXCEPT ![c] = r]
       /\ UNCHANGED <<database, table, memory, late, bound>>

Truncated(i, size) == [Request("truncated", i, Held({i})) EXCEPT !.size = size]

\* do_truncate; growth is recorded as a hole. Its transaction commits what it
\* put and does not validate the attribute it read. Truncation to the length
\* the database has is an assertion failure and writes nothing.
DoTruncate(i, size) ==
    [Request("truncate", i, Held({i})) EXCEPT
        !.attr = Put(i, [attr[i] EXCEPT !.length = size]),
        !.slices = IF size > attr[i].length THEN {i} ELSE {},
        !.size = size]

\* Every handle of the file is locked and flushed. The engine compares the
\* size with the cached attribute first.
Truncate(c, i, size) ==
    LET cached == files[i] # None /\ files[i].length = size
    IN /\ IsFile(i) /\ (HasName(i) \/ IsOpened(i)) /\ ~Pending("commit", i)
       /\ \/ cached /\ Start(c, Truncated(i, size))
          \/ ~cached /\ size # attr[i].length /\ Start(c, DoTruncate(i, size))
       /\ UNCHANGED <<database, table, memory, late, bound>>

\* write_slice: the slice record and the attribute in a validated transaction.
Commit(c, i, length) ==
    /\ IsFile(i) /\ IsOpened(i) /\ ~Pending("truncate", i)
    /\ Start(c, [Request("commit", i, {}) EXCEPT
                    !.attr = Put(i, [attr[i] EXCEPT !.length = IF length > @ THEN length ELSE @]),
                    !.slices = {i}, !.size = length])
    /\ UNCHANGED <<database, table, memory, late, bound>>

\* get_attr brings the cached attribute up to date. One step is enough: a
\* cached length that is behind the database is also what Commit leaves.
GetAttr(i) ==
    /\ attr[i] # None /\ files[i] # None /\ files[i].length # attr[i].length
    /\ files' = Refreshed(i, attr[i].length)
    /\ UNCHANGED <<database, table, removed, deleting, req, late, bound>>
-----------------------------------------------------------------------------
(* Open files.                                                              *)

\* OpenFiles::open keeps the attribute an entry has.
Opened(i, length) ==
    [files EXCEPT ![i] = IF @ = None THEN [ref |-> 1, length |-> length]
                                     ELSE [ref |-> @.ref + 1, length |-> @.length]]

\* open_inode, and create when the name is taken, read the attribute and count
\* the file as open in a later step.
Open(c, i) ==
    /\ IsFile(i) /\ (HasName(i) \/ IsOpened(i)) /\ Handles(i) < bound.open
    /\ Start(c, [Request("open", i, {}) EXCEPT !.size = attr[i].length])
    /\ UNCHANGED <<database, table, memory, late, bound>>

Closed(i) == [files EXCEPT ![i].ref = @ - 1]

\* release has flushed the handle. The data of a removed file is kept: its
\* deletion is not written yet in the code.
Close(i) ==
    /\ IsOpened(i)
    /\ files[i].ref = 1 => ~Pending("commit", i)
    /\ files' = Closed(i)
    /\ removed' = IF files[i].ref = 1 THEN removed \ {i} ELSE removed
    /\ late' = IF files[i].ref = 1 THEN late \ {i} ELSE late
    /\ UNCHANGED <<database, table, deleting, req, bound>>
-----------------------------------------------------------------------------
(* The write of a request, and what the engine does after it.               *)

\* Mutant: commit_slice writes whatever happened to the attribute.
AdmittedAlways(r) == r.op \in {"write", "open", "truncate", "commit"}

Admitted(r) == r.op \in {"write", "open", "truncate", "commit"} /\ ~r.stale

\* A file whose last name went is deleted, at once or when it is closed.
Apply(c) ==
    LET r == req[c]
    IN /\ r # Idle /\ Admitted(r)
       /\ dentry' = r.dentry ++ dentry
       /\ attr' = r.attr ++ attr
       /\ chunks' = chunks \cup r.slices
       /\ doomed' = doomed \cup r.doom /\ deleting' = deleting \cup r.doom
       /\ sustained' = sustained \cup r.sustain /\ removed' = removed \cup r.sustain
       /\ files' = IF r.op = "open" THEN Opened(r.ino, r.size) ELSE files
       /\ req' = [d \in Calls |->
                    IF d = c THEN IF r.op = "truncate" THEN Truncated(r.ino, r.size) ELSE Idle
                    ELSE IF req[d] # Idle /\ req[d].op = "commit" /\ req[d].ino \in DOMAIN r.attr
                         THEN [req[d] EXCEPT !.stale = TRUE] ELSE req[d]]
       /\ late' = IF r.op = "open" /\ \/ attr'[r.ino] = None
                                      \/ \E d \in Calls : req[d] # Idle /\ r.ino \in req[d].doom
                  THEN late \cup {r.ino} ELSE late
       /\ UNCHANGED <<table, bound>>

\* The commit of a stale transaction fails.
Conflict(c) ==
    /\ req[c] # Idle /\ req[c].stale
    /\ req' = [req EXCEPT ![c] = Idle]
    /\ UNCHANGED <<database, table, memory, late, bound>>

DeleteChunks(i) ==
    /\ i \in deleting
    /\ chunks' = chunks \ {i} /\ doomed' = doomed \ {i} /\ deleting' = deleting \ {i}
    /\ UNCHANGED <<dentry, attr, sustained, table, files, removed, req, late, bound>>

\* A restart finds the database. Nothing reads delete_chunk_after or sustained.
Crash ==
    /\ ids' = [next |-> 0, max |-> 0]
    /\ files' = [i \in Inodes |-> None] /\ removed' = {} /\ deleting' = {}
    /\ req' = [c \in Calls |-> Idle] /\ late' = {}
    /\ UNCHANGED <<database, counter, bound>>

Next ==
    \/ \E c \in {d \in Calls : req[d] = Idle}, p \in {i \in Inodes : IsDir(i)}, n \in Names :
        \/ \E i \in Inodes :
            \/ Mkdir(c, p, n, i) \/ Mknod(c, p, n, i) \/ Symlink(c, p, n, i)
            \/ Create(c, p, n, i) \/ Link(c, i, p, n)
        \/ Rmdir(c, p, n)
        \/ Unlink(c, p, n)
        \/ \E q \in {i \in Inodes : IsDir(i)}, m \in Names, flag \in {"zero", "noreplace", "exchange"} :
            Rename(c, p, n, q, m, flag)
    \/ \E c \in Calls, i \in Inodes :
        \/ SetAttr(c, i) \/ Open(c, i)
        \/ \E size \in 0 .. bound.len : Truncate(c, i, size)
        \/ \E length \in 1 .. bound.len : Commit(c, i, length)
    \/ \E c \in Calls : Apply(c) \/ Conflict(c)
    \/ \E i \in Inodes : Close(i) \/ GetAttr(i) \/ DeleteChunks(i)
    \/ Crash

Spec == Init /\ [][Next]_vars
-----------------------------------------------------------------------------
\* Every inode has an attribute of its kind or none, the counters are in
\* range, and a length is one that was written.
TypeOK ==
    /\ dentry \in [Keys -> Inodes \cup {None}]
    /\ \A i \in Inodes :
        /\ attr[i] # None => /\ attr[i].kind \in {"dir", "file", "symlink"}
                             /\ attr[i].length \in 0 .. bound.len
                             /\ attr[i].nlink \in 0 .. Cardinality(Keys)
        /\ files[i] # None => files[i].ref \in 0 .. bound.open /\ files[i].length \in 0 .. bound.len
    /\ (chunks \cup doomed \cup sustained \cup removed \cup deleting \cup late) \subseteq Inodes
    /\ counter \in Nat /\ ids.next <= ids.max

\* The link count of a file or symlink is the number of entries that name it,
\* although link, unlink, rename, set_attr, truncate and commit_slice all read
\* the attribute and write all of it back in a later step.
LinkCountExact ==
    \A i \in Inodes : attr[i] # None /\ ~IsDir(i) => attr[i].nlink = Cardinality(Entries(i))

\* Entries name inodes that exist and lie in directories that exist; every
\* directory but the root has one entry, in the directory its attribute calls
\* its parent, and lies below the root. Otherwise rmdir has dropped entries
\* or rename has tied directories into a ring.
NamespaceIsTree ==
    /\ \A k \in Keys : dentry[k] # None => IsDir(k[1]) /\ attr[dentry[k]] # None
    /\ \A i \in Inodes \ {Root} : IsDir(i) =>
        /\ Cardinality(Entries(i)) = 1
        /\ \A k \in Entries(i) : k[1] = attr[i].parent
        /\ Above(Root, i)

\* do_delete_chunks is only ever due for inodes that are gone and can never
\* come back under the same number, and slices without an inode are always
\* marked by delete_chunk_after.
DeletionExact ==
    \A i \in Inodes :
        /\ i \in doomed \cup deleting => attr[i] = None /\ ~HasName(i)
        /\ i \in chunks /\ attr[i] = None => i \in doomed

\* A file that was open before the request that removes its last name looked
\* at it keeps its inode until it is closed.
OpenFileKept == \A i \in Inodes : IsOpened(i) /\ i \notin late => attr[i] # None /\ i \notin doomed

\* "[`Self::truncate`] changes the length of the given file" (engine.rs): once
\* truncate has returned, before set_attr goes on, the file has the length
\* asked for. Stated for one request at a time.
TruncateTruncates ==
    \A c \in Calls : req[c] # Idle /\ req[c].op = "truncated"
                        => attr[req[c].ino].length = req[c].size
=============================================================================
