------------------------------ MODULE VfsNames ------------------------------
(***************************************************************************)
(* The names of one directory, from the kernel through a FUSE front end    *)
(* (fuser in fuse/src/lib.rs, fuse-backend-rs in fuse-backend/src/fs.rs)   *)
(* and the checks of KisekiVFS down to the stored entries; directory       *)
(* handles and the paging of readdir and readdirplus over them; and the    *)
(* counters behind statfs. The entries change in one step here: how the    *)
(* requests of the metadata engine interleave is the subject of Metadata.  *)
(*                                                                         *)
(* The kernel looks a name up before it sends a request about it, so what  *)
(* it was told about a name is part of the state (`cache`). A request that *)
(* is answered with an error changes nothing and is not an action.         *)
(***************************************************************************)
EXTENDS Integers, Sequences, FiniteSets, Functions, Ordered

CONSTANTS
    Text,           \* the names the kernel may send, and what to_string_lossy makes of each
    Utf8,           \* the names that to_str accepts
    Order,          \* the texts, in the order of their keys in the database
    NameLen,        \* the length of every text
    MaxNameLength,  \* MAX_NAME_LENGTH
    Internal,       \* the texts of the internal nodes
    Control,        \* CONTROL_INODE_NAME
    Dot,            \* "."
    Plans,          \* [names, root, ops, handles, plus]: what a behaviour is about
    Handles,        \* directory handles
    MaxInodes,      \* bound on the inodes that are made
    MaxRestarts,    \* bound on the remounts
    CounterValues,  \* 2^64: the values of an AtomicU64, which the statfs counters are
    BlockUnits,     \* BLOCK_SIZE, in units of the 4096 bytes an inode counts for
    Capacity        \* Format::max_capacity, in units

ASSUME VfsNamesConstants ==
    /\ Utf8 \subseteq DOMAIN Text
    /\ \A n, m \in Utf8 : Text[n] = Text[m] => n = m
    /\ Order \in Seq(Range(Order)) /\ IsInjective(Order)
    /\ Range(Text) \subseteq Range(Order) /\ DOMAIN NameLen = Range(Order)
    /\ Internal \subseteq Range(Order) /\ CounterValues \in Nat \ {0} /\ BlockUnits \in Nat \ {0}
    /\ Capacity \in Nat /\ MaxInodes \in Nat /\ \A p \in Plans : p.names \subseteq DOMAIN Text

VARIABLES
    plan, frontend,     \* chosen at the mount
    dentry, attr,       \* the stored entries, and the kind of every inode
    made, restarts,     \* inodes made and remounts so far
    cache,              \* what the kernel was told about each name
    children,           \* DirHandleInner::children of every directory handle
    ls,                 \* the process that lists the directory through it
    count, used,        \* fs_stat_file_count, fs_stat_used_size
    since               \* history: the inodes there at the mount, and how many of which sort
                        \* went since then: replaced by renames, regular files removed

names == <<dentry, attr, made, cache, count, used, since>>
namesVars == <<plan, frontend, dentry, attr, made, restarts, cache, children, ls, count, used, since>>

Texts == Range(Order)
Inodes == 1 .. MaxInodes
NoEntry == 0                \* no such entry, ENOENT
Special == -1               \* the inode of an internal node
Self == -2                  \* the directory itself
Unknown == -3               \* the kernel holds no entry for the name
OtherErrno == -4            \* an error other than ENOENT
Present(d) == {t \in Texts : d[t] # NoEntry}
Stored(a) == {i \in Inodes : a[i] # "none"}
Mounted(a) == [start |-> Cardinality(Stored(a)), replaced |-> 0, files |-> 0]

Closed == [pc |-> "closed", offset |-> 0, plus |-> FALSE, got |-> <<>>, list |-> <<>>,
           stable |-> {}, ever |-> {}]

NamesInit ==
    /\ plan \in Plans /\ frontend \in {"fuser", "backend"}
    /\ dentry = [t \in Texts |-> NoEntry] /\ attr = [i \in Inodes |-> "none"]
    /\ made = 0 /\ restarts = 0 /\ count = 0 /\ used = 0 /\ since = Mounted(attr)
    /\ cache = [n \in DOMAIN Text |-> Unknown]
    /\ children = [h \in Handles |-> <<>>] /\ ls = [h \in Handles |-> Closed]
-----------------------------------------------------------------------------
(* What a name becomes on its way down.                                     *)

\* fuse-backend converts every name strictly, fuser only the name of a lookup.
Strict(op) == frontend = "backend" \/ op = "lookup"
Accepts(op, n) == Strict(op) => n \in Utf8

\* MetaEngine::lookup.
LookupEntry(t) == IF t = Dot THEN Self ELSE dentry[t]

\* KisekiVFS::lookup: the internal nodes of the root, and the control node
\* everywhere, hide what is stored.
ResolveText(t) ==
    IF (plan.root \/ t = Control) /\ t \in Internal THEN Special ELSE LookupEntry(t)

\* Mutant: a lookup converts the name like the other requests of fuser do.
ResolveLossy(n) == ResolveText(Text[n])

\* The lookup handlers of the two front ends.
Resolve(n) ==
    IF ~Accepts("lookup", n) \/ (frontend = "fuser" /\ NameLen[Text[n]] > MaxNameLength)
    THEN OtherErrno ELSE ResolveText(Text[n])

\* validate_filename, and the table of internal nodes.
ValidateFilename(t) == t # Dot
InternalName(t) == plan.root /\ t \in Internal

\* The checks with which KisekiVFS::mknod, mkdir, create, symlink, link,
\* unlink, rmdir and rename begin.
MayMknod(t) == ~InternalName(t) /\ NameLen[t] <= MaxNameLength
MayMkdir(t) == ValidateFilename(t) /\ ~InternalName(t) /\ NameLen[t] <= MaxNameLength
MayCreate(t) == ValidateFilename(t) /\ ~InternalName(t) /\ NameLen[t] <= MaxNameLength
MaySymlink(t) == NameLen[t] < MaxNameLength
MayLink(t) == NameLen[t] < MaxNameLength
MayUnlink(t) == NameLen[t] < MaxNameLength
MayRmdir(t) == NameLen[t] < MaxNameLength /\ t # Dot
MayRename(t, u) == NameLen[t] < MaxNameLength /\ NameLen[u] < MaxNameLength
-----------------------------------------------------------------------------
(* Requests about names.                                                    *)

\* Listings in progress: the names that stay, and those that were ever there.
Witness(d) ==
    ls' = [h \in Handles |-> [ls[h] EXCEPT !.stable = @ \cap Present(d), !.ever = @ \cup Present(d)]]

\* AtomicU64 wraps.
Counter(v) == v % CounterValues

Lookup(n) ==
    /\ cache[n] = Unknown /\ Resolve(n) # OtherErrno
    /\ cache' = [cache EXCEPT ![n] = Resolve(n)]
    /\ UNCHANGED <<plan, frontend, dentry, attr, made, restarts, children, ls, count, used, since>>

\* The time to live of an entry is over, or the kernel needs the memory.
Forget(n) ==
    /\ "forget" \in plan.ops /\ cache[n] # Unknown /\ cache' = [cache EXCEPT ![n] = Unknown]
    /\ UNCHANGED <<plan, frontend, dentry, attr, made, restarts, children, ls, count, used, since>>

\* MetaEngine::mknod, which also makes directories, files that are opened
\* (create) and symlinks, and the reply that tells the kernel.
Make(op, n, kind) ==
    LET t == Text[n]
        i == made + 1
    IN /\ op \in plan.ops /\ cache[n] = NoEntry /\ i \in Inodes
       /\ Accepts(op, n) /\ dentry[t] = NoEntry
       /\ dentry' = [dentry EXCEPT ![t] = i] /\ attr' = [attr EXCEPT ![i] = kind]
       /\ made' = i /\ cache' = [cache EXCEPT ![n] = i]
       /\ count' = Counter(count + 1) /\ used' = Counter(used + 1)
       /\ Witness(dentry')
       /\ UNCHANGED <<plan, frontend, restarts, children, since>>

Mknod(n) == MayMknod(Text[n]) /\ Make("mknod", n, "file")
Mkdir(n) == MayMkdir(Text[n]) /\ Make("mkdir", n, "dir")
CreateFile(n) == MayCreate(Text[n]) /\ Make("create", n, "file")
Symlink(n) == MaySymlink(Text[n]) /\ Make("symlink", n, "symlink")

HardLink(i, n) ==
    LET t == Text[n]
    IN /\ "link" \in plan.ops /\ cache[n] = NoEntry /\ attr[i] \in {"file", "symlink"}
       /\ Accepts("link", n) /\ MayLink(t) /\ dentry[t] = NoEntry
       /\ dentry' = [dentry EXCEPT ![t] = i] /\ cache' = [cache EXCEPT ![n] = i]
       /\ Witness(dentry')
       /\ UNCHANGED <<plan, frontend, attr, made, restarts, children, count, used, since>>

\* The inode loses its attribute with its last name.
Kept(d, i) ==
    IF i = NoEntry \/ \E t \in Texts : d[t] = i THEN attr ELSE [attr EXCEPT ![i] = "none"]

\* Mutant: every name that is removed counts as an inode.
TakeCountsNames(op, n) ==
    LET t == Text[n]
        i == dentry[t]
        gone == attr' # attr
    IN /\ op \in plan.ops /\ i # NoEntry /\ cache[n] > 0 /\ (op = "rmdir") = (attr[i] = "dir")
       /\ Accepts(op, n)
       /\ dentry' = [dentry EXCEPT ![t] = NoEntry] /\ attr' = Kept(dentry', i)
       /\ count' = Counter(count - 1)
       /\ used' = Counter(IF attr[i] # "file" THEN used - 1 ELSE used)
       /\ since' = IF gone /\ attr[i] = "file" THEN [since EXCEPT !.files = @ + 1] ELSE since
       /\ cache' = [cache EXCEPT ![n] = NoEntry]
       /\ Witness(dentry')
       /\ UNCHANGED <<plan, frontend, made, restarts, children>>

\* MetaEngine::unlink frees the length of a file, here always empty, or the
\* unit of a symlink; rmdir the unit of a directory.
Take(op, n) ==
    LET t == Text[n]
        i == dentry[t]
        gone == attr' # attr
    IN /\ op \in plan.ops /\ i # NoEntry /\ cache[n] > 0 /\ (op = "rmdir") = (attr[i] = "dir")
       /\ Accepts(op, n)
       /\ dentry' = [dentry EXCEPT ![t] = NoEntry] /\ attr' = Kept(dentry', i)
       /\ count' = Counter(IF gone THEN count - 1 ELSE count)
       /\ used' = Counter(IF gone /\ attr[i] # "file" THEN used - 1 ELSE used)
       /\ since' = IF gone /\ attr[i] = "file" THEN [since EXCEPT !.files = @ + 1] ELSE since
       /\ cache' = [cache EXCEPT ![n] = NoEntry]
       /\ Witness(dentry')
       /\ UNCHANGED <<plan, frontend, made, restarts, children>>

Unlink(n) == MayUnlink(Text[n]) /\ Take("unlink", n)
Rmdir(n) == MayRmdir(Text[n]) /\ Take("rmdir", n)

\* The kernel has both names, and lets a directory replace only a directory.
\* Nothing adjusts the counters for an inode that is replaced.
Rename(n, m, exchange) ==
    LET t == Text[n]
        u == Text[m]
    IN /\ "rename" \in plan.ops /\ n # m
       /\ cache[n] > 0 /\ cache[m] \notin {Unknown, Self} /\ cache[m] # cache[n]
       /\ exchange => cache[m] # NoEntry
       /\ cache[m] \in Inodes => (attr[cache[m]] = "dir") = (attr[cache[n]] = "dir")
       /\ cache[m] = Special => attr[cache[n]] # "dir"
       /\ Accepts("rename", n) /\ Accepts("rename", m) /\ MayRename(t, u)
       /\ dentry[t] # NoEntry /\ (exchange => dentry[u] # NoEntry)
       /\ dentry' = [dentry EXCEPT ![u] = dentry[t], ![t] = IF exchange THEN dentry[u] ELSE NoEntry]
       /\ attr' = Kept(dentry', dentry[u])
       /\ since' = IF attr' # attr THEN [since EXCEPT !.replaced = @ + 1] ELSE since
       /\ cache' = [cache EXCEPT ![m] = cache[n], ![n] = IF exchange THEN cache[m] ELSE NoEntry]
       /\ Witness(dentry')
       /\ UNCHANGED <<plan, frontend, made, restarts, children, count, used>>
-----------------------------------------------------------------------------
(* Directory handles.                                                       *)

Move(h, r) == ls' = [ls EXCEPT ![h] = r]
Resting == {"idle", "done", "failed"}

OpenDir(h) ==
    /\ h \in plan.handles /\ ls[h].pc = "closed"
    /\ Move(h, [Closed EXCEPT !.pc = "idle"]) /\ children' = [children EXCEPT ![h] = <<>>]
    /\ UNCHANGED <<plan, frontend, names, restarts>>

\* Mutant: every call lists the directory again.
NeedsListingAlways(h, offset) == TRUE

\* The children are listed at offset 0 and while there are none.
NeedsListing(h, offset) == children[h] = <<>> \/ offset = 0

\* A call of readdir or readdirplus. A process starts, or starts over, at
\* offset 0; the kernel goes on with readdirplus only after it began with it.
ReadDir(h, plus) ==
    LET r == ls[h]
        again == r.pc # "idle"
        offset == IF again THEN 0 ELSE r.offset
        fresh == [r EXCEPT !.offset = 0, !.got = <<>>, !.plus = plus,
                           !.stable = Present(dentry), !.ever = Present(dentry)]
        next == IF NeedsListing(h, offset) THEN "list" ELSE "reply"
    IN /\ r.pc \in Resting
       /\ plus => plan.plus /\ (offset = 0 \/ r.plus)
       /\ Move(h, IF offset = 0 THEN [fresh EXCEPT !.pc = next]
                  ELSE [r EXCEPT !.pc = next, !.plus = plus])
       /\ UNCHANGED <<plan, frontend, names, restarts, children>>

\* list_dentry: the iterator reads a snapshot, in the order of the keys.
ListDentry ==
    LET here == Ascending({k \in DOMAIN Order : dentry[Order[k]] # NoEntry})
    IN [j \in DOMAIN here |-> Order[here[j]]]

ReadDirList(h) ==
    /\ ls[h].pc = "list"
    /\ LET list == ListDentry
           plain == [k \in DOMAIN list |-> [name |-> list[k], inode |-> dentry[list[k]], full |-> FALSE]]
       IN IF ls[h].plus
          THEN /\ Move(h, [ls[h] EXCEPT !.pc = "attr", !.list = plain])
               /\ UNCHANGED children
          ELSE /\ Move(h, [ls[h] EXCEPT !.pc = "reply"])
               /\ children' = [children EXCEPT ![h] = plain]
    /\ UNCHANGED <<plan, frontend, names, restarts>>

\* do_read_dir reads the attribute of every entry, and fails as a whole when
\* one is gone. The full entry gets the inode of the directory.
ReadDirAttr(h) ==
    LET list == ls[h].list
        kept == \A k \in DOMAIN list : attr[list[k].inode] # "none"
    IN /\ ls[h].pc = "attr"
       /\ Move(h, [ls[h] EXCEPT !.pc = IF kept THEN "reply" ELSE "failed", !.list = <<>>])
       /\ children' = IF ~kept THEN children
                      ELSE [children EXCEPT ![h] =
                              [k \in DOMAIN list |-> [list[k] EXCEPT !.inode = Self, !.full = TRUE]]]
       /\ UNCHANGED <<plan, frontend, names, restarts>>

\* The entries from the offset on, as many as the reply has room for, which
\* is at least one; readdirplus leaves out those without attributes.
Served(h) ==
    LET from == ls[h].offset + 1 .. Len(children[h])
        full == Ascending({k \in from : ls[h].plus => children[h][k].full})
    IN [j \in DOMAIN full |-> children[h][full[j]]]

ReadDirReply(h, room) ==
    LET r == ls[h]
        k == IF room < Len(Served(h)) THEN room ELSE Len(Served(h))
        part == SubSeq(Served(h), 1, k)
    IN /\ r.pc = "reply"
       /\ Move(h, IF k = 0 THEN [r EXCEPT !.pc = "done", !.offset = 0]
                  ELSE [r EXCEPT !.pc = "idle", !.offset = @ + k,
                                 !.got = @ \o [j \in 1 .. k |-> part[j].name]])
       /\ UNCHANGED <<plan, frontend, names, restarts, children>>

ReleaseDir(h) ==
    /\ ls[h].pc \in Resting /\ Move(h, Closed)
    /\ children' = [children EXCEPT ![h] = <<>>]
    /\ UNCHANGED <<plan, frontend, names, restarts>>

\* The volume is mounted again: the counters start at zero.
Remount ==
    /\ "remount" \in plan.ops /\ restarts < MaxRestarts /\ restarts' = restarts + 1
    /\ cache' = [n \in DOMAIN Text |-> Unknown]
    /\ children' = [h \in Handles |-> <<>>] /\ ls' = [h \in Handles |-> Closed]
    /\ count' = 0 /\ used' = 0 /\ since' = Mounted(attr)
    /\ frontend' \in {"fuser", "backend"}
    /\ UNCHANGED <<plan, dentry, attr, made>>

NamesNext ==
    \/ \E n \in plan.names :
        \/ Lookup(n) \/ Forget(n)
        \/ Mknod(n) \/ Mkdir(n) \/ CreateFile(n) \/ Symlink(n) \/ Unlink(n) \/ Rmdir(n)
        \/ \E i \in Inodes : HardLink(i, n)
        \/ \E m \in plan.names, exchange \in BOOLEAN : Rename(n, m, exchange)
    \/ \E h \in Handles :
        \/ OpenDir(h) \/ ReadDirList(h) \/ ReadDirAttr(h) \/ ReleaseDir(h)
        \/ \E plus \in BOOLEAN : ReadDir(h, plus)
        \/ \E room \in 1 .. Len(Order) : ReadDirReply(h, room)
    \/ Remount

NamesSpec == NamesInit /\ [][NamesNext]_namesVars
-----------------------------------------------------------------------------
(* statfs.                                                                  *)

Larger(a, b) == IF a > b THEN a ELSE b

\* max(total - used, 0) in fuser, saturating_sub in fuse-backend.
FreeBlocks(total, inUse) == Larger(total - inUse, 0)

\* MetaEngine::stat_fs, and the handlers that answer statfs with it.
FSStat == [total_size |-> Capacity, used_size |-> used, file_count |-> count]

StatFs ==
    LET blocks == Larger(FSStat.total_size \div BlockUnits, 1)
    IN [blocks |-> blocks, bfree |-> FreeBlocks(blocks, FSStat.used_size \div BlockUnits),
        files |-> CounterValues - 1, ffree |-> CounterValues - 1 - FSStat.file_count]
-----------------------------------------------------------------------------
NamesTypeOK ==
    /\ dentry \in [Texts -> Inodes \cup {NoEntry}]
    /\ attr \in [Inodes -> {"none", "file", "dir", "symlink"}]
    /\ cache \in [DOMAIN Text -> Inodes \cup {NoEntry, Special, Self, Unknown}]
    /\ count \in 0 .. CounterValues - 1 /\ used \in 0 .. CounterValues - 1

\* A listing that reaches its end, however small the pages and whatever was
\* created, removed or renamed between two of them, gave every name that was
\* there all along exactly once, no name twice, and none that was never there.
ListingExact ==
    \A h \in Handles : ls[h].pc = "done" =>
        /\ ls[h].stable \subseteq Range(ls[h].got) /\ Range(ls[h].got) \subseteq ls[h].ever
        /\ IsInjective(ls[h].got)

\* What the kernel was told about a name, by a lookup or by the reply to the
\* request that made, moved or removed it, is what a lookup of the name finds:
\* no two names of the kernel end up at one entry.
KernelViewHolds == \A n \in DOMAIN Text : cache[n] # Unknown => Resolve(n) = cache[n]

\* What statfs answers after any requests and remounts is what the volume
\* holds, counted from the mount on, wrapped below zero when more of what was
\* there at the mount has gone than was made since, plus two things the engine
\* never takes off again: the inodes that renames replaced, and the unit of each
\* regular file that was removed. Further links and exchanges change nothing.
StatfsFigures ==
    LET grown == Cardinality(Stored(attr)) - since.start + since.replaced
    IN /\ StatFs.files - StatFs.ffree = Counter(grown)
       /\ StatFs.bfree =
            FreeBlocks(StatFs.blocks, Counter(grown + since.files) \div BlockUnits)

\* statfs counts the inodes of the volume.
StatfsCountsVolume == StatFs.files - StatFs.ffree = Cardinality(Stored(attr))

\* An entry that is stored can be removed again: KisekiVFS accepts its name.
StoredIsRemovable == \A t \in Present(dentry) : MayUnlink(t)

\* Internal nodes do not exist in the metadata store.
InternalNotStored == plan.root => Internal \cap Present(dentry) = {}

\* readdirplus gives every entry the inode that the entry names.
PlusNamesInode ==
    \A h \in Handles : \A k \in DOMAIN children[h] : children[h][k].inode # Self
=============================================================================
