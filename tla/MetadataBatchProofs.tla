------------------------ MODULE MetadataBatchProofs ------------------------
(***************************************************************************)
(* What Metadata's operations put in their batches, for any number of      *)
(* inodes, names and concurrent requests: whatever a request collects in a *)
(* state of the database is sound in that state.                           *)
(***************************************************************************)
EXTENDS MetadataTreeProofs

\* The database in a state of the engine.
Database == dentry \in Dentries /\ attr \in Attrs /\ Namespace(dentry, attr)

\* An entry <<p, n>> and what the guard IsDir says of it.
LEMMA EntryKey ==
    ASSUME Database, NEW p \in Inodes, NEW n \in Names
    PROVE  /\ <<p, n>> \in Keys /\ <<p, n>>[1] = p
           /\ DOMAIN dentry = Keys /\ DOMAIN attr = Inodes
           /\ \A i \in Inodes : IsDir(i) = Dir(attr, i)
           /\ \A k \in Keys : dentry[k] # None => dentry[k] \in Inodes /\ attr[dentry[k]] # None
  BY Zenon DEF Database, Keys, Dentries, Attrs, IsDir, Dir, Namespace, Filed

\* A batch with one entry <<p, n>>, which names i before or after it, the
\* attribute a of i, and p written back unless it is left out.
LEMMA OneEntry ==
    ASSUME Database, NEW p \in Inodes, NEW n \in Names, NEW i \in Inodes, NEW v \in {None, i},
           NEW a \in Attributes \cup {None}, NEW r,
           IsDir(p), i # p, dentry[<<p, n>>] \in {None, i},
           r.dentry = Put(<<p, n>>, v),
           r.attr = Put(i, a) \/ r.attr = Put(i, a) ++ Touch(p),
           Lock(p) \in r.held,
           attr[i] # None => /\ Lock(i) \in r.held
                             /\ IsDir(i) => dentry[<<p, n>>] = i
                             /\ a # None => a.kind = attr[i].kind /\ a.parent = attr[i].parent,
           a = None => attr[i] # None /\ (IsFile(i) => i \in r.doom),
           \A j \in r.doom : j = i /\ a = None, r.slices = {},
           Namespace([dentry EXCEPT ![<<p, n>>] = v], [attr EXCEPT ![i] = a])
    PROVE  Sound(dentry, attr, r)
<1>1. i # None /\ Dir(attr, p) /\ attr[p] # None /\ Dir(attr, i) = IsDir(i)
  BY Values, EntryKey, Zenon DEF Dir
<1>2. r.dentry ++ dentry = [dentry EXCEPT ![<<p, n>>] = v]
  BY EntryKey, Written
<1>3. /\ DOMAIN r.attr \subseteq {i, p} /\ i \in DOMAIN r.attr /\ r.attr[i] = a
      /\ p \in DOMAIN r.attr => r.attr[p] = attr[p]
  <2>1. CASE r.attr = Put(i, a)
    BY <1>1, <2>1, Zenon DEF Put
  <2>2. CASE r.attr = Put(i, a) ++ Put(p, attr[p])
    BY <1>1, <2>2, Zenon DEF Put, ++
  <2> QED BY <2>1, <2>2, Zenon DEF Touch
<1>4. r.attr ++ attr = [attr EXCEPT ![i] = a]
  <2>1. DOMAIN r.attr \subseteq DOMAIN attr
    BY <1>3, EntryKey, Zenon
  <2>2. \A j \in Inodes : (r.attr ++ attr)[j] = IF j = i THEN a ELSE attr[j]
    BY <1>3, <2>1, EntryKey, Written
  <2> QED BY <1>3, <2>1, <2>2, EntryKey DEF ++
<1>5. DOMAIN r.dentry = {<<p, n>>} /\ r.dentry[<<p, n>>] = v
  BY Zenon DEF Put
<1>6. EntriesLocked(dentry, attr, r)
  BY <1>1, <1>3, <1>5, EntryKey, Values DEF EntriesLocked
<1>7. InodesLocked(dentry, attr, r)
  <2>1. ~Renames(dentry, r, p) /\ (dentry[<<p, n>>] = i => HoldsEntry(dentry, r, i))
    BY <1>5, Values, Zenon DEF Renames, HoldsEntry
  <2>2. p \in DOMAIN r.attr => ~Alters(attr, r, p)
    BY <1>1, <1>3, Zenon DEF Alters, Same
  <2> QED BY <1>1, <1>3, <2>1, <2>2, Zenon DEF InodesLocked
<1>8. Deletes(attr, r)
  BY <1>1, <1>3, Zenon DEF Deletes, IsFile
<1> QED BY <1>2, <1>4, <1>6, <1>7, <1>8, Zenon DEF Sound

\* A request that may be started: well formed, sound, and about to delete
\* nothing that is open.
Admissible(r) ==
    /\ Formed(r) /\ ~r.stale /\ Opens(attr, r) /\ Sound(dentry, attr, r)
    /\ \A i \in r.doom : ~IsOpened(i)
Existing(r) == attr[r.ino] # None /\ \A i \in DOMAIN r.attr : attr[i] # None

Making(op, p, n, i, batch) ==
    [Request(op, i, Held({p})) EXCEPT !.dentry = Put(<<p, n>>, i), !.attr = batch]

\* mknod, mkdir, symlink and create, with an inode number that is new.
LEMMA MakeAdmissible ==
    ASSUME Database, NEW p \in Inodes, NEW n \in Names, NEW i \in Inodes, NEW r,
           NEW k, NEW op, NEW batch, k \in {"dir", "file", "symlink"}, op \in {"write", "open"},
           batch \in {Put(i, NewAttr(k, p)), Put(i, NewAttr(k, p)) ++ Touch(p)},
           IsDir(p), dentry[<<p, n>>] = None, attr[i] = None, op = "open" => k = "file",
           r = Making(op, p, n, i, batch)
    PROVE  Admissible(r) /\ \A j \in DOMAIN r.attr : attr[j] = None => j = i
<1> DEFINE a == NewAttr(k, p)
<1>1. a \in Attributes /\ a.nlink = 1 /\ (a.kind = "dir" => a.parent = p) /\ a # None /\ a.kind = k
  BY Values, Zenon DEF NewAttr, Attributes
<1>2. i # None /\ i # p /\ Dir(attr, p) /\ attr[p] # None /\ attr[p] \in Attributes
  BY Values, EntryKey, Zenon DEF Dir, Database, Attrs
<1>3. /\ r.dentry = Put(<<p, n>>, i) /\ r.attr = batch /\ r.held = Held({p}) /\ r.doom = {}
      /\ r.slices = {} /\ r.op = op /\ r.ino = i /\ r.size = 0 /\ r.stale = FALSE
  BY Zenon DEF Request, Making
<1>4. Sound(dentry, attr, r)
  <2>1. Namespace([dentry EXCEPT ![<<p, n>>] = i], [attr EXCEPT ![i] = a])
    <3> HIDE DEF a
    <3> QED BY <1>1, <1>2, EntryKey, Made, Zenon DEF Database
  <2>2. Lock(p) \in r.held
    BY <1>3, Zenon DEF Held, Lock
  <2> HIDE DEF a
  <2> QED BY <1>1, <1>2, <1>3, <2>1, <2>2, OneEntry, Zenon DEF a
<1>5. /\ DOMAIN batch \subseteq {i, p} /\ i \in DOMAIN batch /\ batch[i] = a
      /\ p \in DOMAIN batch => batch[p] = attr[p]
  BY <1>2, Zenon DEF Put, ++, Touch
<1>6. Formed(r)
  <2>1. DOMAIN r.dentry \subseteq Keys /\ \A e \in DOMAIN r.dentry : r.dentry[e] \in Inodes
    BY <1>3, EntryKey DEF Put
  <2>2. DOMAIN r.attr \subseteq Inodes /\ \A j \in DOMAIN r.attr : r.attr[j] \in Attributes
    BY <1>1, <1>2, <1>3, <1>5, Zenon
  <2> QED BY <1>3, <2>1, <2>2, Zenon DEF Formed, Fields, Request, Making
<1>7. Opens(attr, r)
  BY <1>1, <1>3, <1>5, Zenon DEF Opens
<1> QED BY <1>2, <1>3, <1>4, <1>5, <1>6, <1>7, Zenon DEF Admissible

\* rmdir of an empty directory.
LEMMA RmdirAdmissible ==
    ASSUME Database, NEW p \in Inodes, NEW n \in Names, NEW i, NEW r,
           i = dentry[<<p, n>>], i # None, IsDir(p), IsDir(i),
           \A m \in Names : dentry[<<i, m>>] = None,
           r = [Request("write", i, Held({p, i})) EXCEPT
                    !.dentry = Put(<<p, n>>, None), !.attr = Put(i, None) ++ Touch(p)]
    PROVE  Admissible(r) /\ Existing(r)
<1>1. i \in Inodes /\ i # p /\ Dir(attr, i) /\ Dir(attr, p) /\ attr[p] \in Attributes
  BY EntryKey, Zenon DEF Database, Dentries, Attrs, Dir
<1>2. /\ r.dentry = Put(<<p, n>>, None) /\ r.attr = Put(i, None) ++ Touch(p)
      /\ r.held = Held({p, i}) /\ r.doom = {}
      /\ r.slices = {} /\ r.op = "write" /\ r.ino = i /\ r.size = 0 /\ r.stale = FALSE
  BY Zenon DEF Request
<1>3. Sound(dentry, attr, r)
  <2>1. Namespace([dentry EXCEPT ![<<p, n>>] = None], [attr EXCEPT ![i] = None])
    BY <1>1, EntryKey, DirectoryRemoved, Zenon DEF Database
  <2>2. Lock(p) \in r.held /\ Lock(i) \in r.held
    BY <1>2, Zenon DEF Held, Lock
  <2>3. attr[i] # None /\ ~IsFile(i)
    BY <1>1, Zenon DEF Dir, IsFile
  <2> QED BY <1>1, <1>2, <2>1, <2>2, <2>3, OneEntry, Zenon
<1>4. DOMAIN r.attr = {i, p} /\ r.attr[i] = None /\ r.attr[p] = attr[p]
  BY <1>1, <1>2 DEF Put, ++, Touch
<1>5. Formed(r)
  <2>1. DOMAIN r.dentry \subseteq Keys /\ \A e \in DOMAIN r.dentry : r.dentry[e] = None
    BY <1>2, EntryKey DEF Put
  <2> QED BY <1>1, <1>2, <1>4, <2>1, Zenon DEF Formed, Fields, Request
<1> QED BY <1>1, <1>2, <1>3, <1>4, <1>5, Zenon DEF Admissible, Existing, Opens, Dir

\* link of a file or symlink.
LEMMA LinkAdmissible ==
    ASSUME Database, NEW p \in Inodes, NEW n \in Names, NEW i \in Inodes, NEW r,
           HasName(i), ~IsDir(i), IsDir(p), dentry[<<p, n>>] = None,
           r = [Request("write", i, Held({p, i})) EXCEPT
                    !.dentry = Put(<<p, n>>, i),
                    !.attr = Put(i, [attr[i] EXCEPT !.nlink = @ + 1]) ++ Touch(p)]
    PROVE  Admissible(r) /\ Existing(r)
<1> DEFINE a == [attr[i] EXCEPT !.nlink = @ + 1]
<1>1. attr[i] \in Attributes /\ attr[i] # None
  <2>1. PICK k \in Keys : dentry[k] = i
    BY Zenon DEF HasName, Entries
  <2> QED BY <2>1, EntryKey, Values, Zenon DEF Database, Attrs
<1>2. i # p /\ Dir(attr, p) /\ attr[p] # None /\ attr[p] \in Attributes /\ ~Dir(attr, i)
  BY EntryKey, Zenon DEF Database, Attrs, Dir
<1>3. /\ a \in Attributes /\ a # None /\ a.kind = attr[i].kind /\ a.parent = attr[i].parent
      /\ a.nlink = attr[i].nlink + 1
  BY <1>1, Values DEF Attributes
<1>4. /\ r.dentry = Put(<<p, n>>, i) /\ r.attr = Put(i, a) ++ Touch(p)
      /\ r.held = Held({p, i}) /\ r.doom = {}
      /\ r.slices = {} /\ r.op = "write" /\ r.ino = i /\ r.size = 0 /\ r.stale = FALSE
  BY Zenon DEF Request
<1>5. Formed(r) /\ Existing(r)
  <2> HIDE DEF a
  <2>1. DOMAIN r.dentry \subseteq Keys /\ \A e \in DOMAIN r.dentry : r.dentry[e] = i
    BY <1>4, EntryKey DEF Put
  <2>2. DOMAIN r.attr = {i, p} /\ r.attr[i] = a /\ r.attr[p] = attr[p]
    BY <1>2, <1>4 DEF Put, ++, Touch
  <2> QED BY <1>1, <1>2, <1>3, <1>4, <2>1, <2>2, ZenonT(30) DEF Formed, Fields, Request,
             Existing, a
<1> HIDE DEF a
<1>6. Sound(dentry, attr, r)
  <2>1. Namespace([dentry EXCEPT ![<<p, n>>] = i], [attr EXCEPT ![i] = a])
    BY <1>1, <1>2, <1>3, EntryKey, LinkMade, Zenon DEF Database
  <2>2. Lock(p) \in r.held /\ Lock(i) \in r.held
    BY <1>4, Zenon DEF Held, Lock
  <2> QED BY <1>1, <1>2, <1>3, <1>4, <2>1, <2>2, OneEntry, Zenon
<1> QED BY <1>4, <1>5, <1>6, Zenon DEF Admissible, Opens

\* r is u but for attributes, doom and sustain.
Extends(u, r) ==
    /\ r = Fields(r) /\ r.op = u.op /\ r.ino = u.ino /\ r.held = u.held
    /\ r.dentry = u.dentry /\ r.slices = u.slices /\ r.size = u.size /\ r.stale = u.stale

\* r leaves the attribute a of i, which has one name less.
Drops(u, r, i, a) ==
    /\ r.attr = Put(i, a) ++ u.attr /\ r.doom \subseteq {i}
    /\ IF a = None THEN /\ attr[i].nlink = 1
                        /\ IsFile(i) => i \in r.doom
                        /\ i \in r.doom => ~IsOpened(i)
                   ELSE /\ a.kind = attr[i].kind /\ a.parent = attr[i].parent
                        /\ a.nlink = attr[i].nlink - 1
                        /\ r.doom = {}

\* What DropLink makes of a request: the last name of an open file leaves a
\* sustained inode without links.
LEMMA DropLinkAttr ==
    ASSUME Database, NEW k \in Keys, NEW i, i = dentry[k], i # None, ~IsDir(i),
           NEW r, r.doom = {}, Formed(r),
           NEW u, u = DropLink(r, i)
    PROVE  Extends(r, u) /\ \E a \in Attributes \cup {None} : Drops(r, u, i, a)
<1>1. i \in Inodes /\ attr[i] \in Attributes /\ attr[i] # None /\ ~Dir(attr, i)
  BY Values, EntryKey, Zenon DEF Database, Dentries, Attrs, Namespace, Filed, IsDir, Dir
<1>2. attr[i].nlink \in Nat /\ attr[i].nlink >= 1
  <2>1. attr[i].nlink = Cardinality(Named(dentry, i))
    BY <1>1, Zenon DEF Database, Namespace, LinksCounted, Dir
  <2>2. k \in Named(dentry, i)
    BY Zenon DEF Named
  <2>3. Cardinality(Named(dentry, i)) \in Nat /\ Cardinality(Named(dentry, i)) # 0
    BY <2>2, KeysFinite, FS_EmptySet, FS_CardinalityType, Zenon
  <2> QED BY <2>1, <2>3
<1> DEFINE left == [attr[i] EXCEPT !.nlink = attr[i].nlink - 1]
<1>3. /\ left \in Attributes /\ left # None /\ left.kind = attr[i].kind
      /\ left.parent = attr[i].parent /\ left.nlink = attr[i].nlink - 1
  BY <1>1, <1>2, Values DEF Attributes
<1>4. CASE attr[i].nlink - 1 > 0
  <2>1. u = [r EXCEPT !.attr = Put(i, left) ++ @]
    BY <1>4, Zenon DEF DropLink
  <2> HIDE DEF left
  <2>2. u.doom = {} /\ u.sustain = r.sustain
    BY <2>1, Zenon DEF Formed, Fields
  <2>3. Extends(r, u)
    BY <2>1, Zenon DEF Formed, Fields, Extends
  <2>4. u.attr = Put(i, left) ++ r.attr
    BY <2>1, Zenon DEF Formed, Fields
  <2> QED BY <1>3, <2>2, <2>3, <2>4, Zenon DEF Drops
<1>5. CASE ~(attr[i].nlink - 1 > 0) /\ IsFile(i) /\ IsOpened(i)
  <2>1. u = [r EXCEPT !.attr = Put(i, left) ++ @, !.sustain = {i}]
    BY <1>5, Zenon DEF DropLink
  <2> HIDE DEF left
  <2>2. u.doom = {} /\ u.sustain = {i}
    BY <2>1, Zenon DEF Formed, Fields
  <2>3. Extends(r, u)
    BY <2>1, Zenon DEF Formed, Fields, Extends
  <2>4. u.attr = Put(i, left) ++ r.attr
    BY <2>1, Zenon DEF Formed, Fields
  <2> QED BY <1>3, <2>2, <2>3, <2>4, Zenon DEF Drops
<1>6. CASE ~(attr[i].nlink - 1 > 0) /\ ~(IsFile(i) /\ IsOpened(i))
  <2>1. u = [r EXCEPT !.attr = Put(i, None) ++ @,
                                   !.doom = IF IsFile(i) THEN {i} ELSE {}]
    BY <1>6, Zenon DEF DropLink
  <2>2. u.doom = (IF IsFile(i) THEN {i} ELSE {}) /\ u.sustain = r.sustain
    BY <2>1, Zenon DEF Formed, Fields
  <2>3. Extends(r, u)
    BY <2>1, Zenon DEF Formed, Fields, Extends
  <2>4. u.attr = Put(i, None) ++ r.attr
    BY <2>1, Zenon DEF Formed, Fields
  <2>5. attr[i].nlink = 1
    BY <1>2, <1>6
  <2> QED BY <1>6, <2>2, <2>5, <2>3, <2>4, Zenon DEF Drops
<1> QED BY <1>4, <1>5, <1>6, Zenon

\* unlink.
LEMMA UnlinkAdmissible ==
    ASSUME Database, NEW p \in Inodes, NEW n \in Names, NEW i, NEW s, NEW r,
           i = dentry[<<p, n>>], i # None, ~IsDir(i), IsDir(p),
           s = Fields(s), s.op = "write", s.ino = i, s.held = Held({p, i}),
           s.dentry = Put(<<p, n>>, None), s.attr = Touch(p), s.slices = {}, s.doom = {},
           s.size = 0, s.stale \in BOOLEAN, ~s.stale,
           r = DropLink(s, i)
    PROVE  Admissible(r) /\ Existing(r)
<1>1. /\ i \in Inodes /\ attr[i] # None /\ ~Dir(attr, i) /\ Dir(attr, p) /\ i # p
      /\ attr[p] \in Attributes /\ attr[p] # None /\ <<p, n>> \in Keys
  BY EntryKey DEF Database, Attrs, Dir, Dentries
<1>2. Formed(s)
  <2>1. DOMAIN s.dentry \subseteq Keys /\ \A e \in DOMAIN s.dentry : s.dentry[e] = None
    BY <1>1, Zenon DEF Put
  <2>2. DOMAIN s.attr = {p} /\ s.attr[p] = attr[p]
    BY Zenon DEF Put, Touch
  <2> QED BY <1>1, <2>1, <2>2 DEF Formed
<1>3. PICK a \in Attributes \cup {None} : Drops(s, r, i, a)
  BY <1>1, <1>2, DropLinkAttr, Zenon
<1>4. Extends(s, r)
  BY <1>1, <1>2, DropLinkAttr, Zenon
<1>5. /\ r.dentry = Put(<<p, n>>, None) /\ r.attr = Put(i, a) ++ Touch(p)
      /\ r.held = Held({p, i})
      /\ r.slices = {} /\ r.op = "write" /\ r.ino = i /\ r.size = 0
      /\ r.stale \in BOOLEAN /\ ~r.stale
  BY <1>4, <1>3, Zenon DEF Extends, Drops
<1>6. DOMAIN r.attr = {i, p} /\ r.attr[i] = a /\ r.attr[p] = attr[p]
  BY <1>1, <1>5, Zenon DEF Put, ++, Touch
<1>7. Formed(r)
  <2>1. DOMAIN r.attr \subseteq Inodes /\ \A j \in DOMAIN r.attr : r.attr[j] \in Attributes \cup {None}
    BY <1>1, <1>6, Zenon
  <2>2. r.doom \subseteq Inodes
    BY <1>1, <1>3, Zenon DEF Drops
  <2>3. DOMAIN r.dentry \subseteq Keys /\ \A e \in DOMAIN r.dentry : r.dentry[e] = None
    BY <1>1, <1>5, SMTT(20) DEF Put
  <2> QED BY <1>4, <1>1, <1>5, <2>3, <2>1, <2>2 DEF Formed, Extends
<1>8. Sound(dentry, attr, r)
  <2>1. Namespace([dentry EXCEPT ![<<p, n>>] = None], [attr EXCEPT ![i] = a])
    BY <1>1, <1>3, LinkDropped, Zenon DEF Database, Drops
  <2>2. Lock(p) \in r.held /\ Lock(i) \in r.held
    BY <1>5, Zenon DEF Held, Lock
  <2>3. a = None => attr[i] # None /\ (IsFile(i) => i \in r.doom)
    BY <1>1, <1>3, Zenon DEF Drops
  <2>4. \A j \in r.doom : j = i /\ a = None
    BY <1>3, Zenon DEF Drops
  <2>5. a # None => a.kind = attr[i].kind /\ a.parent = attr[i].parent
    BY <1>3, Zenon DEF Drops
  <2> QED BY <1>1, <1>5, <2>1, <2>2, <2>3, <2>4, <2>5, OneEntry, ZenonT(30)
<1>9. \A j \in r.doom : ~IsOpened(j)
  BY <1>3, Zenon DEF Drops
<1> QED BY <1>1, <1>5, <1>6, <1>7, <1>8, <1>9, Zenon DEF Admissible, Existing, Opens

\* A batch without entries leaves the entries as they are.
LEMMA NoEntries == ASSUME dentry \in Dentries
    PROVE DOMAIN Nothing = {} /\ Nothing ++ dentry = dentry
<1>1. DOMAIN Nothing = {}
  BY DEF Nothing
<1> QED BY <1>1, Zenon DEF ++, Dentries

\* r writes the attribute a of i and perhaps a slice of it.
Sets(r, op, i, held, a, slices, size) ==
    /\ r = Fields(r) /\ r.op = op /\ r.ino = i /\ r.held = held /\ r.size = size
    /\ r.dentry = Nothing /\ r.attr = Put(i, a) /\ r.slices = slices /\ r.doom = {}
    /\ r.stale \in BOOLEAN /\ ~r.stale

\* set_attr, truncate and commit_slice.
LEMMA AttrAdmissible ==
    ASSUME NEW i, NEW a, NEW op, NEW held, NEW slices, NEW size, NEW r,
           Database, i \in Inodes, a \in Attributes, attr[i] # None, Same(a, attr[i]),
           op \in {"write", "truncate", "commit"}, slices \subseteq {i}, size \in Nat,
           op = "commit" \/ held = Held({i}), slices # {} => IsFile(i),
           Sets(r, op, i, held, a, slices, size)
    PROVE  Admissible(r) /\ Existing(r)
<1>1. /\ r = Fields(r) /\ r.dentry = Nothing /\ r.attr = Put(i, a) /\ r.held = held /\ r.doom = {}
      /\ r.slices = slices /\ r.op = op /\ r.ino = i /\ r.size = size /\ r.stale \in BOOLEAN /\ ~r.stale
  BY Zenon DEF Sets
<1>2. DOMAIN r.attr = {i} /\ r.attr[i] = a
  BY <1>1, Zenon DEF Put
<1>3. DOMAIN r.dentry = {} /\ r.dentry ++ dentry = dentry
  BY <1>1, NoEntries, Zenon DEF Database
<1>4. Formed(r) /\ (op = "commit" \/ Lock(i) \in r.held)
  BY <1>1, <1>2, <1>3, Zenon DEF Formed, Held, Lock
<1>5. Namespace(r.dentry ++ dentry, r.attr ++ attr)
  <2>1. r.attr ++ attr = [attr EXCEPT ![i] = a]
    BY <1>1, Written DEF Database, Attrs
  <2>2. [attr EXCEPT ![i] = a] \in Attrs /\ \A j \in Inodes : Alike([attr EXCEPT ![i] = a][j], attr[j])
    BY Zenon DEF Attrs, Alike, Database
  <2> QED BY <1>3, <2>1, <2>2, LengthsWritten, Zenon DEF Database
<1>6. EntriesLocked(dentry, attr, r)
  BY <1>3, Zenon DEF EntriesLocked
<1>7. InodesLocked(dentry, attr, r)
  <2>1. ~Alters(attr, r, i) /\ ~Renames(dentry, r, i)
    BY <1>2, <1>3, Zenon DEF Alters, Renames
  <2> QED BY <1>1, <1>2, <1>4, <2>1, Zenon DEF InodesLocked, Same
<1>8. Deletes(attr, r)
  BY <1>1, <1>2, Zenon DEF Deletes, Same, IsFile
<1> QED BY <1>1, <1>2, <1>4, <1>5, <1>6, <1>7, <1>8, Zenon DEF Admissible, Existing, Sound, Opens

\* A request that writes nothing.
LEMMA EmptySound ==
    ASSUME NEW D \in Dentries, NEW A \in Attrs, Namespace(D, A), NEW r,
           DOMAIN r.dentry = {}, DOMAIN r.attr = {}, r.doom = {}, r.slices = {}
    PROVE  Sound(D, A, r)
<1>1. r.dentry ++ D = D /\ r.attr ++ A = A
  BY Zenon DEF ++, Dentries, Attrs
<1> QED BY <1>1, Zenon DEF Sound, EntriesLocked, InodesLocked, Deletes

\* r writes nothing.
Empty(r, i) ==
    /\ Formed(r) /\ DOMAIN r.dentry = {} /\ DOMAIN r.attr = {} /\ r.doom = {}
    /\ r.slices = {} /\ r.ino = i /\ ~r.stale

\* open, and what is left of a truncation.
LEMMA EmptyFormed ==
    ASSUME NEW i, NEW size, i \in Inodes, size \in Nat
    PROVE  /\ Empty([Request("open", i, {}) EXCEPT !.size = size], i)
           /\ Empty(Truncated(i, size), i)
           /\ Truncated(i, size).op = "truncated" /\ Truncated(i, size).held = Held({i})
<1>1. DOMAIN Nothing = {}
  BY DEF Nothing
<1>2. ASSUME NEW r,
             \/ r = [Request("open", i, {}) EXCEPT !.size = size]
             \/ r = Truncated(i, size)
      PROVE  Empty(r, i)
  <2>1. /\ r.dentry = Nothing /\ r.attr = Nothing /\ r.doom = {}
        /\ r.slices = {} /\ r.ino = i /\ r.size = size /\ r.stale \in BOOLEAN /\ ~r.stale
        /\ r.op \in {"open", "truncated"} /\ (r.op = "truncated" => r.held = Held({i}))
        /\ r = Fields(r)
    BY <1>2, Zenon DEF Request, Truncated, Fields
  <2> QED BY <1>1, <2>1, Zenon DEF Formed, Empty
<1>3. Truncated(i, size).op = "truncated" /\ Truncated(i, size).held = Held({i})
  BY Zenon DEF Truncated, Request
<1> QED BY <1>2, <1>3, Zenon

\* No directory has an entry for itself.
LEMMA NoSelf ==
    ASSUME Database, NEW k \in Keys
    PROVE  dentry[k] # k[1]
<1> SUFFICES ASSUME dentry[k] = k[1]
             PROVE  FALSE
  BY Zenon
<1>1. k[1] \in Inodes
  BY Zenon DEF Keys
<1>2. Dir(attr, k[1]) /\ k[1] # Root
  BY <1>1, Values, Zenon DEF Database, Namespace, Filed, Rooted
<1>3. attr[k[1]].parent = k[1]
  BY <1>1, <1>2, Zenon DEF Database, Namespace, Placed, Named
<1>4. \E i \in {k[1]} : attr[i].parent \notin {k[1]}
  BY <1>1, <1>2, Zenon DEF Database, Namespace, NoRing
<1> QED BY <1>3, <1>4, Zenon

\* What the ancestor check of the kernel has found.
LEMMA NotAbove ==
    ASSUME Database, NEW i \in Inodes, NEW d, ~Above(d, i)
    PROVE  /\ Outside(dentry, d, i) /\ d # i
           /\ \A l \in Keys : Outside([dentry EXCEPT ![l] = None], d, i)
<1>1. PICK set \in SUBSET Inodes :
        i \in set /\ d \notin set /\ \A k \in Keys : dentry[k] \in set => k[1] \in set
  BY Zenon DEF Above
<1>2. None \notin set
  BY Values, Zenon
<1>3. \A l \in Keys : \A k \in Keys : [dentry EXCEPT ![l] = None][k] \in set => k[1] \in set
  BY <1>1, <1>2, Zenon DEF Database, Dentries
<1>4. \A l \in Keys : Outside([dentry EXCEPT ![l] = None], d, i)
  BY <1>1, <1>3, Zenon DEF Outside
<1> QED BY <1>1, <1>4, Zenon DEF Outside

\* What a rename writes of the inode at the new name, it writes under its lock.
OtherLocked(r, t) ==
    t # None =>
        /\ Alters(attr, r, t) \/ ~IsDir(t) => Lock(t) \in r.held
        /\ r.attr[t] # None =>
                /\ r.attr[t].kind = attr[t].kind
                /\ r.attr[t].parent # attr[t].parent => RenameLock \in r.held
        /\ r.attr[t] = None => (IsFile(t) => t \in r.doom)

\* r moves s from the entry k in p to the entry l in q, where t was if there
\* was anything.
Shifts(k, l, p, q, s, t, r) ==
    /\ k \in Keys /\ l \in Keys /\ p = k[1] /\ q = l[1] /\ IsDir(p) /\ IsDir(q) /\ k # l
    /\ s \in Inodes /\ t \in Inodes \cup {None}
    /\ dentry[k] = s /\ dentry[l] = t /\ s # t /\ s # q /\ t # p
    /\ DOMAIN r.dentry = {k, l} /\ r.dentry[k] \in {None, t} /\ r.dentry[l] = s
    /\ DOMAIN r.attr = {s, p, q} \cup ({t} \ {None})
    /\ r.attr[p] = attr[p] /\ r.attr[q] = attr[q]
    /\ r.attr[s] # None /\ r.attr[s].kind = attr[s].kind /\ r.attr[s].nlink = attr[s].nlink
    /\ r.attr[s].parent # attr[s].parent => Lock(s) \in r.held /\ RenameLock \in r.held
    /\ Lock(p) \in r.held /\ Lock(q) \in r.held /\ (~IsDir(s) => Lock(s) \in r.held)
    /\ OtherLocked(r, t)
    /\ \A i \in r.doom : i = t /\ t # None /\ r.attr[t] = None
    /\ r.slices = {}

\* Such a batch is sound if it leaves a namespace behind.
LEMMA TwoEntries ==
    ASSUME Database, NEW k, NEW l, NEW p, NEW q, NEW s, NEW t, NEW r, Shifts(k, l, p, q, s, t, r),
           Namespace(r.dentry ++ dentry, r.attr ++ attr)
    PROVE  Sound(dentry, attr, r)
<1> USE DEF Shifts
<1>1. p \in Inodes /\ q \in Inodes
  BY Zenon DEF Keys
<1>2. /\ s # None /\ Dir(attr, p) /\ Dir(attr, q) /\ attr[p] # None /\ attr[q] # None
      /\ attr[s] # None /\ (t # None => attr[t] # None /\ t \in Inodes)
      /\ Dir(attr, s) = IsDir(s) /\ (t # None => Dir(attr, t) = IsDir(t))
  BY <1>1, Values, Zenon DEF Dir, IsDir, Database, Namespace, Filed
<1>3. s # p /\ t # q
  BY <1>1, NoSelf, Zenon
<1>4. EntriesLocked(dentry, attr, r)
  BY <1>1, <1>2, Values DEF EntriesLocked
<1>5. InodesLocked(dentry, attr, r)
  <2>1. /\ ~Renames(dentry, r, p) /\ ~Renames(dentry, r, q)
        /\ HoldsEntry(dentry, r, s) /\ (t # None => HoldsEntry(dentry, r, t))
    BY <1>1, <1>2, <1>3, Values DEF Renames, HoldsEntry
  <2>2. ~Alters(attr, r, p) /\ ~Alters(attr, r, q)
    BY <1>2, Zenon DEF Alters, Same
  <2>3. Alters(attr, r, s) => Lock(s) \in r.held
    BY <1>2, Zenon DEF Alters, Same
  <2> QED BY <1>2, <1>3, <2>1, <2>2, <2>3, Zenon DEF InodesLocked, OtherLocked
<1>6. Deletes(attr, r)
  BY <1>2 DEF Deletes, IsFile, OtherLocked
<1> QED BY <1>4, <1>5, <1>6, Zenon DEF Sound

\* The locks of a rename.
LEMMA RenameHeld ==
    ASSUME NEW p, NEW q, NEW s, NEW t, NEW flag
    PROVE  LET held == RenameLocks(s, t, p, q, flag)
           IN /\ Lock(p) \in held /\ Lock(q) \in held
              /\ ~IsDir(s) \/ p # q => Lock(s) \in held
              /\ t # None /\ (~IsDir(t) \/ p # q \/ flag # "exchange") => Lock(t) \in held
              /\ p # q => RenameLock \in held
  BY Zenon DEF RenameLocks, Held, Lock, RenameLock

\* The attribute of an inode that rename moves from the entry k to q.
LEMMA MovedAttr ==
    ASSUME Database, NEW k \in Keys, NEW i, NEW q \in Inodes, i = dentry[k], i # None
    PROVE  /\ i \in Inodes /\ attr[i] \in Attributes
           /\ Moved(i, q) \in Attributes /\ Moved(i, q) # None
           /\ Moved(i, q).kind = attr[i].kind /\ Moved(i, q).nlink = attr[i].nlink
           /\ Dir(attr, i) => Moved(i, q).parent = q
           /\ Moved(i, q).parent # attr[i].parent => k[1] # q
<1>1. i \in Inodes /\ attr[i] \in Attributes /\ attr[i] # None /\ i # Root
  BY Zenon DEF Database, Dentries, Attrs, Namespace, Filed, Rooted
<1>2. Dir(attr, i) => attr[i].parent = k[1]
  BY <1>1, Zenon DEF Database, Namespace, Placed, Named
<1> QED BY <1>1, <1>2, Values, Zenon DEF Moved, Attributes, IsDir, Dir

\* rename with RENAME_EXCHANGE.
LEMMA ExchangeAdmissible ==
    ASSUME Database, NEW k \in Keys, NEW l \in Keys, NEW p, NEW q, p = k[1], q = l[1],
           NEW s, NEW t, NEW r,
           s = dentry[k], t = dentry[l], s # None, t # None, k # l,
           IsDir(p), IsDir(q), s # t, ~Above(s, q), ~Above(t, p),
           r = Fields(r), r.op = "write", r.ino = s, r.held = RenameLocks(s, t, p, q, "exchange"),
           DOMAIN r.dentry = {k, l}, r.dentry[k] = t, r.dentry[l] = s,
           DOMAIN r.attr = {s, t, p, q}, r.attr[s] = Moved(s, q), r.attr[t] = Moved(t, p),
           r.attr[p] = attr[p], r.attr[q] = attr[q],
           r.slices = {}, r.doom = {}, r.size = 0, r.stale \in BOOLEAN, ~r.stale
    PROVE  Admissible(r) /\ Existing(r)
<1>1. p \in Inodes /\ q \in Inodes
  BY Zenon DEF Keys
<1> DEFINE a == Moved(s, q)
           b == Moved(t, p)
<1>2. /\ s \in Inodes /\ attr[s] \in Attributes /\ a \in Attributes /\ a # None
      /\ a.kind = attr[s].kind /\ a.nlink = attr[s].nlink /\ (Dir(attr, s) => a.parent = q)
      /\ a.parent # attr[s].parent => p # q
  BY <1>1, MovedAttr
<1>3. /\ t \in Inodes /\ attr[t] \in Attributes /\ b \in Attributes /\ b # None
      /\ b.kind = attr[t].kind /\ b.nlink = attr[t].nlink /\ (Dir(attr, t) => b.parent = p)
      /\ b.parent # attr[t].parent => q # p
  BY <1>1, MovedAttr
<1>4. /\ Outside(dentry, s, q) /\ Outside(dentry, t, p) /\ s # q /\ t # p
      /\ s # p /\ t # q
  BY <1>1, NotAbove, NoSelf
<1>5. attr[p] \in Attributes /\ attr[q] \in Attributes /\ attr[s] # None /\ attr[t] # None
      /\ attr[p] # None /\ attr[q] # None
  BY <1>1, <1>2, <1>3, Values DEF Database, Attrs, IsDir
<1>6. r.attr[s] = a /\ r.attr[t] = b
  BY Zenon
<1> HIDE DEF a, b
<1>7. Formed(r)
  <2>1. /\ DOMAIN r.dentry \subseteq Keys
        /\ \A e \in DOMAIN r.dentry : r.dentry[e] \in Inodes \cup {None}
    BY <1>1, <1>2, <1>3, <1>6
  <2>2. /\ DOMAIN r.attr \subseteq Inodes
        /\ \A j \in DOMAIN r.attr : r.attr[j] \in Attributes \cup {None}
    BY <1>1, <1>2, <1>3, <1>5, <1>6, Zenon
  <2> QED BY <1>2, <2>1, <2>2 DEF Formed
<1>8. Namespace(r.dentry ++ dentry, r.attr ++ attr)
  <2> DEFINE D2 == [dentry EXCEPT ![k] = t, ![l] = s]
             A2 == [attr EXCEPT ![s] = a, ![t] = b]
  <2>1. /\ D2 \in Dentries
        /\ \A e \in Keys : D2[e] = IF e \in DOMAIN r.dentry THEN r.dentry[e] ELSE dentry[e]
    BY <1>1, <1>2, <1>3, <1>6, Zenon DEF Database, Dentries
  <2>2. /\ A2 \in Attrs
        /\ \A i \in Inodes : A2[i] = IF i \in DOMAIN r.attr THEN r.attr[i] ELSE attr[i]
    BY <1>2, <1>3, <1>6, Zenon DEF Database, Attrs
  <2>3. Namespace(D2, A2)
    BY <1>2, <1>3, <1>4, NamesExchanged, Zenon DEF Database
  <2> HIDE DEF D2, A2
  <2>4. r.dentry ++ dentry = D2
    BY <1>7, <2>1, WrittenAs DEF Database, Formed
  <2>5. r.attr ++ attr = A2
    BY <1>7, <2>2, WrittenAs DEF Database, Formed
  <2> QED BY <2>3, <2>4, <2>5, Zenon
<1>9. Sound(dentry, attr, r)
  <2>1. /\ Lock(p) \in r.held /\ Lock(q) \in r.held
        /\ ~IsDir(s) \/ p # q => Lock(s) \in r.held
        /\ ~IsDir(t) \/ p # q => Lock(t) \in r.held
        /\ p # q => RenameLock \in r.held
    BY RenameHeld
  <2>2. Alters(attr, r, t) => Lock(t) \in r.held
    BY <1>3, <1>5, <1>6, <2>1, Zenon DEF Alters, Same
  <2>3. /\ r.attr[s] # None /\ r.attr[s].kind = attr[s].kind /\ r.attr[s].nlink = attr[s].nlink
        /\ r.attr[s].parent # attr[s].parent => Lock(s) \in r.held /\ RenameLock \in r.held
    BY <1>2, <1>6, <2>1, Zenon
  <2>4. OtherLocked(r, t)
    BY <1>3, <1>6, <2>1, <2>2, Zenon DEF OtherLocked
  <2>5. DOMAIN r.attr = {s, p, q} \cup ({t} \ {None})
    BY <1>6, Zenon
  <2>6. Shifts(k, l, p, q, s, t, r)
    BY <1>2, <1>3, <1>4, <1>6, <2>1, <2>3, <2>4, <2>5, Zenon DEF Shifts
  <2> QED BY <1>8, <2>6, TwoEntries, Zenon
<1> QED BY <1>2, <1>3, <1>5, <1>6, <1>7, <1>9, Zenon DEF Admissible, Existing, Opens

\* r leaves the attribute b of t, which goes from the entry l.
Replaces(u, r, l, t, b) ==
    /\ r.attr = Put(t, b) ++ u.attr /\ r.doom \subseteq {t}
    /\ b = None => (IsFile(t) => t \in r.doom) /\ (t \in r.doom => ~IsOpened(t))
    /\ b # None => b.kind = attr[t].kind /\ b.parent = attr[t].parent /\ r.doom = {}
    /\ Namespace([dentry EXCEPT ![l] = None], [attr EXCEPT ![t] = b])

\* What rename makes of the inode it replaces.
LEMMA ReplacedAttr ==
    ASSUME Database, NEW l \in Keys, NEW t, t = dentry[l], t # None,
           IsDir(t) => \A n \in Names : dentry[<<t, n>>] = None,
           NEW u, u.doom = {}, Formed(u), NEW r, r = Replaced(u, t)
    PROVE  Extends(u, r) /\ \E b \in Attributes \cup {None} : Replaces(u, r, l, t, b)
<1>1. t \in Inodes /\ IsDir(t) = Dir(attr, t)
  BY Zenon DEF Database, Dentries, IsDir, Dir
<1>2. CASE IsDir(t)
  <2>1. r = [u EXCEPT !.attr = Put(t, None) ++ @]
    BY <1>2, Zenon DEF Replaced
  <2>2. Extends(u, r) /\ r.attr = Put(t, None) ++ u.attr /\ r.doom = {}
    BY <2>1, Zenon DEF Formed, Fields, Extends
  <2>3. Namespace([dentry EXCEPT ![l] = None], [attr EXCEPT ![t] = None])
    BY <1>1, <1>2, DirectoryRemoved, Zenon DEF Database
  <2>4. ~IsFile(t)
    BY <1>2, Zenon DEF IsDir, IsFile
  <2> QED BY <2>2, <2>3, <2>4, Zenon DEF Replaces
<1>3. CASE ~IsDir(t)
  <2>1. r = DropLink(u, t)
    BY <1>3, Zenon DEF Replaced
  <2>2. Extends(u, r)
    BY <1>3, <2>1, DropLinkAttr, Zenon
  <2>3. PICK b \in Attributes \cup {None} : Drops(u, r, t, b)
    BY <1>3, <2>1, DropLinkAttr, Zenon
  <2>4. Namespace([dentry EXCEPT ![l] = None], [attr EXCEPT ![t] = b])
    BY <1>1, <1>3, <2>3, LinkDropped, Zenon DEF Database, Drops
  <2> QED BY <2>2, <2>3, <2>4, Zenon DEF Drops, Replaces
<1> QED BY <1>2, <1>3, Zenon

\* The part of a rename that is written in any case: s goes from the entry k,
\* where v is left, to l.
Moves(u, k, l, s, v, held) ==
    /\ u = Fields(u) /\ u.op = "write" /\ u.ino = s /\ u.held = held
    /\ DOMAIN u.dentry = {k, l} /\ u.dentry[k] = v /\ u.dentry[l] = s
    /\ DOMAIN u.attr = {s, k[1], l[1]} /\ u.attr[s] = Moved(s, l[1])
    /\ u.attr[k[1]] = attr[k[1]] /\ u.attr[l[1]] = attr[l[1]]
    /\ u.slices = {} /\ u.doom = {} /\ u.size = 0 /\ u.stale \in BOOLEAN /\ ~u.stale

\* What rename has made sure of before it replaces t at the entry l by s.
Replacing(k, l, p, q, s, t) ==
    /\ k \in Keys /\ l \in Keys /\ p = k[1] /\ q = l[1] /\ k # l /\ IsDir(p) /\ IsDir(q)
    /\ s = dentry[k] /\ t = dentry[l] /\ s # None /\ s # t
    /\ ~Above(s, q) /\ (t # None => ~Above(t, p))
    /\ t # None /\ IsDir(t) => \A n \in Names : dentry[<<t, n>>] = None

\* What follows about the inodes.
Placement(l, p, q, s, t) ==
    /\ p \in Inodes /\ q \in Inodes /\ s \in Inodes /\ t \in Inodes \cup {None}
    /\ attr[p] \in Attributes /\ attr[q] \in Attributes /\ attr[s] \in Attributes
    /\ attr[p] # None /\ attr[q] # None /\ attr[s] # None /\ Dir(attr, q)
    /\ t # None => attr[t] # None
    /\ s # q /\ t # p /\ s # p /\ t # q
    /\ Outside([dentry EXCEPT ![l] = None], s, q)

\* s moves to q and nothing else of it that matters here changes.
Carried(p, q, s, a) ==
    /\ a \in Attributes /\ a # None /\ a.kind = attr[s].kind /\ a.nlink = attr[s].nlink
    /\ Dir(attr, s) => a.parent = q
    /\ a.parent # attr[s].parent => p # q

\* The whole batch, with the attributes a for s and b for t.
Replacement(r, k, l, p, q, s, t, a, b) ==
    /\ r = Fields(r) /\ r.op = "write" /\ r.ino = s
    /\ DOMAIN r.dentry = {k, l} /\ r.dentry[k] = None /\ r.dentry[l] = s
    /\ DOMAIN r.attr = {s, p, q} \cup ({t} \ {None}) /\ r.attr[s] = a
    /\ r.attr[p] = attr[p] /\ r.attr[q] = attr[q] /\ (t # None => r.attr[t] = b)
    /\ r.slices = {} /\ r.size = 0 /\ r.stale \in BOOLEAN /\ ~r.stale
    /\ r.doom \subseteq {t} \ {None}

\* What rename has looked up in a namespace.
LEMMA ReplacingPlaced ==
    ASSUME Database, NEW k, NEW l, NEW p, NEW q, NEW s, NEW t, Replacing(k, l, p, q, s, t)
    PROVE  Placement(l, p, q, s, t) /\ Carried(p, q, s, Moved(s, q))
<1> USE DEF Replacing
<1>1. p \in Inodes /\ q \in Inodes
  BY Zenon DEF Keys
<1>2. s \in Inodes /\ attr[s] \in Attributes /\ Carried(p, q, s, Moved(s, q))
  BY <1>1, MovedAttr DEF Carried
<1>3. s # q /\ t # p /\ s # p /\ t # q /\ Outside([dentry EXCEPT ![l] = None], s, q)
  <2>1. s # q /\ Outside([dentry EXCEPT ![l] = None], s, q)
    BY <1>1, NotAbove, Zenon
  <2>2. t # p
    BY <1>1, NotAbove, Values, Zenon
  <2> QED BY <2>1, <2>2, NoSelf, Zenon
<1>4. /\ attr[p] \in Attributes /\ attr[q] \in Attributes /\ attr[s] # None
      /\ attr[p] # None /\ attr[q] # None /\ Dir(attr, q)
      /\ t # None => t \in Inodes /\ attr[t] # None
  BY <1>1, <1>2, Values, Zenon DEF Database, Attrs, IsDir, Dir, Dentries, Namespace, Filed
<1> QED BY <1>1, <1>2, <1>3, <1>4, Zenon DEF Placement

\* The batch that rename collects.
LEMMA ReplacementMade ==
    ASSUME Database, NEW k, NEW l, NEW p, NEW q, NEW s, NEW t, NEW held, NEW u, NEW r,
           Replacing(k, l, p, q, s, t), Moves(u, k, l, s, None, held), r = Replaced(u, t)
    PROVE  \E b \in Attributes \cup {None} :
               /\ Replacement(r, k, l, p, q, s, t, Moved(s, q), b) /\ r.held = held
               /\ t # None => Replaces(u, r, l, t, b)
<1>1. PICK a : a = Moved(s, q)
  BY Zenon
<1>2. Placement(l, p, q, s, t) /\ Carried(p, q, s, a)
  BY <1>1, ReplacingPlaced, Zenon
<1>3. /\ u = Fields(u) /\ u.op = "write" /\ u.ino = s /\ u.held = held
      /\ DOMAIN u.dentry = {k, l} /\ u.dentry[k] = None /\ u.dentry[l] = s
      /\ DOMAIN u.attr = {s, p, q} /\ u.attr[s] = a
      /\ u.attr[p] = attr[p] /\ u.attr[q] = attr[q]
      /\ u.slices = {} /\ u.doom = {} /\ u.size = 0 /\ u.stale \in BOOLEAN /\ ~u.stale
  BY <1>1, Zenon DEF Moves, Replacing
<1>4. CASE t = None
  <2>1. r = u
    BY <1>4, Zenon DEF Replaced
  <2> QED BY <1>1, <1>3, <1>4, <2>1, Zenon DEF Replacement
<1>5. CASE t # None
  <2>1. k \in Keys /\ l \in Keys /\ t = dentry[l] /\ p \in Inodes /\ q \in Inodes /\ s \in Inodes
    BY <1>2, Zenon DEF Replacing, Placement
  <2>2. /\ DOMAIN u.dentry \subseteq Keys
        /\ \A e \in DOMAIN u.dentry : u.dentry[e] \in Inodes \cup {None}
    BY <1>3, <2>1, Zenon
  <2>3. /\ DOMAIN u.attr \subseteq Inodes
        /\ \A j \in DOMAIN u.attr : u.attr[j] \in Attributes \cup {None}
    BY <1>2, <1>3, <2>1, Zenon DEF Placement, Carried
  <2>4. Formed(u)
    BY <1>3, <2>1, <2>2, <2>3 DEF Formed
  <2>5. PICK b \in Attributes \cup {None} : Extends(u, r) /\ Replaces(u, r, l, t, b)
    BY <1>3, <1>5, <2>1, <2>4, ReplacedAttr, Zenon DEF Replacing
  <2>6. r.attr = Put(t, b) ++ u.attr /\ r.doom \subseteq {t}
    BY <2>5, Zenon DEF Replaces
  <2>7. /\ DOMAIN r.attr = {s, p, q} \cup ({t} \ {None}) /\ r.attr[s] = a
        /\ r.attr[p] = attr[p] /\ r.attr[q] = attr[q] /\ r.attr[t] = b
    <3>1. s # t /\ t # p /\ t # q
      BY <1>2, Zenon DEF Placement, Replacing
    <3> QED BY <1>3, <1>5, <2>6, <3>1, Zenon DEF Put, ++
  <2>8. Replacement(r, k, l, p, q, s, t, a, b) /\ r.held = held
    BY <1>3, <1>5, <2>5, <2>6, <2>7, Zenon DEF Extends, Replacement
  <2> QED BY <1>1, <2>5, <2>8, Zenon
<1> QED BY <1>4, <1>5, Zenon

\* The batch is of the form that Apply takes.
LEMMA ReplacementFormed ==
    ASSUME NEW k, NEW l, NEW p, NEW q, NEW s, NEW t, NEW a, NEW b, NEW r,
           Replacing(k, l, p, q, s, t), Placement(l, p, q, s, t), Carried(p, q, s, a),
           b \in Attributes \cup {None}, Replacement(r, k, l, p, q, s, t, a, b)
    PROVE  Formed(r)
<1>1. /\ DOMAIN r.dentry \subseteq Keys
      /\ \A e \in DOMAIN r.dentry : r.dentry[e] \in Inodes \cup {None}
  BY DEF Replacing, Placement, Replacement
<1>2. /\ DOMAIN r.attr \subseteq Inodes
      /\ \A j \in DOMAIN r.attr : r.attr[j] \in Attributes \cup {None}
  BY Zenon DEF Placement, Carried, Replacement
<1>3. s \in Inodes /\ r.doom \subseteq Inodes
  BY Zenon DEF Placement, Replacement
<1> QED BY <1>1, <1>2, <1>3 DEF Replacement, Formed

\* Written over the database, it leaves a namespace.
LEMMA ReplacementNamespace ==
    ASSUME Database, NEW k, NEW l, NEW p, NEW q, NEW s, NEW t, NEW a, NEW b, NEW u, NEW r,
           Replacing(k, l, p, q, s, t), Placement(l, p, q, s, t), Carried(p, q, s, a),
           b \in Attributes \cup {None}, Replacement(r, k, l, p, q, s, t, a, b),
           t # None => Replaces(u, r, l, t, b)
    PROVE  Namespace(r.dentry ++ dentry, r.attr ++ attr)
<1>1. Formed(r)
  BY ReplacementFormed, Zenon
<1>2. /\ k \in Keys /\ l \in Keys /\ k # l /\ dentry[k] = s /\ dentry[l] = t /\ s # t
      /\ q = l[1]
  BY Zenon DEF Replacing
<1> DEFINE D1 == [dentry EXCEPT ![l] = None]
           A1 == IF t = None THEN attr ELSE [attr EXCEPT ![t] = b]
           D2 == [D1 EXCEPT ![k] = None, ![l] = s]
           A2 == [A1 EXCEPT ![s] = a]
<1>3. D1 \in Dentries /\ D1[k] = s /\ D1[l] = None
  BY <1>2, Zenon DEF Database, Dentries
<1>4. A1 \in Attrs /\ A1[s] = attr[s] /\ A1[q] = attr[q] /\ A1[s] # None
  BY <1>2, Zenon DEF Database, Attrs, Placement
<1>5. Namespace(D1, A1)
  <2>1. CASE t = None
    <3>1. D1 = dentry
      BY <1>2, <2>1, Zenon DEF Database, Dentries
    <3> QED BY <2>1, <3>1, Zenon DEF Database
  <2>2. CASE t # None
    BY <2>2, Zenon DEF Replaces
  <2> QED BY <2>1, <2>2, Zenon
<1>6. Outside(D1, s, q)
  BY Zenon DEF Placement
<1>7. /\ D2 \in Dentries
      /\ \A e \in Keys : D2[e] = IF e \in DOMAIN r.dentry THEN r.dentry[e] ELSE dentry[e]
  BY <1>2, Zenon DEF Database, Dentries, Placement, Replacement
<1>8. /\ A2 \in Attrs
      /\ \A i \in Inodes : A2[i] = IF i \in DOMAIN r.attr THEN r.attr[i] ELSE attr[i]
  BY Zenon DEF Database, Attrs, Placement, Carried, Replacement
<1> HIDE DEF A1, D1
<1>9. Namespace(D2, A2)
  <2>1. Dir(A1, q) /\ (Dir(A1, s) => a.parent = q) /\ a.kind = A1[s].kind /\ a.nlink = A1[s].nlink
    BY <1>4, Zenon DEF Dir, Placement, Carried
  <2>2. s \in Inodes /\ a \in Attributes /\ a # None /\ s # q
    BY Zenon DEF Placement, Carried
  <2> QED BY <1>2, <1>3, <1>4, <1>5, <1>6, <2>1, <2>2, NameMoved, Zenon
<1> HIDE DEF D2, A2
<1>10. r.dentry ++ dentry = D2
  BY <1>1, <1>7, WrittenAs DEF Database, Formed
<1>11. r.attr ++ attr = A2
  BY <1>1, <1>8, WrittenAs DEF Database, Formed
<1> QED BY <1>9, <1>10, <1>11, Zenon

\* rename to a free name or over another inode.
LEMMA ReplaceAdmissible ==
    ASSUME Database, NEW k, NEW l, NEW p, NEW q, NEW s, NEW t, NEW flag, NEW u, NEW r,
           Replacing(k, l, p, q, s, t), flag # "exchange",
           Moves(u, k, l, s, None, RenameLocks(s, t, p, q, flag)), r = Replaced(u, t)
    PROVE  Admissible(r) /\ Existing(r)
<1>1. PICK a : a = Moved(s, q)
  BY Zenon
<1>2. PICK b \in Attributes \cup {None} :
        /\ Replacement(r, k, l, p, q, s, t, a, b) /\ r.held = RenameLocks(s, t, p, q, flag)
        /\ t # None => Replaces(u, r, l, t, b)
  BY <1>1, ReplacementMade
<1>3. Placement(l, p, q, s, t) /\ Carried(p, q, s, a)
  BY <1>1, ReplacingPlaced, Zenon
<1>4. Formed(r) /\ Namespace(r.dentry ++ dentry, r.attr ++ attr)
  BY <1>2, <1>3, ReplacementFormed, ReplacementNamespace, Zenon
<1>5. \A i \in r.doom : i = t /\ t # None /\ r.attr[t] = None /\ ~IsOpened(t)
  BY <1>2, Zenon DEF Replaces, Replacement
<1>6. Sound(dentry, attr, r)
  <2>1. /\ Lock(p) \in r.held /\ Lock(q) \in r.held
        /\ ~IsDir(s) \/ p # q => Lock(s) \in r.held
        /\ t # None => Lock(t) \in r.held
        /\ p # q => RenameLock \in r.held
    BY <1>2, RenameHeld DEF Replacing
  <2>2. OtherLocked(r, t)
    BY <1>2, <2>1, Zenon DEF Replaces, Replacement, OtherLocked
  <2>3. r.attr[s].parent # attr[s].parent => Lock(s) \in r.held /\ RenameLock \in r.held
    BY <1>2, <1>3, <2>1, Zenon DEF Carried, Replacement
  <2>4. /\ DOMAIN r.dentry = {k, l} /\ r.dentry[k] = None /\ r.dentry[l] = s
        /\ DOMAIN r.attr = {s, p, q} \cup ({t} \ {None})
        /\ r.attr[p] = attr[p] /\ r.attr[q] = attr[q] /\ r.slices = {}
        /\ r.attr[s] # None /\ r.attr[s].kind = attr[s].kind /\ r.attr[s].nlink = attr[s].nlink
    BY <1>2, <1>3, SMTT(20) DEF Carried, Replacement
  <2>5. Shifts(k, l, p, q, s, t, r)
    BY <1>3, <1>5, <2>1, <2>2, <2>3, <2>4, ZenonT(30) DEF Shifts, Replacing, Placement
  <2> QED BY <1>4, <2>5, TwoEntries, Zenon
<1> QED BY <1>2, <1>3, <1>4, <1>5, <1>6
        DEF Admissible, Existing, Opens, Replacing, Placement, Replacement
=============================================================================
