------------------------- MODULE MetadataTreeProofs -------------------------
(***************************************************************************)
(* What a change of the entries and attributes of Metadata makes of the    *)
(* namespace, for any number of inodes and names. Each kind of change      *)
(* leaves a tree with exact link counts behind (Made, DirectoryRemoved,    *)
(* LinkMade, LinkDropped, NameMoved, NamesExchanged). Two changes that     *)
(* touch different entries and inodes and do not both move directories     *)
(* compose (Compose). The locks that Linux holds over two requests make    *)
(* their batches such changes, so a batch stays sound while others are     *)
(* written (StillSound).                                                   *)
(***************************************************************************)
EXTENDS Metadata, FiniteSetTheorems, TLAPS

\* The namespace as a function of entries D and attributes A, so that it can be
\* asked of the database and of the database with a batch written over it.
Dentries == [Keys -> Inodes \cup {None}]
Attrs == [Inodes -> Attributes \cup {None}]

Dir(A, i) == A[i] # None /\ A[i].kind = "dir"
Named(D, i) == {k \in Keys : D[k] = i}

\* Nothing names the root.
Rooted(D, A) == Dir(A, Root) /\ \A k \in Keys : D[k] # Root
\* Entries lie in directories and name inodes.
Filed(D, A) == \A k \in Keys : D[k] # None => Dir(A, k[1]) /\ A[D[k]] # None
\* A directory has one entry, in its parent.
Placed(D, A) ==
    \A i \in Inodes \ {Root} : Dir(A, i) =>
        \E k \in Keys : k[1] = A[i].parent /\ Named(D, i) = {k}
\* Of anything else the links are counted.
LinksCounted(D, A) ==
    \A i \in Inodes : A[i] # None /\ A[i].kind # "dir" => A[i].nlink = Cardinality(Named(D, i))
\* No directories contain each other in a ring: of any of them without the
\* root, one lies outside of them.
NoRing(A) ==
    \A set \in SUBSET (Inodes \ {Root}) :
        set # {} /\ (\A i \in set : Dir(A, i)) => \E i \in set : A[i].parent \notin set
Namespace(D, A) ==
    Rooted(D, A) /\ Filed(D, A) /\ Placed(D, A) /\ LinksCounted(D, A) /\ NoRing(A)

\* Two attributes that agree but for the length, or are both absent.
Same(a, b) ==
    a # None /\ b # None /\ a.kind = b.kind /\ a.nlink = b.nlink /\ a.parent = b.parent
Alike(a, b) == a = b \/ Same(a, b)

-----------------------------------------------------------------------------
(* Changes of a namespace, apart from any request.                          *)

\* There are finitely many entries.
LEMMA KeysFinite == IsFiniteSet(Keys) /\ \A D, i : IsFiniteSet(Named(D, i))
<1>1. IsFiniteSet(Inodes)
  BY MetadataConstants, FS_Interval DEF Inodes
<1>2. IsFiniteSet(Keys)
  BY <1>1, MetadataConstants, FS_Product, Zenon DEF Keys
<1>3. ASSUME NEW D, NEW i PROVE IsFiniteSet(Named(D, i))
  <2>1. Named(D, i) \subseteq Keys
    BY Zenon DEF Named
  <2> QED BY <1>2, <2>1, FS_Subset, Zenon
<1> QED BY <1>2, <1>3, Zenon

\* Directories that were there keep their parent, and a new one lies in one
\* that was there: then there is still no ring.
LEMMA LeafRing ==
    ASSUME NEW D \in Dentries, NEW A \in Attrs, NEW B \in Attrs,
           Filed(D, A), Placed(D, A), NoRing(A),
           \A i \in Inodes \ {Root} : Dir(B, i) =>
                IF A[i] = None THEN A[B[i].parent] # None
                               ELSE Dir(A, i) /\ B[i].parent = A[i].parent
    PROVE  NoRing(B)
<1> SUFFICES ASSUME NEW set \in SUBSET (Inodes \ {Root}), set # {}, \A i \in set : Dir(B, i)
             PROVE  \E i \in set : B[i].parent \notin set
  BY Zenon DEF NoRing
<1> DEFINE old == {i \in set : A[i] # None}
<1>1. CASE old = {}
  <2>1. PICK i \in set : TRUE
    BY Zenon
  <2>2. A[i] = None /\ A[B[i].parent] # None
    BY <1>1, <2>1, Zenon
  <2>3. B[i].parent \notin set
    BY <1>1, <2>2, Zenon
  <2> QED BY <2>3, Zenon
<1>2. CASE old # {}
  <2>1. \A i \in old : Dir(A, i) /\ B[i].parent = A[i].parent
    BY Zenon
  <2>2. PICK i \in old : A[i].parent \notin old
    <3>1. old \in SUBSET (Inodes \ {Root})
      BY Zenon
    <3> QED BY <1>2, <2>1, <3>1, Zenon DEF NoRing
  <2>3. Dir(A, A[i].parent)
    <3>1. PICK k \in Keys : k[1] = A[i].parent /\ Named(D, i) = {k}
      BY <2>1, Zenon DEF Placed
    <3>2. D[k] = i /\ i # None
      BY <3>1, MetadataConstants DEF Named, Inodes
    <3> QED BY <3>1, <3>2, Zenon DEF Filed
  <2>4. B[i].parent \notin set
    BY <2>1, <2>2, <2>3, Zenon DEF Dir
  <2> QED BY <2>4, Zenon
<1> QED BY <1>1, <1>2, Zenon

\* Two batches that were each collected over the same namespace D, A. K1, K2 are
\* the entries and I2 the inodes they write; D1, A1 and D2, A2 are what each of
\* them alone would leave. What one of them renames, the other neither renames
\* nor alters, and one of them moves no directory.
Independent(D, A, K1, D1, A1, K2, I2, D2, A2) ==
    /\ {D, D1, D2} \subseteq Dentries /\ {A, A1, A2} \subseteq Attrs
    /\ K1 \subseteq Keys /\ K2 \subseteq Keys /\ I2 \subseteq Inodes
    /\ Namespace(D, A) /\ Namespace(D1, A1) /\ Namespace(D2, A2)
    /\ \A k \in Keys : (k \notin K1 => D1[k] = D[k]) /\ (k \notin K2 => D2[k] = D[k])
    /\ K1 \cap K2 = {}
    /\ \A i \in Inodes \ I2 : A2[i] = A[i]
    /\ \A i \in I2 : Alike(A1[i], A[i])
    /\ \A k \in K1 : Dir(A, k[1]) /\ Alike(A2[k[1]], A[k[1]])
    /\ \A k \in K2 : Dir(A, k[1]) /\ Alike(A1[k[1]], A[k[1]])
    /\ \A i \in Inodes, k \in K1 : i = D[k] \/ i = D1[k] =>
            Alike(A2[i], A[i]) /\ \A l \in K2 : i # D[l] /\ i # D2[l]
    /\ \A i \in Inodes, k \in K2 : i = D[k] \/ i = D2[k] => Alike(A1[i], A[i])
    /\ \A i \in Inodes : A[i] # None => /\ A1[i] # None => A1[i].kind = A[i].kind
                                        /\ A2[i] # None => A2[i].kind = A[i].kind
    /\ \/ \A i \in Inodes : A[i] # None /\ A1[i] # None => A1[i].parent = A[i].parent
       \/ \A i \in Inodes : A[i] # None /\ A2[i] # None => A2[i].parent = A[i].parent

\* The second one written after the first.
Merged(D1, A1, K2, I2, D2, A2, D12, A12) ==
    /\ D12 \in Dentries /\ \A k \in Keys : D12[k] = IF k \in K2 THEN D2[k] ELSE D1[k]
    /\ A12 \in Attrs /\ \A i \in Inodes : A12[i] = IF i \in I2 THEN A2[i] ELSE A1[i]

\* Written one after the other, they leave a namespace.
LEMMA Compose ==
    ASSUME NEW D, NEW A, NEW K1, NEW D1, NEW A1, NEW K2, NEW I2, NEW D2, NEW A2, NEW D12,
    NEW A12,
           Independent(D, A, K1, D1, A1, K2, I2, D2, A2),
           Merged(D1, A1, K2, I2, D2, A2, D12, A12)
    PROVE  Namespace(D12, A12)
<1> USE DEF Namespace, Independent, Merged
<1> DEFINE Moved1(i) == \E k \in K1 : i = D[k] \/ i = D1[k]
           Moved2(i) == \E k \in K2 : i = D[k] \/ i = D2[k]
<1>1. ASSUME NEW i \in Inodes, ~Moved2(i) PROVE Named(D12, i) = Named(D1, i)
  BY <1>1 DEF Named
<1>2. ASSUME NEW i \in Inodes, ~Moved1(i) PROVE Named(D12, i) = Named(D2, i)
  BY <1>2 DEF Named
<1>3. ASSUME NEW i \in Inodes, Moved2(i) PROVE ~Moved1(i) /\ Alike(A12[i], A2[i])
  BY <1>3 DEF Alike, Same
<1>4. ASSUME NEW i \in Inodes
      PROVE  \/ Named(D12, i) = Named(D1, i) /\ Alike(A12[i], A1[i])
             \/ Named(D12, i) = Named(D2, i) /\ Alike(A12[i], A2[i])
  <2>1. CASE Moved2(i)
    BY <1>2, <1>3, <2>1, Zenon
  <2>2. CASE ~Moved2(i) /\ i \notin I2
    BY <1>1, <2>2, Zenon DEF Alike
  <2>3. CASE ~Moved2(i) /\ i \in I2 /\ Alike(A2[i], A[i])
    BY <1>1, <2>3 DEF Alike, Same
  <2>4. CASE ~Moved2(i) /\ i \in I2 /\ ~Alike(A2[i], A[i])
    <3>1. ~Moved1(i)
      BY <2>4, Zenon
    <3> QED BY <1>2, <2>4, <3>1, Zenon DEF Alike
  <2> QED BY <2>1, <2>2, <2>3, <2>4, Zenon
<1>5. Rooted(D12, A12)
  <2>1. Root \in Inodes
    BY MetadataConstants DEF Root, Inodes
  <2>2. Dir(A12, Root)
    BY <1>4, <2>1, Zenon DEF Rooted, Dir, Alike, Same
  <2> QED BY <2>2, Zenon DEF Rooted
<1>6. Filed(D12, A12)
  <2> SUFFICES ASSUME NEW k \in Keys, D12[k] # None
               PROVE  Dir(A12, k[1]) /\ A12[D12[k]] # None
    BY Zenon DEF Filed
  <2>1. k[1] \in Inodes /\ D12[k] \in Inodes
    BY DEF Keys, Dentries
  <2>2. CASE k \in K2
    <3>1. D12[k] = D2[k] /\ Moved2(D12[k]) /\ Dir(A2, k[1]) /\ A2[D12[k]] # None
      BY <2>2, Zenon DEF Filed
    <3>2. A12[D12[k]] # None
      BY <1>3, <2>1, <3>1, Zenon DEF Alike, Same
    <3>3. Dir(A12, k[1])
      BY <2>1, <2>2, <3>1 DEF Dir, Alike, Same
    <3> QED BY <3>2, <3>3, Zenon
  <2>3. CASE k \in K1 /\ k \notin K2
    <3>1. D12[k] = D1[k] /\ Dir(A1, k[1]) /\ A1[D12[k]] # None
      BY <2>3, Zenon DEF Filed
    <3>2. Alike(A2[D12[k]], A[D12[k]]) /\ Alike(A2[k[1]], A[k[1]])
      BY <2>1, <2>3, <3>1, Zenon
    <3>3. A12[D12[k]] # None
      BY <2>1, <3>1, <3>2 DEF Alike, Same
    <3>4. Dir(A12, k[1])
      BY <2>1, <3>1, <3>2 DEF Dir, Alike, Same
    <3> QED BY <3>3, <3>4, Zenon
  <2>4. CASE k \notin K1 /\ k \notin K2
    <3>1. D12[k] = D1[k] /\ D12[k] = D2[k]
      BY <2>4, Zenon
    <3>2. Dir(A1, k[1]) /\ Dir(A2, k[1]) /\ A1[D12[k]] # None /\ A2[D12[k]] # None
      BY <3>1, Zenon DEF Filed
    <3> QED BY <2>1, <3>2, Zenon DEF Dir
  <2> QED BY <2>2, <2>3, <2>4, Zenon
<1>7. Placed(D12, A12)
  <2> SUFFICES ASSUME NEW i \in Inodes \ {Root}, Dir(A12, i)
               PROVE  \E k \in Keys : k[1] = A12[i].parent /\ Named(D12, i) = {k}
    BY Zenon DEF Placed
  <2>1. CASE Named(D12, i) = Named(D1, i) /\ Alike(A12[i], A1[i])
    <3>1. Dir(A1, i) /\ A1[i].parent = A12[i].parent
      BY <2>1, Zenon DEF Dir, Alike, Same
    <3> QED BY <2>1, <3>1 DEF Placed
  <2>2. CASE Named(D12, i) = Named(D2, i) /\ Alike(A12[i], A2[i])
    <3>1. Dir(A2, i) /\ A2[i].parent = A12[i].parent
      BY <2>2, Zenon DEF Dir, Alike, Same
    <3> QED BY <2>2, <3>1 DEF Placed
  <2> QED BY <1>4, <2>1, <2>2, Zenon
<1>8. LinksCounted(D12, A12)
  <2> SUFFICES ASSUME NEW i \in Inodes, A12[i] # None, A12[i].kind # "dir"
               PROVE  A12[i].nlink = Cardinality(Named(D12, i))
    BY Zenon DEF LinksCounted
  <2>1. CASE Named(D12, i) = Named(D1, i) /\ Alike(A12[i], A1[i])
    BY <2>1 DEF LinksCounted, Alike, Same
  <2>2. CASE Named(D12, i) = Named(D2, i) /\ Alike(A12[i], A2[i])
    BY <2>2 DEF LinksCounted, Alike, Same
  <2> QED BY <1>4, <2>1, <2>2, Zenon
<1>9. NoRing(A12)
  <2>1. CASE \A i \in Inodes : A[i] # None /\ A2[i] # None => A2[i].parent = A[i].parent
    <3>1. ASSUME NEW i \in Inodes \ {Root}, Dir(A12, i), A1[i] = None
          PROVE  A1[A12[i].parent] # None
      <4>1. i \in I2 /\ Dir(A2, i) /\ A12[i] = A2[i] /\ A[i] = None
        BY <3>1, Zenon DEF Dir, Alike, Same
      <4>2. PICK k \in Keys : k[1] = A2[i].parent /\ Named(D2, i) = {k}
        BY <4>1, Zenon DEF Placed
      <4>3. D2[k] = i
        BY <4>2, Zenon DEF Named
      <4>4. k \in K2
        BY <4>1, <4>3, MetadataConstants DEF Filed, Inodes
      <4>5. Dir(A, k[1]) /\ Alike(A1[k[1]], A[k[1]])
        BY <4>4, Zenon
      <4> QED BY <4>1, <4>2, <4>5 DEF Dir, Alike, Same
    <3>2. ASSUME NEW i \in Inodes \ {Root}, Dir(A12, i), A1[i] # None
          PROVE  Dir(A1, i) /\ A12[i].parent = A1[i].parent
      BY <2>1, <3>2 DEF Dir, Alike, Same
    <3> QED BY <3>1, <3>2, LeafRing, Zenon
  <2>2. CASE \A i \in Inodes : A[i] # None /\ A1[i] # None => A1[i].parent = A[i].parent
    <3>1. ASSUME NEW i \in Inodes \ {Root}, Dir(A12, i), A2[i] = None
          PROVE  A2[A12[i].parent] # None
      <4>1. i \notin I2 /\ Dir(A1, i) /\ A12[i] = A1[i] /\ A[i] = None
        BY <3>1, Zenon DEF Dir
      <4>2. PICK k \in Keys : k[1] = A1[i].parent /\ Named(D1, i) = {k}
        BY <4>1, Zenon DEF Placed
      <4>3. D1[k] = i
        BY <4>2, Zenon DEF Named
      <4>4. k \in K1
        BY <4>1, <4>3, MetadataConstants DEF Filed, Inodes
      <4>5. Dir(A, k[1]) /\ Alike(A2[k[1]], A[k[1]])
        BY <4>4, Zenon
      <4> QED BY <4>1, <4>2, <4>5 DEF Dir, Alike, Same
    <3>2. ASSUME NEW i \in Inodes \ {Root}, Dir(A12, i), A2[i] # None
          PROVE  Dir(A2, i) /\ A12[i].parent = A2[i].parent
      BY <2>2, <3>2 DEF Dir, Alike, Same
    <3> QED BY <3>1, <3>2, LeafRing, Zenon
  <2> QED BY <2>1, <2>2, Zenon
<1> QED BY <1>5, <1>6, <1>7, <1>8, <1>9, Zenon

\* set_attr, truncate, commit_slice: only lengths are written.
LEMMA LengthsWritten ==
    ASSUME NEW D \in Dentries, NEW A \in Attrs, NEW B \in Attrs,
           Namespace(D, A), \A i \in Inodes : Alike(B[i], A[i])
    PROVE  Namespace(D, B)
<1> USE DEF Namespace
<1>1. Root \in Inodes
  BY MetadataConstants DEF Root, Inodes
<1>2. \A i \in Inodes : Dir(B, i) = Dir(A, i) /\ (B[i] = None) = (A[i] = None)
  BY Zenon DEF Dir, Alike, Same
<1>3. Rooted(D, B)
  BY <1>1, <1>2, Zenon DEF Rooted
<1>4. Filed(D, B)
  BY <1>2, Zenon DEF Filed, Keys, Dentries
<1>5. Placed(D, B)
  BY <1>2 DEF Placed, Dir, Alike, Same
<1>6. LinksCounted(D, B)
  BY Zenon DEF LinksCounted, Alike, Same
<1>7. NoRing(B)
  BY <1>2, LeafRing, Zenon DEF Dir, Alike, Same
<1> QED BY <1>3, <1>4, <1>5, <1>6, <1>7, Zenon

\* mknod, mkdir, symlink, create: a new inode under a new name.
LEMMA Made ==
    ASSUME NEW D \in Dentries, NEW A \in Attrs, NEW k \in Keys, NEW i \in Inodes,
           NEW a \in Attributes,
           Namespace(D, A), D[k] = None, Dir(A, k[1]), A[i] = None,
           a.nlink = 1, a.kind = "dir" => a.parent = k[1]
    PROVE  Namespace([D EXCEPT ![k] = i], [A EXCEPT ![i] = a])
<1> DEFINE D2 == [D EXCEPT ![k] = i]
           A2 == [A EXCEPT ![i] = a]
<1> USE DEF Namespace
<1>1. /\ Root \in Inodes /\ i # None /\ a # None /\ k[1] \in Inodes /\ i # Root
      /\ D2 \in Dentries /\ A2 \in Attrs
  BY MetadataConstants DEF Root, Inodes, Keys, Dentries, Attrs, Rooted, Dir
<1>2. \A l \in Keys : D2[l] = IF l = k THEN i ELSE D[l]
  BY Zenon DEF Dentries
<1>3. \A j \in Inodes : A2[j] = IF j = i THEN a ELSE A[j]
  BY Zenon DEF Attrs
<1>4. \A l \in Keys : D[l] # i
  BY <1>1, Zenon DEF Filed
<1>5. Named(D2, i) = {k}
  BY <1>2, <1>4 DEF Named
<1>6. \A j \in Inodes : j # i => Named(D2, j) = Named(D, j)
  BY <1>1, <1>2, MetadataConstants DEF Named, Inodes
<1> HIDE DEF D2, A2
<1>7. Rooted(D2, A2)
  BY <1>1, <1>2, <1>3, Zenon DEF Rooted, Dir
<1>8. Filed(D2, A2)
  BY <1>1, <1>2, <1>3 DEF Filed, Dir, Keys, Dentries
<1>9. Placed(D2, A2)
  BY <1>1, <1>3, <1>5, <1>6, Zenon DEF Placed, Dir
<1>10. LinksCounted(D2, A2)
  <2>1. Cardinality(Named(D2, i)) = 1
    BY <1>5, FS_Singleton, Zenon
  <2> QED BY <1>3, <1>6, <2>1, Zenon DEF LinksCounted
<1>11. NoRing(A2)
  BY <1>1, <1>3, LeafRing, Zenon DEF Dir
<1> QED BY <1>7, <1>8, <1>9, <1>10, <1>11, Zenon DEF D2, A2

\* rmdir, and rename over a directory: an empty directory goes with its entry.
LEMMA DirectoryRemoved ==
    ASSUME NEW D \in Dentries, NEW A \in Attrs, NEW k \in Keys, NEW i \in Inodes,
           Namespace(D, A), D[k] = i, Dir(A, i), \A m \in Names : D[<<i, m>>] = None
    PROVE  Namespace([D EXCEPT ![k] = None], [A EXCEPT ![i] = None])
<1> DEFINE D2 == [D EXCEPT ![k] = None]
           A2 == [A EXCEPT ![i] = None]
<1> USE DEF Namespace
<1>1. Root \in Inodes /\ i # None /\ i # Root /\ D2 \in Dentries /\ A2 \in Attrs
  BY MetadataConstants DEF Root, Inodes, Dentries, Attrs, Rooted
<1>2. \A l \in Keys : D2[l] = IF l = k THEN None ELSE D[l]
  BY Zenon DEF Dentries
<1>3. \A j \in Inodes : A2[j] = IF j = i THEN None ELSE A[j]
  BY Zenon DEF Attrs
<1>4. Named(D, i) = {k}
  BY <1>1 DEF Placed, Named
<1>5. \A l \in Keys : l # k => D[l] # i
  BY <1>4, Zenon DEF Named
<1>6. \A j \in Inodes : j # i => Named(D2, j) = Named(D, j)
  BY <1>1, <1>2, MetadataConstants DEF Named, Inodes
<1>7. \A l \in Keys : D[l] # None => l[1] # i
  BY DEF Keys
<1> HIDE DEF D2, A2
<1>8. Rooted(D2, A2)
  BY <1>1, <1>2, <1>3, MetadataConstants DEF Rooted, Dir, Inodes
<1>9. Filed(D2, A2)
  BY <1>2, <1>3, <1>5, <1>7 DEF Filed, Dir, Keys, Dentries
<1>10. Placed(D2, A2)
  BY <1>3, <1>6 DEF Placed, Dir
<1>11. LinksCounted(D2, A2)
  BY <1>3, <1>6, Zenon DEF LinksCounted
<1>12. NoRing(A2)
  BY <1>1, <1>3, LeafRing, Zenon DEF Dir
<1> QED BY <1>8, <1>9, <1>10, <1>11, <1>12, Zenon DEF D2, A2

\* link: one more name.
LEMMA LinkMade ==
    ASSUME NEW D \in Dentries, NEW A \in Attrs, NEW k \in Keys, NEW i \in Inodes,
           NEW a \in Attributes,
           Namespace(D, A), D[k] = None, Dir(A, k[1]), A[i] # None, ~Dir(A, i),
           a.kind = A[i].kind, a.nlink = A[i].nlink + 1
    PROVE  Namespace([D EXCEPT ![k] = i], [A EXCEPT ![i] = a])
<1> DEFINE D2 == [D EXCEPT ![k] = i]
           A2 == [A EXCEPT ![i] = a]
<1> USE DEF Namespace
<1>1. Root \in Inodes /\ i # None /\ a # None /\ i # Root /\ D2 \in Dentries /\ A2 \in Attrs
  BY MetadataConstants DEF Root, Inodes, Dentries, Attrs, Rooted
<1>2. \A l \in Keys : D2[l] = IF l = k THEN i ELSE D[l]
  BY Zenon DEF Dentries
<1>3. \A j \in Inodes : A2[j] = IF j = i THEN a ELSE A[j]
  BY Zenon DEF Attrs
<1>4. Named(D2, i) = Named(D, i) \cup {k} /\ k \notin Named(D, i)
  BY <1>1, <1>2, Zenon DEF Named
<1>5. \A j \in Inodes : j # i => Named(D2, j) = Named(D, j)
  BY <1>1, <1>2, MetadataConstants DEF Named, Inodes
<1> HIDE DEF D2, A2
<1>6. \A j \in Inodes : Dir(A2, j) = Dir(A, j) /\ (Dir(A, j) => A2[j] = A[j])
  BY <1>1, <1>3, Zenon DEF Dir
<1>7. Rooted(D2, A2)
  BY <1>1, <1>2, <1>6, Zenon DEF Rooted
<1>8. Filed(D2, A2)
  BY <1>1, <1>2, <1>3, <1>6 DEF Filed, Keys, Dentries
<1>9. Placed(D2, A2)
  BY <1>5, <1>6 DEF Placed
<1>10. LinksCounted(D2, A2)
  <2>1. Cardinality(Named(D2, i)) = Cardinality(Named(D, i)) + 1
    BY <1>4, KeysFinite, FS_AddElement, Zenon
  <2>2. A[i].nlink = Cardinality(Named(D, i))
    BY Zenon DEF LinksCounted, Dir
  <2> QED BY <1>3, <1>5, <2>1, <2>2, Zenon DEF LinksCounted
<1>11. NoRing(A2)
  BY <1>1, <1>6, LeafRing, Zenon DEF Dir
<1> QED BY <1>7, <1>8, <1>9, <1>10, <1>11, Zenon DEF D2, A2

\* unlink, and rename over a file: one name less, and with the last one the
\* inode may go.
LEMMA LinkDropped ==
    ASSUME NEW D \in Dentries, NEW A \in Attrs, NEW k \in Keys, NEW i \in Inodes,
           NEW a \in Attributes \cup {None},
           Namespace(D, A), D[k] = i, ~Dir(A, i),
           IF a = None THEN A[i].nlink = 1
                       ELSE a.kind = A[i].kind /\ a.nlink = A[i].nlink - 1
    PROVE  Namespace([D EXCEPT ![k] = None], [A EXCEPT ![i] = a])
<1> DEFINE D2 == [D EXCEPT ![k] = None]
           A2 == [A EXCEPT ![i] = a]
<1> USE DEF Namespace
<1>1. /\ Root \in Inodes /\ i # None /\ i # Root /\ D2 \in Dentries /\ A2 \in Attrs
      /\ A[i] # None
  BY MetadataConstants DEF Root, Inodes, Dentries, Attrs, Rooted, Filed
<1>2. \A l \in Keys : D2[l] = IF l = k THEN None ELSE D[l]
  BY Zenon DEF Dentries
<1>3. \A j \in Inodes : A2[j] = IF j = i THEN a ELSE A[j]
  BY Zenon DEF Attrs
<1>4. Named(D2, i) = Named(D, i) \ {k} /\ k \in Named(D, i)
  BY <1>1, <1>2, Zenon DEF Named
<1>5. \A j \in Inodes : j # i => Named(D2, j) = Named(D, j)
  BY <1>1, <1>2, MetadataConstants DEF Named, Inodes
<1>6. /\ A[i].nlink = Cardinality(Named(D, i))
      /\ Cardinality(Named(D2, i)) = Cardinality(Named(D, i)) - 1
  <2>1. A[i].nlink = Cardinality(Named(D, i))
    BY <1>1, Zenon DEF LinksCounted, Dir
  <2> QED BY <1>4, <2>1, KeysFinite, FS_RemoveElement, ZenonT(30)
<1>7. a = None => \A l \in Keys : D2[l] # i
  <2>1. CASE a = None
    <3>1. Cardinality(Named(D2, i)) = 0
      BY <1>6, <2>1
    <3>2. Named(D2, i) = {}
      BY <3>1, KeysFinite, FS_EmptySet, Zenon
    <3> QED BY <3>2, Zenon DEF Named
  <2> QED BY <2>1, Zenon
<1> HIDE DEF D2, A2
<1>8. \A j \in Inodes : Dir(A2, j) = Dir(A, j) /\ (Dir(A, j) => A2[j] = A[j])
  BY <1>1, <1>3, Zenon DEF Dir
<1>9. Rooted(D2, A2)
  BY <1>1, <1>2, <1>8, MetadataConstants DEF Rooted, Inodes
<1>10. Filed(D2, A2)
  BY <1>2, <1>3, <1>7, <1>8 DEF Filed, Keys, Dentries
<1>11. Placed(D2, A2)
  BY <1>5, <1>8, Zenon DEF Placed
<1>12. LinksCounted(D2, A2)
  BY <1>3, <1>5, <1>6, Zenon DEF LinksCounted
<1>13. NoRing(A2)
  BY <1>1, <1>8, LeafRing, Zenon DEF Dir
<1> QED BY <1>9, <1>10, <1>11, <1>12, <1>13, Zenon DEF D2, A2

\* A set of inodes that tells q from what lies below s: what the kernel has
\* found by its ancestor check.
Outside(D, s, q) ==
    \E set \in SUBSET Inodes :
        q \in set /\ s \notin set /\ \A k \in Keys : D[k] \in set => k[1] \in set

\* rename to a free name.
LEMMA NameMoved ==
    ASSUME NEW D \in Dentries, NEW A \in Attrs, NEW k \in Keys, NEW l \in Keys,
           NEW s \in Inodes, NEW a \in Attributes,
           Namespace(D, A), D[k] = s, D[l] = None, Dir(A, l[1]), Outside(D, s, l[1]),
           a.kind = A[s].kind, a.nlink = A[s].nlink, Dir(A, s) => a.parent = l[1]
    PROVE  Namespace([D EXCEPT ![k] = None, ![l] = s], [A EXCEPT ![s] = a])
<1> DEFINE D2 == [D EXCEPT ![k] = None, ![l] = s]
           A2 == [A EXCEPT ![s] = a]
<1> USE DEF Namespace
<1>1. /\ Root \in Inodes /\ s # None /\ s # Root /\ a # None /\ k # l
      /\ A[s] # None /\ l[1] \in Inodes
  BY MetadataConstants DEF Root, Inodes, Keys, Rooted, Filed
<1>2. D2 \in Dentries /\ A2 \in Attrs
  BY Zenon DEF Dentries, Attrs
<1>3. \A e \in Keys : D2[e] = IF e = l THEN s ELSE IF e = k THEN None ELSE D[e]
  BY Zenon DEF Dentries
<1>4. \A j \in Inodes : A2[j] = IF j = s THEN a ELSE A[j]
  BY Zenon DEF Attrs
<1> HIDE DEF D2, A2
<1>5. /\ Named(D2, s) = (Named(D, s) \ {k}) \cup {l}
      /\ k \in Named(D, s) /\ l \notin Named(D, s)
  BY <1>1, <1>3, Zenon DEF Named
<1>6. \A j \in Inodes : j # s => Named(D2, j) = Named(D, j)
  BY <1>1, <1>3, MetadataConstants DEF Named, Inodes
<1>7. \A j \in Inodes : Dir(A2, j) = Dir(A, j) /\ (j # s => A2[j] = A[j]) /\ (A2[j] = None) = (A[j] = None)
  BY <1>1, <1>4, Zenon DEF Dir
<1>8. Rooted(D2, A2)
  BY <1>1, <1>3, <1>7, MetadataConstants DEF Rooted, Inodes
<1>9. Filed(D2, A2)
  BY <1>1, <1>3, <1>7 DEF Filed, Keys, Dentries
<1>10. Placed(D2, A2)
  <2>1. Dir(A, s) => Named(D, s) = {k}
    BY <1>1, <1>5, Zenon DEF Placed
  <2>2. Dir(A, s) => Named(D2, s) = {l} /\ A2[s].parent = l[1]
    BY <1>4, <1>5, <2>1, Zenon
  <2> QED BY <1>6, <1>7, <2>2 DEF Placed
<1>11. LinksCounted(D2, A2)
  <2>1. Cardinality(Named(D, s) \ {k}) = Cardinality(Named(D, s)) - 1
    BY <1>5, KeysFinite, FS_RemoveElement, Zenon
  <2>2. Cardinality((Named(D, s) \ {k}) \cup {l}) = Cardinality(Named(D, s) \ {k}) + 1
    BY <1>5, KeysFinite, FS_RemoveElement, FS_AddElement, Zenon
  <2>3. Cardinality(Named(D, s)) \in Nat
    BY KeysFinite, FS_CardinalityType, Zenon
  <2>4. Cardinality(Named(D2, s)) = Cardinality(Named(D, s))
    BY <1>5, <2>1, <2>2, <2>3
  <2> QED BY <1>1, <1>4, <1>6, <2>4, Zenon DEF LinksCounted
<1>12. NoRing(A2)
  <2> SUFFICES ASSUME NEW set \in SUBSET (Inodes \ {Root}), set # {}, \A i \in set : Dir(A2, i)
               PROVE  \E i \in set : A2[i].parent \notin set
    BY Zenon DEF NoRing
  <2>1. \A i \in set : Dir(A, i)
    BY <1>7, Zenon
  <2>2. CASE s \notin set
    <3>1. PICK i \in set : A[i].parent \notin set
      BY <2>1, Zenon DEF NoRing
    <3> QED BY <1>7, <2>2, <3>1, Zenon
  <2>3. CASE s \in set /\ l[1] \notin set
    <3>1. A2[s].parent = l[1]
      BY <1>4, <2>1, <2>3, Zenon
    <3> QED BY <2>3, <3>1, Zenon
  <2>4. CASE s \in set /\ l[1] \in set
    <3>1. PICK out \in SUBSET Inodes :
            l[1] \in out /\ s \notin out /\ \A e \in Keys : D[e] \in out => e[1] \in out
      BY Zenon DEF Outside
    <3> DEFINE both == set \cap out
    <3>2. PICK i \in both : A[i].parent \notin both
      <4>1. both \in SUBSET (Inodes \ {Root}) /\ l[1] \in both /\ \A i \in both : Dir(A, i)
        BY <2>1, <2>4, <3>1, Zenon
      <4> QED BY <4>1, Zenon DEF NoRing
    <3>3. PICK e \in Keys : e[1] = A[i].parent /\ Named(D, i) = {e}
      BY <2>1, <3>2, Zenon DEF Placed
    <3>4. A[i].parent \in out
      BY <3>1, <3>2, <3>3, Zenon DEF Named
    <3>5. A2[i] = A[i] /\ A[i].parent \notin set
      BY <1>7, <3>1, <3>2, <3>4, Zenon
    <3> QED BY <3>2, <3>5, Zenon
  <2> QED BY <2>2, <2>3, <2>4, Zenon
<1> QED BY <1>8, <1>9, <1>10, <1>11, <1>12, Zenon DEF D2, A2

\* rename that exchanges two names.
LEMMA NamesExchanged ==
    ASSUME NEW D \in Dentries, NEW A \in Attrs, NEW k \in Keys, NEW l \in Keys,
           NEW s \in Inodes, NEW t \in Inodes, NEW a \in Attributes, NEW b \in Attributes,
           Namespace(D, A), D[k] = s, D[l] = t, s # t,
           Outside(D, s, l[1]), Outside(D, t, k[1]),
           a.kind = A[s].kind, a.nlink = A[s].nlink, Dir(A, s) => a.parent = l[1],
           b.kind = A[t].kind, b.nlink = A[t].nlink, Dir(A, t) => b.parent = k[1]
    PROVE  Namespace([D EXCEPT ![k] = t, ![l] = s], [A EXCEPT ![s] = a, ![t] = b])
<1> DEFINE D2 == [D EXCEPT ![k] = t, ![l] = s]
           A2 == [A EXCEPT ![s] = a, ![t] = b]
<1> USE DEF Namespace
<1>1. /\ Root \in Inodes /\ s # None /\ t # None /\ s # Root /\ t # Root /\ a # None /\ b # None
      /\ k # l /\ A[s] # None /\ A[t] # None /\ k[1] \in Inodes /\ l[1] \in Inodes
  BY MetadataConstants DEF Root, Inodes, Keys, Rooted, Filed
<1>2. \A e \in Keys : D2[e] = IF e = l THEN s ELSE IF e = k THEN t ELSE D[e]
  BY Zenon DEF Dentries
<1>3. \A j \in Inodes : A2[j] = IF j = t THEN b ELSE IF j = s THEN a ELSE A[j]
  BY Zenon DEF Attrs
<1>4. D2 \in Dentries /\ A2 \in Attrs
  BY Zenon DEF Dentries, Attrs
<1> HIDE DEF D2, A2
<1>5. /\ Named(D2, s) = (Named(D, s) \ {k}) \cup {l}
      /\ k \in Named(D, s) /\ l \notin Named(D, s)
  BY <1>1, <1>2, Zenon DEF Named
<1>6. /\ Named(D2, t) = (Named(D, t) \ {l}) \cup {k}
       /\ l \in Named(D, t) /\ k \notin Named(D, t)
  BY <1>1, <1>2, Zenon DEF Named
<1>7. \A j \in Inodes : j # s /\ j # t => Named(D2, j) = Named(D, j)
  BY <1>1, <1>2, Zenon DEF Named
<1>8. \A j \in Inodes : /\ Dir(A2, j) = Dir(A, j) /\ (A2[j] = None) = (A[j] = None)
                        /\ j # s /\ j # t => A2[j] = A[j]
  BY <1>1, <1>3 DEF Dir
<1>9. Rooted(D2, A2)
  BY <1>1, <1>2, <1>8, Zenon DEF Rooted
<1>10. Filed(D2, A2)
  BY <1>1, <1>2, <1>8 DEF Filed, Keys, Dentries
<1>11. Dir(A, s) => Named(D, s) = {k} /\ A[s].parent = k[1]
  BY <1>1, <1>5, Zenon DEF Placed
<1>12. Dir(A, t) => Named(D, t) = {l} /\ A[t].parent = l[1]
  BY <1>1, <1>6, Zenon DEF Placed
<1>13. Placed(D2, A2)
  <2>1. Dir(A, s) => A2[s].parent = l[1]
    BY <1>3, Zenon
  <2>2. Dir(A, t) => A2[t].parent = k[1]
    BY <1>3, Zenon
  <2>3. Dir(A, s) => Named(D2, s) = {l}
    BY <1>5, <1>11, Zenon
  <2>4. Dir(A, t) => Named(D2, t) = {k}
    BY <1>6, <1>12, Zenon
  <2> QED BY <1>7, <1>8, <2>1, <2>2, <2>3, <2>4 DEF Placed
<1>14. LinksCounted(D2, A2)
  <2>1. ASSUME NEW set, NEW x \in set, NEW y, y \notin set, IsFiniteSet(set)
        PROVE  Cardinality((set \ {x}) \cup {y}) = Cardinality(set)
    <3>1. IsFiniteSet(set \ {x}) /\ Cardinality(set \ {x}) = Cardinality(set) - 1
      BY <2>1, FS_RemoveElement, SMTT(20)
    <3>2. Cardinality((set \ {x}) \cup {y}) = Cardinality(set \ {x}) + 1
      BY <2>1, <3>1, FS_AddElement, Zenon
    <3>3. Cardinality(set) \in Nat
      BY <2>1, FS_CardinalityType, Zenon
    <3> QED BY <3>1, <3>2, <3>3
  <2>2. /\ Cardinality(Named(D2, s)) = Cardinality(Named(D, s))
        /\ Cardinality(Named(D2, t)) = Cardinality(Named(D, t))
    BY <1>5, <1>6, <2>1, KeysFinite
  <2> QED BY <1>1, <1>3, <1>7, <2>2 DEF LinksCounted
<1>15. NoRing(A2)
  <2> SUFFICES ASSUME NEW set \in SUBSET (Inodes \ {Root}), set # {}, \A i \in set : Dir(A2, i)
               PROVE  \E i \in set : A2[i].parent \notin set
    BY Zenon DEF NoRing
  <2>1. \A i \in set : Dir(A, i)
    BY <1>8, Zenon
  <2>2. CASE s \notin set /\ t \notin set
    <3>1. PICK i \in set : A[i].parent \notin set
      BY <2>1, Zenon DEF NoRing
    <3> QED BY <1>8, <2>2, <3>1, Zenon
  <2>3. CASE (s \in set /\ l[1] \notin set) \/ (t \in set /\ k[1] \notin set)
    <3>1. (s \in set => A2[s].parent = l[1]) /\ (t \in set => A2[t].parent = k[1])
      BY <1>3, <2>1, Zenon
    <3> QED BY <2>3, <3>1, Zenon
  <2>4. ASSUME NEW x \in set, NEW q \in set, NEW out \in SUBSET Inodes,
               q \in out, x \notin out, \A e \in Keys : D[e] \in out => e[1] \in out,
               \A i \in set \cap out : A[i].parent \notin set \cap out => A2[i] = A[i]
        PROVE  \E i \in set : A2[i].parent \notin set
    <3> DEFINE both == set \cap out
    <3>1. PICK i \in both : A[i].parent \notin both
      <4>1. both \in SUBSET (Inodes \ {Root}) /\ q \in both /\ \A i \in both : Dir(A, i)
        BY <2>1, <2>4, Zenon
      <4> QED BY <4>1, Zenon DEF NoRing
    <3>2. PICK e \in Keys : e[1] = A[i].parent /\ Named(D, i) = {e}
      BY <2>1, <3>1, Zenon DEF Placed
    <3>3. A[i].parent \in out
      BY <2>4, <3>1, <3>2 DEF Named
    <3>4. A2[i] = A[i] /\ A[i].parent \notin set
      BY <2>4, <3>1, <3>3, Zenon
    <3> QED BY <3>1, <3>4, Zenon
  <2>5. CASE s \in set /\ l[1] \in set
    <3>1. PICK out \in SUBSET Inodes :
            l[1] \in out /\ s \notin out /\ \A e \in Keys : D[e] \in out => e[1] \in out
      BY Zenon DEF Outside
    <3>2. \A i \in set \cap out : A[i].parent \notin set \cap out => A2[i] = A[i]
      <4>1. t \in set => A[t].parent = l[1]
        BY <1>12, <2>1, Zenon
      <4> QED BY <1>8, <2>5, <3>1, <4>1, Zenon
    <3> QED BY <2>4, <2>5, <3>1, <3>2
  <2>6. CASE s \notin set /\ t \in set /\ k[1] \in set
    <3>1. PICK out \in SUBSET Inodes :
            k[1] \in out /\ t \notin out /\ \A e \in Keys : D[e] \in out => e[1] \in out
      BY Zenon DEF Outside
    <3>2. \A i \in set \cap out : A[i].parent \notin set \cap out => A2[i] = A[i]
      BY <1>8, <2>6, <3>1, Zenon
    <3> QED BY <2>4, <2>6, <3>1, <3>2
  <2> QED BY <2>2, <2>3, <2>5, <2>6, Zenon
<1> QED BY <1>9, <1>10, <1>13, <1>14, <1>15, Zenon DEF D2, A2

-----------------------------------------------------------------------------
(* Requests over a namespace D, A.                                          *)

Lock(i) == <<"inode", i>>
RenameLock == <<"rename", Root>>

\* What a batch does to an inode: it writes another attribute than its length,
\* it moves an entry from or to it, it moves an entry that is there already.
Alters(A, r, i) == i \in DOMAIN r.attr /\ (A[i] = None \/ ~Same(r.attr[i], A[i]))
Renames(D, r, i) == \E k \in DOMAIN r.dentry : i = D[k] \/ i = r.dentry[k]
HoldsEntry(D, r, i) == \E k \in DOMAIN r.dentry : D[k] = i

\* An entry is written under the lock of its directory, together with the
\* attribute of the inode that it named or will name.
EntriesLocked(D, A, r) ==
    \A k \in DOMAIN r.dentry :
        /\ Lock(k[1]) \in r.held /\ Dir(A, k[1])
        /\ \A i \in Inodes : i = D[k] \/ i = r.dentry[k] => i \in DOMAIN r.attr

\* An attribute is written under the lock of the inode, by a commit that is
\* validated, or by the rename of a directory that stays where it is. Links of
\* a file change under its lock, the one entry of a directory with its parent's.
InodesLocked(D, A, r) ==
    \A i \in DOMAIN r.attr : A[i] # None =>
        /\ Alters(A, r, i) => Lock(i) \in r.held
        /\ Alters(A, r, i) \/ Renames(D, r, i) =>
                IF Dir(A, i) THEN HoldsEntry(D, r, i) ELSE Lock(i) \in r.held
        /\ \/ Lock(i) \in r.held
           \/ r.op = "commit" /\ i = r.ino
           \/ Dir(A, i) /\ HoldsEntry(D, r, i)
        /\ r.attr[i] # None => /\ r.attr[i].kind = A[i].kind
                               /\ r.attr[i].parent # A[i].parent => RenameLock \in r.held

\* The chunks of a file that goes are left to a task, and slices are written
\* only with an inode.
Deletes(A, r) ==
    /\ \A i \in DOMAIN r.attr :
        r.attr[i] = None => A[i] # None /\ (A[i].kind = "file" => i \in r.doom)
    /\ \A i \in r.doom : i \in DOMAIN r.attr /\ r.attr[i] = None
    /\ \A i \in r.slices : i \in DOMAIN r.attr /\ r.attr[i] # None /\ r.attr[i].kind = "file"

\* What must hold of a batch until it is written: its locks cover it, and it
\* leaves a namespace behind.
Sound(D, A, r) ==
    /\ EntriesLocked(D, A, r) /\ InodesLocked(D, A, r) /\ Deletes(A, r)
    /\ Namespace(r.dentry ++ D, r.attr ++ A)

\* Only files are opened.
Opens(A, r) ==
    r.op = "open" =>
        /\ A[r.ino] # None => A[r.ino].kind = "file"
        /\ r.ino \in DOMAIN r.attr => r.attr[r.ino] # None /\ r.attr[r.ino].kind = "file"

Fields(r) ==
    [op |-> r.op, ino |-> r.ino, held |-> r.held, dentry |-> r.dentry, attr |-> r.attr,
     slices |-> r.slices, doom |-> r.doom, sustain |-> r.sustain, size |-> r.size,
     stale |-> r.stale]
Formed(r) ==
    /\ r = Fields(r)
    /\ r.op \in {"write", "open", "truncate", "truncated", "commit"}
    /\ r.ino \in Inodes /\ r.size \in Nat
    /\ r.stale \in BOOLEAN /\ (r.stale => r.op = "commit")
    /\ r.op \in {"truncate", "truncated"} => r.held = Held({r.ino})
    /\ DOMAIN r.dentry \subseteq Keys /\ DOMAIN r.attr \subseteq Inodes
    /\ \A k \in DOMAIN r.dentry : r.dentry[k] \in Inodes \cup {None}
    /\ \A i \in DOMAIN r.attr : r.attr[i] \in Attributes \cup {None}
    /\ r.slices \subseteq Inodes /\ r.doom \subseteq Inodes

\* A batch written over the database is the database with its keys replaced.
LEMMA Written ==
    /\ \A f, k, v : k \in DOMAIN f => Put(k, v) ++ f = [f EXCEPT ![k] = v]
    /\ \A f, b : DOMAIN b \subseteq DOMAIN f =>
            /\ DOMAIN (b ++ f) = DOMAIN f
            /\ \A k \in DOMAIN f : (b ++ f)[k] = IF k \in DOMAIN b THEN b[k] ELSE f[k]
    /\ \A k, v : DOMAIN Put(k, v) = {k} /\ Put(k, v)[k] = v
    /\ \A b, c : DOMAIN (b ++ c) = DOMAIN b \cup DOMAIN c
    /\ \A b, c : \A k \in DOMAIN b \cup DOMAIN c : (b ++ c)[k] = IF k \in DOMAIN b THEN b[k] ELSE c[k]
BY Zenon DEF Put, ++

\* The same, for a batch that is known key by key.
LEMMA WrittenAs ==
    /\ \A f, g \in Dentries : \A b :
        /\ DOMAIN b \subseteq Keys
        /\ \A k \in Keys : g[k] = IF k \in DOMAIN b THEN b[k] ELSE f[k]
        => b ++ f = g
    /\ \A f, g \in Attrs : \A b :
        /\ DOMAIN b \subseteq Inodes
        /\ \A i \in Inodes : g[i] = IF i \in DOMAIN b THEN b[i] ELSE f[i]
        => b ++ f = g
  BY Zenon DEF ++, Dentries, Attrs

\* None is no inode, no attribute and no open file.
LEMMA Values ==
    /\ \A i \in Inodes : i # None /\ i \in Nat
    /\ \A a \in Attributes : a # None
    /\ \A f \in OpenFile : f # None
    /\ Root \in Inodes
  BY MetadataConstants DEF Inodes, Root

\* A directory has one entry.
LEMMA OneName ==
    ASSUME NEW D \in Dentries, NEW A \in Attrs, Namespace(D, A),
           NEW k \in Keys, NEW l \in Keys, D[k] = D[l], D[k] # None, Dir(A, D[k])
    PROVE  k = l
<1>1. D[k] \in Inodes \ {Root}
  BY Zenon DEF Dentries, Namespace, Rooted
<1>2. PICK e \in Keys : Named(D, D[k]) = {e}
  BY <1>1, Zenon DEF Namespace, Placed
<1> QED BY <1>2 DEF Named

\* Two batches under locks that exclude each other. What one of them alters or
\* renames, the other leaves alone.
LEMMA Excluded ==
    ASSUME NEW D \in Dentries, NEW A \in Attrs, Namespace(D, A), NEW r, NEW q, NEW i \in Inodes,
           Formed(r), Formed(q), r.held \cap q.held = {},
           EntriesLocked(D, A, r), EntriesLocked(D, A, q), InodesLocked(D, A, r), InodesLocked(D, A, q),
           i \in DOMAIN r.attr, i \in DOMAIN q.attr, A[i] # None
    PROVE  /\ Alters(A, r, i) => q.op = "commit" /\ q.ino = i
           /\ Renames(D, r, i) => ~Alters(A, q, i) /\ ~Renames(D, q, i)
<1>1. ~(Lock(i) \in r.held /\ Lock(i) \in q.held)
  BY Zenon
<1>2. Dir(A, i) => ~(HoldsEntry(D, r, i) /\ HoldsEntry(D, q, i))
  <2> SUFFICES ASSUME Dir(A, i), NEW k \in DOMAIN r.dentry, NEW l \in DOMAIN q.dentry,
                      D[k] = i, D[l] = i
               PROVE  FALSE
    BY Zenon DEF HoldsEntry
  <2>1. k \in Keys /\ l \in Keys
    BY Zenon DEF Formed
  <2>2. k = l
    BY <2>1, OneName, Values, Zenon
  <2> QED BY <2>2, Zenon DEF EntriesLocked
<1>3. Alters(A, r, i) => Lock(i) \in r.held /\ (Dir(A, i) => HoldsEntry(D, r, i))
  BY Zenon DEF InodesLocked
<1>4. Alters(A, q, i) \/ Renames(D, q, i) => IF Dir(A, i) THEN HoldsEntry(D, q, i) ELSE Lock(i) \in q.held
  BY Zenon DEF InodesLocked
<1>5. Renames(D, r, i) => IF Dir(A, i) THEN HoldsEntry(D, r, i) ELSE Lock(i) \in r.held
  BY Zenon DEF InodesLocked
<1>6. Lock(i) \in q.held \/ (q.op = "commit" /\ i = q.ino) \/ (Dir(A, i) /\ HoldsEntry(D, q, i))
  BY Zenon DEF InodesLocked
<1> QED BY <1>1, <1>2, <1>3, <1>4, <1>5, <1>6, Zenon

\* A batch is still sound when another one is written first, under locks that
\* exclude its own and with new inodes of its own; a commit is when its
\* attribute was not written.
LEMMA StillSound ==
    ASSUME NEW D \in Dentries, NEW A \in Attrs, Namespace(D, A), NEW r, NEW q,
           Formed(r), Formed(q), Sound(D, A, r), Sound(D, A, q), r.held \cap q.held = {},
           q.op = "commit" => q.ino \notin DOMAIN r.attr,
           \A i \in DOMAIN r.attr \cap DOMAIN q.attr : A[i] # None
    PROVE  /\ Sound(r.dentry ++ D, r.attr ++ A, q)
           /\ \A i \in DOMAIN q.attr : Alike((r.attr ++ A)[i], A[i])
<1> DEFINE D1 == r.dentry ++ D
           A1 == r.attr ++ A
           D2 == q.dentry ++ D
           A2 == q.attr ++ A
           D12 == q.dentry ++ D1
           A12 == q.attr ++ A1
           K1 == DOMAIN r.dentry
           K2 == DOMAIN q.dentry
           I2 == DOMAIN q.attr
<1>1. /\ D1 \in Dentries /\ D2 \in Dentries /\ D12 \in Dentries
      /\ \A k \in Keys : /\ D1[k] = IF k \in K1 THEN r.dentry[k] ELSE D[k]
                         /\ D2[k] = IF k \in K2 THEN q.dentry[k] ELSE D[k]
                         /\ D12[k] = IF k \in K2 THEN q.dentry[k] ELSE D1[k]
  BY Zenon DEF ++, Dentries, Formed
<1>2. /\ A1 \in Attrs /\ A2 \in Attrs /\ A12 \in Attrs
      /\ \A i \in Inodes : /\ A1[i] = IF i \in DOMAIN r.attr THEN r.attr[i] ELSE A[i]
                           /\ A2[i] = IF i \in I2 THEN q.attr[i] ELSE A[i]
                           /\ A12[i] = IF i \in I2 THEN q.attr[i] ELSE A1[i]
  BY Zenon DEF ++, Attrs, Formed
<1>3. /\ Namespace(D1, A1) /\ Namespace(D2, A2)
      /\ EntriesLocked(D, A, r) /\ EntriesLocked(D, A, q)
      /\ InodesLocked(D, A, r) /\ InodesLocked(D, A, q) /\ Deletes(A, r) /\ Deletes(A, q)
  BY Zenon DEF Sound
<1>4. K1 \subseteq Keys /\ K2 \subseteq Keys /\ I2 \subseteq Inodes /\ DOMAIN r.attr \subseteq Inodes
  BY Zenon DEF Formed
<1> HIDE DEF D1, A1, D2, A2, D12, A12
<1>5. \A i \in I2 : Alike(A1[i], A[i])
  <2> TAKE i \in I2
  <2>1. CASE i \in DOMAIN r.attr
    <3>1. i \in Inodes /\ A[i] # None
      BY <1>4, <2>1, Zenon
    <3>2. ~Alters(A, r, i)
      BY <1>3, <2>1, <3>1, Excluded, Zenon
    <3> QED BY <1>2, <2>1, <3>1, <3>2, Zenon DEF Alters, Alike
  <2>2. CASE i \notin DOMAIN r.attr
    BY <1>2, <1>4, <2>2, Zenon DEF Alike
  <2> QED BY <2>1, <2>2, Zenon
<1>6. K1 \cap K2 = {}
  BY <1>3, Zenon DEF EntriesLocked
<1>7. \A k \in K1 : Dir(A, k[1]) /\ Alike(A2[k[1]], A[k[1]])
  <2> TAKE k \in K1
  <2>1. Lock(k[1]) \in r.held /\ Dir(A, k[1]) /\ A[k[1]] # None /\ k[1] \in Inodes
    BY <1>3, <1>4, Zenon DEF EntriesLocked, Dir, Keys
  <2>2. ~Alters(A, q, k[1])
    BY <1>3, <2>1, Zenon DEF InodesLocked, Alters
  <2> QED BY <1>2, <2>1, <2>2, Zenon DEF Alters, Alike
<1>8. \A k \in K2 : Dir(A, k[1]) /\ Alike(A1[k[1]], A[k[1]])
  <2> TAKE k \in K2
  <2>1. Lock(k[1]) \in q.held /\ Dir(A, k[1]) /\ A[k[1]] # None /\ k[1] \in Inodes
    BY <1>3, <1>4, Zenon DEF EntriesLocked, Dir, Keys
  <2>2. ~Alters(A, r, k[1])
    BY <1>3, <2>1, Zenon DEF InodesLocked, Alters
  <2> QED BY <1>2, <2>1, <2>2, Zenon DEF Alters, Alike
<1>9. \A i \in Inodes, k \in K1 : i = D[k] \/ i = D1[k] =>
            Alike(A2[i], A[i]) /\ \A l \in K2 : i # D[l] /\ i # D2[l]
  <2> SUFFICES ASSUME NEW i \in Inodes, NEW k \in K1, i = D[k] \/ i = D1[k]
               PROVE  Alike(A2[i], A[i]) /\ \A l \in K2 : i # D[l] /\ i # D2[l]
    BY Zenon
  <2>1. Renames(D, r, i) /\ i \in DOMAIN r.attr
    BY <1>1, <1>3, <1>4, Zenon DEF Renames, EntriesLocked
  <2>2. CASE i \notin I2
    <3>1. \A l \in K2 : i # D[l] /\ i # q.dentry[l]
      BY <1>3, <2>2, Zenon DEF EntriesLocked
    <3> QED BY <1>1, <1>2, <1>4, <2>2, <3>1, Zenon DEF Alike
  <2>3. CASE i \in I2
    <3>1. ~Alters(A, q, i) /\ ~Renames(D, q, i)
      BY <1>3, <2>1, <2>3, Excluded, Zenon
    <3> QED BY <1>1, <1>2, <1>4, <2>3, <3>1, Zenon DEF Alters, Renames, Alike
  <2> QED BY <2>2, <2>3, Zenon
<1>10. \A i \in Inodes, k \in K2 : i = D[k] \/ i = D2[k] => Alike(A1[i], A[i])
  BY <1>1, <1>3, <1>4, <1>5, Zenon DEF EntriesLocked
<1>11. \A i \in Inodes : A[i] # None => /\ A1[i] # None => A1[i].kind = A[i].kind
                                        /\ A2[i] # None => A2[i].kind = A[i].kind
  BY <1>2, <1>3, Zenon DEF InodesLocked
<1>12. \/ \A i \in Inodes : A[i] # None /\ A1[i] # None => A1[i].parent = A[i].parent
       \/ \A i \in Inodes : A[i] # None /\ A2[i] # None => A2[i].parent = A[i].parent
  <2>1. RenameLock \notin r.held \/ RenameLock \notin q.held
    BY Zenon
  <2> QED BY <1>2, <1>3, <2>1, Zenon DEF InodesLocked
<1>13. Namespace(D12, A12)
  <2>1. \A k \in Keys : (k \notin K1 => D1[k] = D[k]) /\ (k \notin K2 => D2[k] = D[k])
    BY <1>1, Zenon
  <2>2. \A i \in Inodes \ I2 : A2[i] = A[i]
    BY <1>2, Zenon
  <2>3. Merged(D1, A1, K2, I2, D2, A2, D12, A12)
    BY <1>1, <1>2, Zenon DEF Merged
  <2>4. /\ {D, D1, D2} \subseteq Dentries /\ {A, A1, A2} \subseteq Attrs
        /\ Namespace(D1, A1) /\ Namespace(D2, A2)
    BY <1>1, <1>2, <1>3, Zenon
  <2>5. Independent(D, A, K1, D1, A1, K2, I2, D2, A2)
    <3> HIDE DEF K1, K2, I2
    <3> QED BY <1>4, <1>5, <1>6, <1>7, <1>8, <1>9, <1>10, <1>11, <1>12, <2>1, <2>2, <2>4,
               ZenonT(30)
            DEF Independent
  <2> QED BY <2>3, <2>5, Compose, Zenon
<1>14. \A k \in K2 : D1[k] = D[k]
  BY <1>1, <1>4, <1>6, Zenon
<1>15. EntriesLocked(D1, A1, q)
  BY <1>3, <1>8, <1>14 DEF EntriesLocked, Dir, Alike, Same
<1>16. InodesLocked(D1, A1, q)
  <2> SUFFICES ASSUME NEW i \in I2, A1[i] # None
               PROVE  /\ Alters(A1, q, i) => Lock(i) \in q.held
                      /\ Alters(A1, q, i) \/ Renames(D1, q, i) =>
                            IF Dir(A1, i) THEN HoldsEntry(D1, q, i) ELSE Lock(i) \in q.held
                      /\ \/ Lock(i) \in q.held
                         \/ q.op = "commit" /\ i = q.ino
                         \/ Dir(A1, i) /\ HoldsEntry(D1, q, i)
                      /\ q.attr[i] # None =>
                            /\ q.attr[i].kind = A1[i].kind
                            /\ q.attr[i].parent # A1[i].parent => RenameLock \in q.held
    BY Zenon DEF InodesLocked
  <2>1. /\ A[i] # None /\ Dir(A1, i) = Dir(A, i) /\ Alters(A1, q, i) = Alters(A, q, i)
        /\ A1[i].kind = A[i].kind /\ A1[i].parent = A[i].parent
    BY <1>5, Zenon DEF Alike, Same, Dir, Alters
  <2>2. Renames(D1, q, i) = Renames(D, q, i) /\ HoldsEntry(D1, q, i) = HoldsEntry(D, q, i)
    BY <1>14, Zenon DEF Renames, HoldsEntry
  <2> QED BY <1>3, <2>1, <2>2, Zenon DEF InodesLocked
<1>17. Deletes(A1, q)
  BY <1>3, <1>5, Zenon DEF Deletes, Alike, Same
<1> QED BY <1>5, <1>13, <1>15, <1>16, <1>17, Zenon DEF Sound, D12, A12, D1, A1
=============================================================================
