------------------------------- MODULE Reader -------------------------------
(***************************************************************************)
(* FileReader: a read is served from the slices of the chunks it crosses   *)
(* and from the staged blocks of those slices, and is cut at the length    *)
(* the reader was last told. The writes are taken at the point where their *)
(* slices are committed (module Writer); what is kept of them is the order *)
(* in which they tell the reader about the new length.                     *)
(***************************************************************************)
EXTENDS ChunkLayout

CONSTANTS
    Clients,        \* requests on different handles of the file
    Chunks,         \* chunk indexes 0 .. n
    Extents,        \* the <<offset, length>> pairs that are written
    Reads,          \* the <<offset, length>> pairs that are read
    MaxCommits      \* bound on the number of writes

ASSUME ReaderConstants ==
    /\ Extents \subseteq Nat \X (Nat \ {0})
    /\ Reads \subseteq Nat \X Nat

VARIABLES
    meta, store,    \* as in Writer
    file,           \* the file as the writes define it, cell by cell
    commits,        \* number of writes so far
    flen,           \* FileWriter.length
    rlen,           \* FileReader.length
    upd,            \* where each write request is on its way to rlen
    last            \* the last read and its answer

vars == <<meta, store, file, commits, flen, rlen, upd, last>>

Offsets == 0 .. Cardinality(Chunks) * ChunkSize - 1
NoRead == [off |-> 0, n |-> 0, len |-> 0, out |-> <<>>]

Init ==
    /\ meta = [c \in Chunks |-> <<>>] /\ store = [k \in {} |-> <<>>]
    /\ file = [p \in Offsets |-> Hole] /\ commits = 0
    /\ flen = 0 /\ rlen = 0 /\ last = NoRead
    /\ upd = [c \in Clients |-> [pc |-> "idle"]]

\* The slices of one write: one per chunk, each cut into blocks of its own.
SlicesOf(parts, n) == [k \in DOMAIN parts |-> [pos |-> parts[k].pos, id |-> 2 * n + k, len |-> parts[k].len]]
KeysOf(s) == {<<s.id, b, ObjectBlockSize(s.len, b)>> : b \in 0 .. (s.len - 1) \div BlockSize}

\* FileWriter::write and the flush of its slices; the length is maximised.
WriteAndFlush(c, e) ==
    LET parts == LocateChunk(e[1], e[2])
        n == commits + 1
        slices == SlicesOf(parts, n)
        keys == UNION {KeysOf(slices[k]) : k \in DOMAIN slices}
    IN /\ upd[c].pc = "idle" /\ commits < MaxCommits
       /\ commits' = n
       /\ meta' = [x \in Chunks |->
                      LET mine == {k \in DOMAIN parts : parts[k].idx = x}
                      IN IF mine = {} THEN meta[x]
                         ELSE Append(meta[x], slices[CHOOSE k \in mine : TRUE])]
       /\ store' = [k \in DOMAIN store \cup keys |->
                      IF k \in keys THEN [x \in 0 .. k[3] - 1 |-> n] ELSE store[k]]
       /\ file' = [p \in Offsets |-> IF e[1] <= p /\ p < e[1] + e[2] THEN n ELSE file[p]]
       /\ flen' = Greater(flen, e[1] + e[2])
       /\ upd' = [upd EXCEPT ![c] = [pc |-> "wrote"]]
       /\ last' = NoRead
       /\ UNCHANGED rlen

\* KisekiVFS::write reads the length of the writer ... (an earlier answer,
\* `last`, is forgotten when the state moves on.)
LoadLength(c) ==
    /\ upd[c].pc = "wrote"
    /\ upd' = [upd EXCEPT ![c] = [pc |-> "loaded", len |-> flen]]
    /\ last' = NoRead
    /\ UNCHANGED <<meta, store, file, commits, flen, rlen>>

\* ... and truncate_reader stores it in every reader.
TruncateReader(c) ==
    /\ upd[c].pc = "loaded"
    /\ rlen' = upd[c].len
    /\ upd' = [upd EXCEPT ![c] = [pc |-> "idle"]]
    /\ last' = NoRead
    /\ UNCHANGED <<meta, store, file, commits, flen>>

\* FileReader::read: chunk by chunk, what was read so far sets the position
\* in the next chunk.
ReadOut(off, n) ==
    IF off >= rlen \/ n = 0 THEN <<>>
    ELSE LET want  == Lesser(n, rlen - off)
             first == ChunkIdx(off)
             final == ChunkIdx(off + want - 1)
             upTo[k \in 0 .. final - first] ==
                LET done == IF k = 0 THEN <<>> ELSE upTo[k - 1]
                    pos  == ChunkPos(off + Len(done))
                    can  == Lesser(ChunkSize - pos, want - Len(done))
                IN done \o [i \in 1 .. can |-> ReadCell(store, meta[first + k], pos + i - 1)]
         IN upTo[final - first]

Read(r) ==
    /\ last' = [off |-> r[1], n |-> r[2], len |-> rlen, out |-> ReadOut(r[1], r[2])]
    /\ UNCHANGED <<meta, store, file, commits, flen, rlen, upd>>

Next ==
    \/ \E c \in Clients, e \in Extents : WriteAndFlush(c, e)
    \/ \E c \in Clients : LoadLength(c) \/ TruncateReader(c)
    \/ \E r \in Reads : Read(r)

Spec == Init /\ [][Next]_vars
-----------------------------------------------------------------------------
\* The slices are inside their chunks, the reader never sees a length the
\* file did not have.
TypeOK ==
    /\ \A c \in Chunks : \A i \in DOMAIN meta[c] : meta[c][i].pos + meta[c][i].len <= ChunkSize
    /\ rlen <= flen

\* A read returns, for every position up to the end of the reader, what the
\* last write to that position wrote, across chunk boundaries, overlapping
\* slices, and blocks that are cut at the end of a slice.
ReadsLastWriter ==
    LET r == last
        have == IF r.off >= r.len THEN 0 ELSE Lesser(r.n, r.len - r.off)
    IN r.out = [i \in 1 .. have |-> file[r.off + i - 1]]
=============================================================================
