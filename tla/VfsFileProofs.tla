--------------------------- MODULE VfsFileProofs ---------------------------
(***************************************************************************)
(* The handles of a file from open to release: what a step can do to the   *)
(* requests, to the table and to the handles' writers (Effect), and the    *)
(* invariants that need only that: a handle is opened and released once    *)
(* (Once), in this order (Existing), keeps its place and its writer while  *)
(* it is used (Held), is locked by who changes the file (Locked), and is   *)
(* counted by the metadata (Counting). Module VfsWriterProofs adds the     *)
(* invariant of the writer they share and draws the conclusions.           *)
(***************************************************************************)
EXTENDS VfsLockProofs

\* Request x opens, or releases, handle h.
Opens(x, h) == req[x].kind = "open" /\ req[x].h = h
Releases(x, h) == req[x].kind = "release" /\ req[x].h = h

\* A write or a flush that is under way on handle h.
Uses(x, h) == req[x].kind \in {"write", "flush"} /\ req[x].h = h /\ pc[x] # "done"

\* What one step does to the requests: the others stay as they are, and the
\* one that moves keeps its kind and its handle or is answered and forgotten.
Own(r) ==
    \A x \in Requests \ {r} :
        req'[x] = req[x] /\ pc'[x] = pc[x] /\ cur'[x] = cur[x] /\ guards'[x] = guards[x]

Keeps(r) ==
    \/ /\ req'[r] = None /\ pc'[r] = "done"
       /\ req[r].kind \notin {"open", "release"}
    \/ /\ req'[r].kind = req[r].kind /\ req'[r].h = req[r].h
       /\ req[r].kind = "truncate" => req'[r].all = req[r].all

\* What it does to the table and to the writers of the handles.
Table(r) ==
    \/ table' = table
    \/ pc[r] = "oinsert" /\ pc'[r] = "done" /\ table' = table \cup {req[r].h}
    \/ pc[r] = "lremove" /\ pc'[r] = "drain" /\ table' = table \ {req[r].h}

Refs(r) ==
    \/ ref' = ref
    \/ pc[r] = "owriter" /\ pc'[r] = "oinsert" /\ ref' = [ref EXCEPT ![req[r].h] = entry']
    \/ pc[r] = "lclose" /\ pc'[r] = "done" /\ ref' = [ref EXCEPT ![req[r].h] = 0]

\* Where a release, an open and a truncate may go.
Way(r) ==
    /\ pc'[r] \in {"lflush", "lmeta", "lremove"} =>
          pc[r] \in {"lflush", "lmeta"} \/ (pc[r] = "drain3" /\ cur[r] \in table)
    /\ pc'[r] \in {"lfinish", "lclose"} =>
          pc[r] = "lfinish" \/ (pc[r] = "lreader" /\ ref[req[r].h] # 0)
    /\ pc[r] \in {"lreader", "lfinish", "lclose"} => pc'[r] \in {"lfinish", "lclose", "done"}
    /\ pc[r] = "lremove" => req[r].h \notin table'
    /\ pc'[r] # "open"
    /\ cur'[r] = cur[r] \/ pc'[r] \in {"done", "wnotify"} \/ pc[r] = "tnext"

\* All that serving a request does to these.
Effect(r) == pc[r] \notin {"idle", "done"} /\ Own(r) /\ Keeps(r) /\ Table(r) /\ Refs(r) /\ Way(r)

\* A request of one kind: the fields it has.
LEMMA KindOf ==
    ASSUME RequestsOK, NEW r \in Requests
    PROVE  /\ pc[r] \in ReleaseSteps => ReleaseShape(req[r])
           /\ pc[r] \in {"olen", "otell", "oreader", "owriter", "oinsert"} => OpenedShape(req[r])
           /\ pc[r] \in {"tnext", "tmeta", "tlen", "treaders"} => TruncateShape(req[r])
           /\ pc[r] \in {"wrote", "wlength"} => WriteShape(req[r])
           /\ pc[r] \in ReadSteps => ReadShape(req[r])
           /\ pc[r] = "open" => OpenShape(req[r])
           /\ pc[r] \in LockSteps => WriteShape(req[r]) \/ FlushShape(req[r]) \/ TruncateShape(req[r])
BY Zenon DEF RequestsOK, Fits, ReadSteps, LockSteps, ReleaseSteps, Waiting

\* The steps of the lock.
LEMMA LockEffect ==
    ASSUME LockInv, RequestsOK, NEW r \in Requests, LockStep(r), UNCHANGED fileVars,
           req' = IF pc'[r] = "done" THEN [req EXCEPT ![r] = None] ELSE req
    PROVE  Effect(r)
<1>1. pc[r] \notin {"idle", "done"} /\ Own(r)
  <2> USE DEF LockInv, DataOK, RequestsOK, Own, Goto
  <2>1. \A x \in Requests \ {r} : req'[x] = req[x]
    BY Zenon
  <2>2. pc[r] \notin {"idle", "done"} /\ \A x \in Requests \ {r} : pc'[x] = pc[x]
    BY Zenon DEF LockStep, Park, Woken, ReadCheckWaiters, ReadCheckExclusive,
         ReadEnter, ReadRelease, ReadNotify, WriteAnnounce, WriteCheckReaders, WriteCheckExclusive,
         WriteCas, WriteLeave, WriteRelease, WriteNotify
  <2>3. \A x \in Requests \ {r} : cur'[x] = cur[x] /\ guards'[x] = guards[x]
    BY Zenon DEF LockStep, Park, Woken, ReadCheckWaiters, ReadCheckExclusive,
         ReadEnter, ReadRelease, ReadNotify, WriteAnnounce, WriteCheckReaders, WriteCheckExclusive,
         WriteCas, WriteLeave, WriteRelease, WriteNotify
  <2> QED BY <2>1, <2>2, <2>3, Zenon
<1>2. /\ pc'[r] = "done" => pc[r] \in {"rnotify", "wdrop"}
      /\ pc[r] \notin {"lremove", "lreader", "lfinish", "lclose"}
      /\ pc'[r] \notin {"lflush", "lmeta", "lremove", "lfinish", "lclose", "open"}
  BY DEF LockInv, DataOK, Goto, LockStep, Park, Woken, ReadCheckWaiters, ReadCheckExclusive,
         ReadEnter, ReadRelease, ReadNotify, WriteAnnounce, WriteCheckReaders, WriteCheckExclusive,
         WriteCas, WriteLeave, WriteRelease, WriteNotify
<1>3. cur'[r] = cur[r] \/ pc'[r] \in {"done", "wnotify"}
  BY Zenon DEF LockInv, DataOK, Goto, LockStep, Park, Woken, ReadCheckWaiters, ReadCheckExclusive,
         ReadEnter, ReadRelease, ReadNotify, WriteAnnounce, WriteCheckReaders, WriteCheckExclusive,
         WriteCas, WriteLeave, WriteRelease, WriteNotify
<1>4. Keeps(r)
  <2>1. CASE pc'[r] = "done"
    <3>1. ReadShape(req[r]) \/ WriteShape(req[r]) \/ FlushShape(req[r]) \/ TruncateShape(req[r])
      BY <1>2, <2>1, KindOf, Zenon DEF ReadSteps, LockSteps
    <3>2. req[r].kind \notin {"open", "release"}
      BY <3>1 DEF ReadShape, WriteShape, FlushShape, TruncateShape
    <3> QED BY <2>1, <3>2, Zenon DEF Keeps, RequestsOK
  <2>2. CASE pc'[r] # "done"
    BY <2>2, Zenon DEF Keeps
  <2> QED BY <2>1, <2>2, Zenon
<1> QED BY <1>1, <1>2, <1>3, <1>4, Zenon DEF Effect, Table, Refs, Way, fileVars

\* A step outside the lock that remembers nothing and leaves the table and
\* the handles' writers alone.
LEMMA PlainEffect ==
    ASSUME LockInv, RequestsOK, NEW r \in Requests, NEW a, NEW b, Step(r, a, b),
           req' = req, table' = table, ref' = ref, 
           a \notin {"idle", "done", "lremove", "lreader", "lfinish", "lclose"},
           b \notin {"lflush", "lmeta", "lremove", "lfinish", "lclose", "open"}
    PROVE  Effect(r)
BY Zenon DEF Effect, Own, Keeps, Table, Refs, Way, Step, Goto, LockInv, DataOK

\* read, write, flush and truncate, but for the two that remember something.
LEMMA AccessEffect ==
    ASSUME LockInv, RequestsOK, NEW r \in Requests,
           \/ ReadFlush(r) \/ ReadFlushFails(r) \/ ReadData(r)
           \/ WriteData(r) \/ WriteFails(r) \/ WriteTruncateReader(r) \/ FlushWriter(r)
           \/ TruncateLocked(r) \/ TruncateFlush(r) \/ TruncateMeta(r) \/ TruncateMetaFails(r)
           \/ TruncateSetLength(r) \/ TruncateReaders(r)
    PROVE  Effect(r)
<1> DEFINE a == pc[r]
           b == pc'[r]
<1>1. /\ Step(r, a, b) /\ req' = req /\ table' = table /\ ref' = ref
      /\ a \in {"rlocked", "rflushed", "wlocked", "wlength", "tnext", "tmeta", "tlen", "treaders"}
      /\ b \in {"rflushed", "rdrop", "wrote", "wdrop", "tnext", "tmeta", "tlen", "treaders"}
  BY Zenon DEF ReadFlush, ReadFlushFails, ReadData, WriteData, WriteFails, WriteTruncateReader, FlushWriter,
         TruncateLocked, TruncateFlush, TruncateMeta, TruncateMetaFails, TruncateSetLength, TruncateReaders,
         Step, Goto, fileVars, LockInv, DataOK
<1> HIDE DEF a, b
<1> QED BY <1>1, PlainEffect, SMTT(20)

\* A request that remembers something new.
LEMMA NewEffect ==
    ASSUME LockInv, RequestsOK, NEW r \in Requests, NEW q, NEW b, NEW c,
           pc[r] \notin {"idle", "done", "lremove", "lreader", "lfinish", "lclose"},
           pc' = [pc EXCEPT ![r] = b], cur' = [cur EXCEPT ![r] = c], guards' = guards,
           req' = [req EXCEPT ![r] = q],
           q.kind = req[r].kind, q.h = req[r].h, req[r].kind = "truncate" => q.all = req[r].all,
           table' = table, ref' = ref, c = cur[r] \/ pc[r] = "tnext",
           b \notin {"lflush", "lmeta", "lremove", "lfinish", "lclose", "open"}
    PROVE  Effect(r)
BY Zenon DEF Effect, Own, Keeps, Table, Refs, Way, LockInv, DataOK, RequestsOK

\* write remembers a length.
LEMMA WriteGetLengthEffect ==
    ASSUME LockInv, RequestsOK, NEW r \in Requests, WriteGetLength(r) PROVE Effect(r)
<1> DEFINE n == fw[ref[req[r].h]].len
           q == [kind |-> "write", h |-> req[r].h, end |-> n]
<1>1. /\ pc[r] = "wrote" /\ pc' = [pc EXCEPT ![r] = "wlength"] /\ cur' = [cur EXCEPT ![r] = cur[r]]
      /\ guards' = guards /\ table' = table /\ ref' = ref /\ req' = [req EXCEPT ![r].end = n]
  BY Zenon DEF WriteGetLength, Step, Goto, fileVars, LockInv, DataOK
<1>2. WriteShape(req[r])
  BY <1>1, KindOf, Zenon
<1>3. [req[r] EXCEPT !.end = n] = q
  BY <1>2, EndChanged, Zenon DEF WriteShape
<1>4. q.kind = req[r].kind /\ q.h = req[r].h /\ req[r].kind # "truncate"
  BY <1>2 DEF WriteShape
<1> HIDE DEF n, q
<1>5. req' = [req EXCEPT ![r] = q]
  BY <1>1, <1>3, Zenon
<1> QED BY <1>1, <1>4, <1>5, NewEffect, Zenon

\* truncate remembers the handles it has still to lock.
LEMMA TruncateNextEffect ==
    ASSUME LockInv, RequestsOK, NEW r \in Requests, TruncateNext(r)
    PROVE  /\ Effect(r)
           /\ \E h \in req[r].rest :
                /\ TruncateShape(req[r]) /\ h \in Handles
                /\ req'[r].rest = req[r].rest \ {h} /\ guards' = guards /\ ref' = ref
                /\ \/ ref[h] = 0 /\ pc'[r] \in {"wdrop", "tnext"} /\ cur'[r] = cur[r]
                   \/ pc'[r] = "announce" /\ cur'[r] = h
<1>1. PICK h \in req[r].rest :
        /\ pc[r] = "tnext" /\ table' = table /\ ref' = ref
        /\ req' = [req EXCEPT ![r].rest = req[r].rest \ {h}]
        /\ IF ref[h] # 0 THEN Goto(r, "announce") /\ cur' = [cur EXCEPT ![r] = h]
           ELSE Goto(r, IF req[r].h = h THEN "wdrop" ELSE "tnext") /\ UNCHANGED cur
        /\ guards' = guards
  BY Zenon DEF TruncateNext, fileVars
<1> DEFINE q == [kind |-> "truncate", h |-> req[r].h, size |-> req[r].size, all |-> req[r].all,
                 rest |-> req[r].rest \ {h}]
           b == pc'[r]
           c == cur'[r]
<1>2. TruncateShape(req[r]) /\ h \in Handles
  BY <1>1, KindOf, Zenon DEF TruncateShape
<1>3. [req[r] EXCEPT !.rest = req[r].rest \ {h}] = q
  BY <1>2, RestChanged, Zenon DEF TruncateShape
<1>4. /\ pc' = [pc EXCEPT ![r] = b] /\ cur' = [cur EXCEPT ![r] = c]
      /\ \/ ref[h] = 0 /\ b \in {"wdrop", "tnext"} /\ c = cur[r]
         \/ b = "announce" /\ c = h
  BY <1>1, Zenon DEF Goto, LockInv, DataOK
<1>5. q.kind = req[r].kind /\ q.h = req[r].h /\ q.all = req[r].all /\ q.rest = req[r].rest \ {h}
  BY <1>2 DEF TruncateShape
<1> HIDE DEF b, c, q
<1>6. req' = [req EXCEPT ![r] = q]
  BY <1>1, <1>3, Zenon
<1>7. Effect(r)
  BY <1>1, <1>4, <1>5, <1>6, NewEffect, Zenon
<1>8. req'[r] = q
  BY <1>6, Zenon DEF RequestsOK
<1> QED BY <1>1, <1>2, <1>4, <1>5, <1>7, <1>8, Zenon DEF b, c

\* open remembers a length.
LEMMA OpenLengthEffect ==
    ASSUME LockInv, RequestsOK, NEW r \in Requests, OpenInode(r) \/ OpenLength(r) PROVE Effect(r)
<1>1. CASE OpenInode(r)
  <2> DEFINE q == [kind |-> "open", h |-> req[r].h, len |-> mlen]
  <2>1. /\ pc[r] = "open" /\ pc' = [pc EXCEPT ![r] = "olen"] /\ cur' = [cur EXCEPT ![r] = cur[r]]
        /\ guards' = guards /\ table' = table /\ ref' = ref /\ req' = [req EXCEPT ![r] = q]
    <3>1. pc[r] = "open" /\ pc' = [pc EXCEPT ![r] = "olen"] /\ UNCHANGED <<cur, guards, table, ref>>
      BY <1>1, Zenon DEF OpenInode, Step, Goto
    <3>2. req' = [req EXCEPT ![r] = q]
      BY <1>1, Zenon DEF OpenInode
    <3> HIDE DEF q
    <3> QED BY <3>1, <3>2, Zenon DEF LockInv, DataOK
  <2>2. q.kind = req[r].kind /\ q.h = req[r].h /\ req[r].kind # "truncate"
    <3>1. OpenShape(req[r])
      BY <2>1, KindOf, Zenon
    <3> QED BY <3>1 DEF OpenShape
  <2> HIDE DEF q
  <2> QED BY <2>1, <2>2, NewEffect, Zenon
<1>2. CASE OpenLength(r)
  <2>0. PICK n : req' = [req EXCEPT ![r].len = n]
    BY <1>2, Zenon DEF OpenLength
  <2>1. PICK b \in {"otell", "oreader"} :
        /\ pc[r] = "olen" /\ pc' = [pc EXCEPT ![r] = b] /\ cur' = [cur EXCEPT ![r] = cur[r]]
        /\ guards' = guards /\ table' = table /\ ref' = ref
    BY <1>2, Zenon DEF OpenLength, Step, Goto, fileVars, LockInv, DataOK
  <2> DEFINE q == [kind |-> "open", h |-> req[r].h, len |-> n]
  <2>2. OpenedShape(req[r])
    BY <2>1, KindOf, Zenon
  <2>3. [req[r] EXCEPT !.len = n] = q
    BY <2>2, LenChanged, Zenon DEF OpenedShape
  <2>4. q.kind = req[r].kind /\ q.h = req[r].h /\ req[r].kind # "truncate"
    BY <2>2 DEF OpenedShape
  <2> HIDE DEF q
  <2>5. req' = [req EXCEPT ![r] = q]
    BY <2>0, <2>3, ZenonT(30)
  <2> QED BY <2>1, <2>4, <2>5, NewEffect, Zenon
<1> QED BY <1>1, <1>2, Zenon

\* The other steps of open.
LEMMA OpenEffect ==
    ASSUME LockInv, RequestsOK, NEW r \in Requests,
           \/ OpenTellReaders(r) \/ OpenReader(r) \/ OpenWriter(r) \/ OpenRefused(r) \/ OpenInsert(r)
    PROVE  Effect(r)
<1> USE DEF Effect, Own, Keeps, Table, Refs, Way, Step, Goto, LockInv, DataOK, fileVars
<1>1. CASE OpenTellReaders(r)
  BY <1>1, Zenon DEF OpenTellReaders
<1>2. CASE OpenReader(r)
  BY <1>2, Zenon DEF OpenReader
<1>3. CASE OpenWriter(r)
  <2>1. /\ pc[r] = "owriter" /\ pc' = [pc EXCEPT ![r] = "oinsert"]
        /\ UNCHANGED <<cur, guards, req, table>>
        /\ ref' = [ref EXCEPT ![req[r].h] = entry']
    BY <1>3, Zenon DEF OpenWriter
  <2> QED BY <2>1, Zenon
<1>4. CASE OpenRefused(r)
  BY <1>4, Zenon DEF OpenRefused
<1>5. CASE OpenInsert(r)
  BY <1>5, SMTT(20) DEF OpenInsert
<1> QED BY <1>1, <1>2, <1>3, <1>4, <1>5, Zenon

\* The steps of release.
LEMMA ReleaseEffect ==
    ASSUME LockInv, RequestsOK, NEW r \in Requests,
           \/ ReleaseDrain(r) \/ ReleaseFlush(r) \/ ReleaseMeta(r) \/ ReleaseRemove(r)
           \/ ReleaseReader(r) \/ ReleaseFinish(r) \/ ReleaseWriter(r)
    PROVE  Effect(r)
<1> USE DEF Effect, Own, Keeps, Table, Refs, Way, Step, Goto, LockInv, DataOK, fileVars
<1>1. CASE ReleaseDrain(r)
  <2>1. PICK b \in {"drain2", "drain3", "dpark", "lflush", "lreader"} :
          /\ pc[r] \in {"drain", "drain2", "drain3"} /\ pc' = [pc EXCEPT ![r] = b]
          /\ b = "lflush" => pc[r] = "drain3" /\ cur[r] \in table
          /\ UNCHANGED <<cur, guards, req, table, ref>>
    BY <1>1, Zenon DEF ReleaseDrain, DrainCheck
  <2> QED BY <2>1, Zenon
<1>2. CASE ReleaseFlush(r) \/ ReleaseMeta(r) \/ ReleaseFinish(r)
  <2>1. PICK b \in {"lmeta", "lremove", "lclose", "done"} :
          /\ pc[r] \in {"lflush", "lmeta"} \/ (pc[r] = "lfinish" /\ b = "lclose")
          /\ b = "lclose" => pc[r] = "lfinish"
          /\ pc' = [pc EXCEPT ![r] = b] /\ UNCHANGED <<cur, guards, req, table, ref>>
    BY <1>2, Zenon DEF ReleaseFlush, ReleaseMeta, ReleaseFinish
  <2>2. pc'[r] = b /\ cur'[r] = cur[r]
    BY <2>1, Zenon
  <2>3. Way(r)
    BY <2>1, <2>2, Zenon
  <2>4. Own(r)
    BY <2>1, Zenon
  <2> QED BY <2>1, <2>3, <2>4, Zenon
<1>4. CASE ReleaseRemove(r)
  BY <1>4, Zenon DEF ReleaseRemove
<1>5. CASE ReleaseReader(r)
  BY <1>5, Zenon DEF ReleaseReader
<1>3. CASE ReleaseWriter(r)
  <2>1. /\ pc[r] = "lclose" /\ pc' = [pc EXCEPT ![r] = "done"]
        /\ UNCHANGED <<cur, guards, req, table>>
        /\ ref' = [ref EXCEPT ![req[r].h] = 0]
    BY <1>3, Zenon DEF ReleaseWriter
  <2> QED BY <2>1, Zenon
<1> QED BY <1>1, <1>2, <1>3, <1>4, <1>5, Zenon

\* Every step that serves a request is of this form.
LEMMA ServeEffect == ASSUME LockInv, RequestsOK, NEW r \in Requests, Serve(r) PROVE Effect(r)
BY LockEffect, AccessEffect, WriteGetLengthEffect, TruncateNextEffect, OpenLengthEffect, OpenEffect,
   ReleaseEffect, Zenon DEF Serve
-----------------------------------------------------------------------------
(* A handle is opened once and released once.                               *)

\* The open of h is over, or never happened because h was open at the start.
Settled(h) == h \in Opened \/ \E x \in Requests : Opens(x, h) /\ pc[x] = "done"

\* h has been given its writer, if it was to have one.
Equipped(h) == h \in Opened \/ \E x \in Requests : Opens(x, h) /\ pc[x] \in {"oinsert", "done"}

\* No handle is opened or released twice.
Once ==
    /\ \A x, y \in Requests, h \in Handles : Opens(x, h) /\ Opens(y, h) => x = y
    /\ \A x, y \in Requests, h \in Handles : Releases(x, h) /\ Releases(y, h) => x = y
    /\ \A x \in Requests, h \in Handles : Opens(x, h) => h \notin Opened

\* What is in the table, released or truncated has been opened; only what
\* has its writer uses one.
Existing ==
    /\ \A h \in table : Settled(h)
    /\ \A x \in Requests, h \in Handles : Releases(x, h) => Settled(h)
    /\ \A x \in Requests :
         req[x].kind = "truncate" => req[x].all \subseteq Handles /\ \A h \in req[x].all : Settled(h)
    /\ ref = [h \in Handles |-> ref[h]]
    /\ \A h \in Handles : ref[h] # 0 => Equipped(h)

\* A release works on the handle it names, which is in the table until it
\* takes it out and keeps its writer until the last step.
Held ==
    /\ \A x \in Requests, h \in Handles :
         Releases(x, h) =>
           /\ pc[x] \in {"drain", "drain2", "drain3", "dpark", "dwait"} => cur[x] = h
           /\ pc[x] \in {"lflush", "lmeta", "lremove"} => cur[x] = h /\ h \in table
           /\ pc[x] \in {"lfinish", "lclose"} => ref[h] # 0
    /\ \A x \in Requests, h \in Handles :
         Uses(x, h) => ref[h] # 0 /\ \A y \in Requests : ~Releases(y, h)

\* The handles whose open reference was taken and not given back.
Taken(h) == h \in Opened \/ \E x \in Requests : Opens(x, h) /\ pc[x] # "open"
Back(h) ==
    \E x \in Requests : /\ Releases(x, h)
                        /\ pc[x] \in {"lremove", "lreader", "lfinish", "lclose", "done"} \/ h \notin table
Counted == {h \in Handles : Taken(h) /\ ~Back(h)}
Counting == opens \in Int /\ opens >= Cardinality(Counted)

\* A write has the lock of its handle, and a truncate that of every handle
\* with a writer that it has passed.
Asking == {"announce", "wcheck", "wcheck2", "wpark", "wwait", "cas"}
Locked ==
    /\ \A x \in Requests, h \in Handles :
         Uses(x, h) => /\ pc[x] \in Asking => cur[x] = h
                       /\ pc[x] \in {"leave", "wlocked", "wrote", "wlength"} => HoldsWrite(x, h)
    /\ \A x \in Requests :
         req[x].kind = "truncate" =>
           /\ pc[x] \in {"tmeta", "tlen", "treaders"} => req[x].rest = {}
           /\ pc[x] \notin {"wdrop", "wnotify"} =>
                \A h \in req[x].all \ req[x].rest :
                    ref[h] # 0 => HoldsWrite(x, h) \/ (cur[x] = h /\ pc[x] \in Asking)

\* Opens that are over stay over.
LEMMA SettledStays ==
    ASSUME LockInv, RequestsOK, NEW r \in Requests, Effect(r), NEW h, Settled(h)
    PROVE  Settled(h)'
<1>1. CASE h \in Opened
  BY <1>1, Zenon DEF Settled
<1>2. CASE \E x \in Requests : Opens(x, h) /\ pc[x] = "done"
  <2>1. PICK x \in Requests : Opens(x, h) /\ pc[x] = "done"
    BY <1>2, Zenon
  <2>2. x # r /\ req'[x] = req[x] /\ pc'[x] = pc[x]
    BY <2>1, Zenon DEF Effect, Own
  <2>3. Opens(x, h)' /\ pc'[x] = "done"
    BY <2>1, <2>2, Zenon DEF Opens
  <2> QED BY <2>3, Zenon DEF Settled
<1> QED BY <1>1, <1>2, Zenon DEF Settled

\* A handle keeps the writer it was given.
LEMMA EquippedStays ==
    ASSUME LockInv, RequestsOK, NEW r \in Requests, Effect(r), NEW h, Equipped(h),
           pc[r] = "oinsert" => pc'[r] = "done"
    PROVE  Equipped(h)'
<1>1. CASE h \in Opened
  BY <1>1, Zenon DEF Equipped
<1>2. CASE \E x \in Requests : Opens(x, h) /\ pc[x] \in {"oinsert", "done"}
  <2>1. PICK x \in Requests : Opens(x, h) /\ pc[x] \in {"oinsert", "done"}
    BY <1>2, Zenon
  <2>2. CASE x # r
    <3>1. Opens(x, h)' /\ pc'[x] \in {"oinsert", "done"}
      BY <2>1, <2>2, Zenon DEF Effect, Own, Opens
    <3> QED BY <3>1, Zenon DEF Equipped
  <2>3. CASE x = r
    <3>1. Opens(x, h)' /\ pc'[x] = "done"
      BY <2>1, <2>3, Zenon DEF Effect, Keeps, Opens
    <3> QED BY <3>1, Zenon DEF Equipped
  <2> QED BY <2>2, <2>3, Zenon
<1> QED BY <1>1, <1>2, Zenon DEF Equipped

\* Serving a request opens and releases no other handle.
LEMMA SameNames ==
    ASSUME LockInv, RequestsOK, NEW r \in Requests, Effect(r), NEW x \in Requests, NEW h
    PROVE  (Opens(x, h)' <=> Opens(x, h)) /\ (Releases(x, h)' <=> Releases(x, h))
BY DEF Effect, Own, Keeps, Opens, Releases, None

\* Only open goes from oinsert, and only to the end.
LEMMA InsertEnds ==
    ASSUME LockInv, RequestsOK, NEW r \in Requests, Serve(r), pc[r] = "oinsert" PROVE pc'[r] = "done"
<1>1. OpenInsert(r)
  BY Zenon DEF Serve, Step, LockStep, Park, Woken, ReadCheckWaiters, ReadCheckExclusive,
         ReadEnter, ReadRelease, ReadNotify, WriteAnnounce, WriteCheckReaders, WriteCheckExclusive,
         WriteCas, WriteLeave, WriteRelease, WriteNotify, ReadFlush, ReadFlushFails, ReadData,
         WriteData, WriteFails, WriteGetLength, WriteTruncateReader, FlushWriter, TruncateNext,
         TruncateLocked, TruncateFlush, TruncateMeta, TruncateMetaFails, TruncateSetLength,
         TruncateReaders, OpenInode, OpenLength, OpenTellReaders, OpenReader, OpenWriter,
         OpenRefused, ReleaseDrain, DrainCheck, ReleaseFlush, ReleaseMeta, ReleaseRemove,
         ReleaseReader, ReleaseFinish, ReleaseWriter
<1> QED BY <1>1, SMTT(20) DEF OpenInsert, Step, Goto, LockInv, DataOK

\* Serving a request keeps opens and releases unique.
LEMMA ServeOnce == ASSUME LockInv, RequestsOK, Once, NEW r \in Requests, Effect(r) PROVE Once'
BY SameNames, Zenon DEF Once

\* ... and handles come to exist before they are named.
LEMMA ServeExisting ==
    ASSUME LockInv, RequestsOK, Once, Existing, NEW r \in Requests, Serve(r), Effect(r)
    PROVE  Existing'
<1>1. \A h : Settled(h) => Settled(h)'
  BY SettledStays, Zenon
<1>2. \A h : Equipped(h) => Equipped(h)'
  BY EquippedStays, InsertEnds, Zenon
<1>3. \A h \in table' : Settled(h)'
  <2> SUFFICES ASSUME NEW h \in table' PROVE Settled(h)'
    BY Zenon
  <2>1. CASE h \in table
    BY <1>1, <2>1, Zenon DEF Existing
  <2>2. CASE h \notin table
    <3>1. pc[r] = "oinsert" /\ pc'[r] = "done" /\ h = req[r].h
      BY <2>2, Zenon DEF Effect, Table
    <3>2. Opens(r, h)
      <4>1. OpenedShape(req[r])
        BY <3>1, KindOf, Zenon
      <4> QED BY <3>1, <4>1 DEF OpenedShape, Opens
    <3>3. Opens(r, h)'
      BY <3>2, SameNames, Zenon
    <3> QED BY <3>1, <3>3, Zenon DEF Settled
  <2> QED BY <2>1, <2>2, Zenon
<1>4. \A x \in Requests, h \in Handles : Releases(x, h)' => Settled(h)'
  BY <1>1, SameNames, Zenon DEF Existing
<1>5. \A x \in Requests :
        req'[x].kind = "truncate" => req'[x].all \subseteq Handles /\ \A h \in req'[x].all : Settled(h)'
  <2> SUFFICES ASSUME NEW x \in Requests, req'[x].kind = "truncate"
               PROVE  req[x].kind = "truncate" /\ req'[x].all = req[x].all
    BY <1>1, Zenon DEF Existing
  <2> QED BY DEF Effect, Own, Keeps, None
<1>6. ref' = [h \in Handles |-> ref'[h]]
  BY Zenon DEF Effect, Refs, Existing
<1>7. \A h \in Handles : ref'[h] # 0 => Equipped(h)'
  <2> SUFFICES ASSUME NEW h \in Handles, ref'[h] # 0 PROVE Equipped(h)'
    BY Zenon
  <2>1. CASE ref[h] # 0
    BY <1>2, <2>1, Zenon DEF Existing
  <2>2. CASE ref[h] = 0
    <3>1. pc[r] = "owriter" /\ pc'[r] = "oinsert" /\ h = req[r].h
      BY <2>2, Zenon DEF Effect, Refs, Existing
    <3>2. Opens(r, h)
      <4>1. OpenedShape(req[r])
        BY <3>1, KindOf, Zenon
      <4> QED BY <3>1, <4>1 DEF OpenedShape, Opens
    <3>3. Opens(r, h)'
      BY <3>2, SameNames, Zenon
    <3> QED BY <3>1, <3>3, Zenon DEF Equipped
  <2> QED BY <2>1, <2>2, Zenon
<1> QED BY <1>3, <1>4, <1>5, <1>6, <1>7, Zenon DEF Existing

\* An open that is under way is not over.
LEMMA OpeningIsNew ==
    ASSUME RequestsOK, Once, NEW r \in Requests, NEW h \in Handles, Opens(r, h),
           pc[r] \notin {"oinsert", "done"}
    PROVE  ~Equipped(h) /\ ~Settled(h)
BY Zenon DEF Once, Equipped, Settled

\* The step of another request does not take a handle away.
LEMMA ServeHeld ==
    ASSUME LockInv, RequestsOK, Once, Existing, Held, NEW r \in Requests, Serve(r), Effect(r),
           entry' \in Nat
    PROVE  Held'
<1>1. \A h \in Handles : ref[h] # 0 /\ ref'[h] = 0 => pc[r] = "lclose" /\ pc'[r] = "done" /\ Releases(r, h)
  <2> SUFFICES ASSUME NEW h \in Handles, ref[h] # 0, ref'[h] = 0
               PROVE  pc[r] = "lclose" /\ pc'[r] = "done" /\ Releases(r, h)
    BY Zenon
  <2>1. CASE pc[r] = "lclose"
    <3>1. ReleaseShape(req[r])
      BY <2>1, KindOf, Zenon DEF ReleaseSteps
    <3> QED BY <2>1, <3>1 DEF Effect, Refs, Existing, Releases, ReleaseShape
  <2>2. CASE pc[r] = "owriter"
    <3>1. OpenedShape(req[r])
      BY <2>2, KindOf, Zenon
    <3>2. ref[req[r].h] = 0
      BY <2>2, <3>1, OpeningIsNew DEF Existing, Opens, OpenedShape
    <3> QED BY <2>2, <3>2, Zenon DEF Effect, Refs, Existing
  <2> QED BY <2>1, <2>2, Zenon DEF Effect, Refs
<1>2. \A h \in Handles : h \in table /\ h \notin table' => pc[r] = "lremove" /\ pc'[r] = "drain" /\ Releases(r, h)
  <2>1. pc[r] = "lremove" => ReleaseShape(req[r])
    BY KindOf, Zenon DEF ReleaseSteps
  <2> QED BY <2>1 DEF Effect, Table, Releases, ReleaseShape
<1>3. ASSUME NEW x \in Requests, NEW h \in Handles, Releases(x, h)'
      PROVE  /\ pc'[x] \in {"drain", "drain2", "drain3", "dpark", "dwait"} => cur'[x] = h
             /\ pc'[x] \in {"lflush", "lmeta", "lremove"} => cur'[x] = h /\ h \in table'
             /\ pc'[x] \in {"lfinish", "lclose"} => ref'[h] # 0
  <2>1. Releases(x, h)
    BY <1>3, SameNames, Zenon
  <2>2. CASE x # r
    <3>1. ~Releases(r, h)
      BY <2>1, <2>2, Zenon DEF Once
    <3>2. pc'[x] = pc[x] /\ cur'[x] = cur[x]
      BY <2>2, Zenon DEF Effect, Own
    <3> QED BY <1>1, <1>2, <2>1, <3>1, <3>2, Zenon DEF Held
  <2>3. CASE x = r
    <3>1. pc[r] \in ReleaseSteps
      BY <2>1, <2>3 DEF RequestsOK, Fits, Releases, None, ReadShape, WriteShape, FlushShape,
         TruncateShape, OpenShape, OpenedShape, Effect
    <3>2. pc'[r] \in {"done", "wnotify"} \/ cur'[r] = cur[r]
      BY <3>1, Zenon DEF Effect, Way, ReleaseSteps
    <3>3. req[r].h = h
      BY <2>1, <2>3, Zenon DEF Releases
    <3>4. CASE pc'[r] \in {"drain", "drain2", "drain3", "dpark", "dwait"}
      <4>1. cur[r] = h
        BY <2>1, <2>3, <3>1, <3>4, SMTT(20) DEF Effect, Way, Held, ReleaseSteps
      <4> QED BY <2>3, <3>2, <3>4, <4>1, SMTT(20)
    <3>5. CASE pc'[r] \in {"lflush", "lmeta", "lremove"}
      <4>1. cur[r] = h /\ h \in table /\ pc[r] \in {"lflush", "lmeta", "drain3"}
        BY <2>1, <2>3, <3>5, Zenon DEF Effect, Way, Held
      <4> QED BY <1>2, <2>3, <3>2, <3>5, <4>1, SMTT(20)
    <3>6. CASE pc'[r] \in {"lfinish", "lclose"}
      <4>1. ref[h] # 0 /\ pc[r] \in {"lfinish", "lreader"}
        BY <2>1, <2>3, <3>3, <3>6, SMTT(20) DEF Effect, Way, Held
      <4> QED BY <1>1, <2>3, <3>6, <4>1, SMTT(20)
    <3> QED BY <2>3, <3>4, <3>5, <3>6, SMTT(20)
  <2> QED BY <2>2, <2>3, Zenon
<1>4. ASSUME NEW x \in Requests, NEW h \in Handles, Uses(x, h)'
      PROVE  ref'[h] # 0 /\ \A y \in Requests : ~Releases(y, h)'
  <2>1. Uses(x, h)
    BY <1>4, Zenon DEF Uses, Effect, Own, Keeps, None
  <2> QED BY <1>1, <2>1, SameNames, Zenon DEF Held
<1> QED BY <1>3, <1>4, Zenon DEF Held
-----------------------------------------------------------------------------
(* The kernel sends a request.                                              *)

\* What the kernel may send, as far as the invariants depend on it.
ArriveOpen(r) ==
    \E h \in Handles : /\ Opens(r, h)' /\ pc'[r] = "open" /\ h \notin Opened
                       /\ \A x \in Requests : ~Opens(x, h)
ArriveRelease(r) ==
    \E h \in Handles : /\ Releases(r, h)' /\ pc'[r] = "drain" /\ cur'[r] = h /\ h \in table
                       /\ \A x \in Requests : ~Releases(x, h) /\ ~Uses(x, h)
ArriveUse(r) ==
    \E h \in Handles : /\ req'[r].kind \in {"write", "flush"} /\ req'[r].h = h /\ cur'[r] = h
                       /\ \A x \in Requests : ~Releases(x, h)
                       /\ \/ pc'[r] = "announce" /\ ref[h] # 0
                          \/ pc'[r] = "done"
ArriveTruncate(r) ==
    /\ req'[r].kind = "truncate" /\ req'[r].all = table /\ req'[r].rest = table
    /\ pc'[r] = "tnext"
ArriveRead(r) == req'[r].kind = "read"

Arrival(r) ==
    /\ pc[r] = "idle" /\ req[r] = None /\ Own(r) /\ UNCHANGED <<guards, fileVars>>
    /\ ArriveOpen(r) \/ ArriveRelease(r) \/ ArriveUse(r) \/ ArriveTruncate(r) \/ ArriveRead(r)

\* A new request is in nobody's place.
LEMMA BeginFrame ==
    ASSUME LockInv, RequestsOK, NEW r \in Requests, NEW q, NEW b, NEW c, Begin(r, q, b, c)
    PROVE  /\ pc[r] = "idle" /\ req[r] = None /\ Own(r) /\ UNCHANGED <<guards, fileVars>>
           /\ req'[r] = q /\ pc'[r] = b /\ cur'[r] = c
<1>1. pc[r] = "idle" => req[r] = None
  BY Zenon DEF RequestsOK, Fits, ReadSteps, LockSteps, ReleaseSteps, Waiting
<1> QED BY <1>1, Zenon DEF Begin, Goto, Own, LockInv, DataOK, RequestsOK

\* The requests there are, as the invariants see them.
LEMMA ArriveEffect == ASSUME LockInv, RequestsOK, NEW r \in Requests, Arrive(r) PROVE Arrival(r)
<1>1. ASSUME NEW h \in Handles, BeginOpen(r, h) PROVE Arrival(r)
  <2> DEFINE q == [kind |-> "open", h |-> h]
  <2>1. /\ Begin(r, q, "open", NoHandle) /\ h \notin Opened
        /\ \A x \in Requests : ~Opens(x, h)
    BY <1>1, Zenon DEF BeginOpen, Opens
  <2>2. q.kind = "open" /\ q.h = h
    BY Zenon
  <2> HIDE DEF q
  <2>3. ArriveOpen(r)
    BY <2>1, <2>2, BeginFrame DEF ArriveOpen, Opens
  <2> QED BY <2>1, <2>3, BeginFrame, Zenon DEF Arrival
<1>2. ASSUME NEW h \in Handles, BeginRead(r, h) PROVE Arrival(r)
  <2> DEFINE q == [kind |-> "read", h |-> h]
  <2>1. Begin(r, q, "rcheck", h)
    BY <1>2, Zenon DEF BeginRead
  <2>2. q.kind = "read"
    BY Zenon
  <2> HIDE DEF q
  <2> QED BY <2>1, <2>2, BeginFrame, Zenon DEF Arrival, ArriveRead
<1>3. ASSUME NEW h \in Handles, NEW e \in Ends, BeginWrite(r, h, e) PROVE Arrival(r)
  <2>1. PICK q : Begin(r, q, NeedsLock(h), h) /\ q.kind \in {"write", "flush"} /\ q.h = h /\ h \in Usable
    BY <1>3 DEF BeginWrite
  <2>2. \A x \in Requests : ~Releases(x, h)
    BY <2>1, Zenon DEF Usable, Releases
  <2>3. \/ NeedsLock(h) = "announce" /\ ref[h] # 0
        \/ NeedsLock(h) = "done"
    BY Zenon DEF NeedsLock
  <2>4. ArriveUse(r)
    BY <2>1, <2>2, <2>3, BeginFrame, SMTT(20) DEF ArriveUse
  <2> QED BY <2>1, <2>4, BeginFrame, Zenon DEF Arrival
<1>4. ASSUME NEW h \in Handles, BeginFlush(r, h) PROVE Arrival(r)
  <2>1. PICK q : Begin(r, q, NeedsLock(h), h) /\ q.kind \in {"write", "flush"} /\ q.h = h /\ h \in Usable
    BY <1>4 DEF BeginFlush
  <2>2. \A x \in Requests : ~Releases(x, h)
    BY <2>1, Zenon DEF Usable, Releases
  <2>3. \/ NeedsLock(h) = "announce" /\ ref[h] # 0
        \/ NeedsLock(h) = "done"
    BY Zenon DEF NeedsLock
  <2>4. ArriveUse(r)
    BY <2>1, <2>2, <2>3, BeginFrame, SMTT(20) DEF ArriveUse
  <2> QED BY <2>1, <2>4, BeginFrame, Zenon DEF Arrival
<1>5. ASSUME NEW h \in Handles, BeginRelease(r, h) PROVE Arrival(r)
  <2> DEFINE q == [kind |-> "release", h |-> h]
  <2>1. Begin(r, q, "drain", h) /\ h \in table /\ \A x \in Requests : ~Releases(x, h)
    BY <1>5, Zenon DEF BeginRelease, Usable, Releases
  <2>2. q.kind = "release" /\ q.h = h
    BY Zenon
  <2>3. \A x \in Requests : ~Uses(x, h)
    <3> SUFFICES ASSUME NEW x \in Requests, Uses(x, h) PROVE FALSE
      BY Zenon
    <3>1. pc[x] # "idle"
      BY DEF Uses, RequestsOK, Fits, None, ReadSteps, LockSteps, ReleaseSteps, Waiting
    <3> QED BY <1>5, <3>1, Zenon DEF Uses, BeginRelease, Busy
  <2> HIDE DEF q
  <2>4. ArriveRelease(r)
    BY <2>1, <2>2, <2>3, BeginFrame, SMTT(20) DEF ArriveRelease, Releases
  <2> QED BY <2>1, <2>4, BeginFrame, Zenon DEF Arrival
<1>6. ASSUME NEW h \in Handles \cup {NoHandle}, NEW n \in Sizes, BeginTruncate(r, h, n) PROVE Arrival(r)
  <2> DEFINE q == [kind |-> "truncate", h |-> h, size |-> n, all |-> table, rest |-> table]
  <2>1. Begin(r, q, "tnext", NoHandle)
    BY <1>6, Zenon DEF BeginTruncate
  <2>2. q.kind = "truncate" /\ q.all = table /\ q.rest = table
    BY Zenon
  <2> HIDE DEF q
  <2>3. ArriveTruncate(r)
    BY <2>1, <2>2, BeginFrame, SMTT(20) DEF ArriveTruncate
  <2> QED BY <2>1, <2>3, BeginFrame, SMTT(20) DEF Arrival
<1> QED BY <1>1, <1>2, <1>3, <1>4, <1>5, <1>6, Zenon DEF Arrive

\* Names of open and released handles after an arrival.
LEMMA ArriveNames ==
    ASSUME NEW r \in Requests, Arrival(r), NEW x \in Requests, NEW h
    PROVE  /\ (Opens(x, h)' <=> Opens(x, h)) \/ x = r
           /\ (Releases(x, h)' <=> Releases(x, h)) \/ x = r
           /\ (Uses(x, h)' <=> Uses(x, h)) \/ x = r
           /\ ~Opens(r, h) /\ ~Releases(r, h) /\ ~Uses(r, h)
BY DEF Arrival, Own, Opens, Releases, Uses, None

\* A handle that is open stays so.
LEMMA ArriveStays ==
    ASSUME NEW r \in Requests, Arrival(r), NEW h
    PROVE  (Settled(h) => Settled(h)') /\ (Equipped(h) => Equipped(h)')
<1>1. \A x \in Requests \ {r} : (Opens(x, h)' <=> Opens(x, h)) /\ pc'[x] = pc[x]
  BY ArriveNames, Zenon DEF Arrival, Own
<1>2. ~Opens(r, h)
  BY ArriveNames, Zenon
<1> QED BY <1>1, <1>2, SMTT(20) DEF Settled, Equipped

\* An arrival keeps the first three invariants.
LEMMA ArriveOnce ==
    ASSUME LockInv, RequestsOK, Once, Existing, Held, NEW r \in Requests, Arrival(r)
    PROVE  Once' /\ Existing' /\ Held'
<1>1. \A x \in Requests, h \in Handles :
        /\ (Opens(x, h)' <=> Opens(x, h)) \/ x = r
        /\ (Releases(x, h)' <=> Releases(x, h)) \/ x = r
        /\ (Uses(x, h)' <=> Uses(x, h)) \/ x = r
        /\ ~Opens(r, h) /\ ~Releases(r, h) /\ ~Uses(r, h)
  BY ArriveNames, Zenon
<1>2. \A h : (Settled(h) => Settled(h)') /\ (Equipped(h) => Equipped(h)')
  BY ArriveStays, Zenon
<1>3. UNCHANGED <<table, ref, entry>> /\ Own(r)
  BY Zenon DEF Arrival, fileVars
<1>4. CASE ArriveOpen(r)
  <2>1. PICK h0 \in Handles : /\ Opens(r, h0)' /\ pc'[r] = "open" /\ h0 \notin Opened
                             /\ \A x \in Requests : ~Opens(x, h0)
    BY <1>4, Zenon DEF ArriveOpen
  <2>2. req'[r].kind = "open" /\ req'[r].h = h0
    BY <2>1, Zenon DEF Opens
  <2>3. \A h \in Handles : (Opens(r, h)' <=> h = h0) /\ ~Releases(r, h)' /\ ~Uses(r, h)'
    BY <2>2, Zenon DEF Opens, Releases, Uses
  <2>4. Once'
    BY <1>1, <2>1, <2>3 DEF Once
  <2>5. Existing'
    <3>1. \A x \in Requests : req'[x].kind = "truncate" => req'[x] = req[x]
      BY <1>3, <2>2, SMTT(20) DEF Own
    <3> QED BY <1>1, <1>2, <1>3, <2>3, <3>1, SMTT(20) DEF Existing
  <2>6. Held'
    BY <1>1, <1>3, <2>3 DEF Held, Own
  <2> QED BY <2>4, <2>5, <2>6, Zenon
<1>5. CASE ArriveRelease(r)
  <2>1. PICK h0 \in Handles :
          /\ Releases(r, h0)' /\ pc'[r] = "drain" /\ cur'[r] = h0 /\ h0 \in table
          /\ \A x \in Requests : ~Releases(x, h0) /\ ~Uses(x, h0)
    BY <1>5, Zenon DEF ArriveRelease
  <2>2. req'[r].kind = "release" /\ req'[r].h = h0
    BY <2>1, Zenon DEF Releases
  <2>3. \A h \in Handles : (Releases(r, h)' <=> h = h0) /\ ~Opens(r, h)' /\ ~Uses(r, h)'
    BY <2>2, Zenon DEF Opens, Releases, Uses
  <2>4. Once'
    BY <1>1, <2>1, <2>3 DEF Once
  <2>5. Existing'
    <3>1. \A x \in Requests : req'[x].kind = "truncate" => req'[x] = req[x]
      BY <1>3, <2>2, SMTT(20) DEF Own
    <3> QED BY <1>1, <1>2, <1>3, <2>1, <2>3, <3>1, Zenon DEF Existing
  <2>6. Held'
    BY <1>1, <1>3, <2>1, <2>3 DEF Held, Own
  <2> QED BY <2>4, <2>5, <2>6, Zenon
<1>6. CASE ArriveUse(r)
  <2>1. PICK h0 \in Handles :
          /\ req'[r].kind \in {"write", "flush"} /\ req'[r].h = h0
          /\ \A x \in Requests : ~Releases(x, h0)
          /\ (pc'[r] = "announce" /\ ref[h0] # 0) \/ pc'[r] = "done"
    BY <1>6, Zenon DEF ArriveUse
  <2>3. \A h \in Handles : ~Releases(r, h)' /\ ~Opens(r, h)' /\ (Uses(r, h)' => h = h0 /\ ref[h0] # 0)
    BY <2>1, Zenon DEF Opens, Releases, Uses
  <2>4. Once'
    BY <1>1, <2>1, <2>3 DEF Once
  <2>5. Existing'
    <3>1. \A x \in Requests : req'[x].kind = "truncate" => req'[x] = req[x]
      BY <1>3, <2>1, SMTT(20) DEF Own
    <3> QED BY <1>1, <1>2, <1>3, <2>1, <2>3, <3>1 DEF Existing
  <2>6. Held'
    BY <1>1, <1>3, <2>1, <2>3 DEF Held, Own
  <2> QED BY <2>4, <2>5, <2>6, Zenon
<1>7. CASE ArriveTruncate(r) \/ ArriveRead(r)
  <2>1. /\ req'[r].kind \in {"truncate", "read"}
        /\ req'[r].kind = "truncate" => req'[r].all = table
    BY <1>7, Zenon DEF ArriveTruncate, ArriveRead
  <2>3. \A h \in Handles : ~Releases(r, h)' /\ ~Opens(r, h)' /\ ~Uses(r, h)'
    BY <2>1, Zenon DEF Opens, Releases, Uses
  <2>4. Once'
    BY <1>1, <2>3, Zenon DEF Once
  <2>5. Existing'
    <3>1. \A x \in Requests : req'[x].kind = "truncate" => req'[x].all = table \/ req'[x] = req[x]
      BY <1>3, <2>1, SMTT(20) DEF Own
    <3> QED BY <1>1, <1>2, <1>3, <2>3, <3>1, SMTT(20) DEF Existing, RequestsOK
  <2>6. Held'
    BY <1>1, <1>3, <2>3, SMTT(20) DEF Held, Own
  <2> QED BY <2>4, <2>5, <2>6, Zenon
<1> QED BY <1>4, <1>5, <1>6, <1>7, Zenon DEF Arrival
-----------------------------------------------------------------------------
(* Who has which lock.                                                      *)

\* The way of one request through the lock and through truncate.
LockWay(r) ==
    /\ Range(guards[r]) \subseteq Range(guards'[r]) \/ pc[r] = "wdrop"
    /\ pc[r] = "wdrop" => pc'[r] \in {"wnotify", "done"}
    /\ pc[r] = "wnotify" => pc'[r] = "wdrop"
    /\ pc'[r] \in Asking => pc[r] \in Asking \cup {"tnext"}
    /\ pc[r] \in Asking => pc'[r] \in Asking \cup {"leave"}
    /\ pc'[r] = "leave" => pc[r] = "cas" /\ cur[r] \in Range(guards'[r])
    /\ pc'[r] \in {"wlocked", "wrote", "wlength"} => pc[r] \in {"leave", "wlocked", "wrote"}
    /\ pc'[r] \in {"tmeta", "tlen", "treaders"} =>
          pc[r] \in {"tmeta", "tlen"} \/ (pc[r] = "tnext" /\ req[r].rest = {})
    /\ req'[r] = req[r] \/ req[r].kind # "truncate" \/ pc'[r] = "done" \/ TruncateNext(r)

\* The steps of the lock itself.
LEMMA LockStepWay ==
    ASSUME LockInv, RequestsOK, NEW r \in Requests, LockStep(r),
           req' = IF pc'[r] = "done" THEN [req EXCEPT ![r] = None] ELSE req
    PROVE  LockWay(r)
<1> USE DEF Goto, LockInv, DataOK, Asking, LockWay
<1>1. req'[r] = req[r] \/ pc'[r] = "done"
  BY Zenon
<1>2. CASE WriteCas(r)
  <2>1. CASE exclusive_locking[cur[r]]
    BY <1>1, <1>2, <2>1, Zenon DEF WriteCas
  <2>2. CASE ~exclusive_locking[cur[r]]
    <3>1. cur[r] \in Handles
      BY <1>2, Zenon DEF WriteCas, Placed, Located, Waiting
    <3>2. /\ pc[r] = "cas" /\ pc'[r] = "leave" /\ guards'[r] = Append(guards[r], cur[r])
      BY <1>2, <2>2, Zenon DEF WriteCas
    <3>3. Range(guards'[r]) = Range(guards[r]) \cup {cur[r]}
      BY <3>1, <3>2, RangeOfAppend, SMTT(20)
    <3> QED BY <1>1, <3>2, <3>3, Zenon
  <2> QED BY <2>1, <2>2, Zenon
<1>3. CASE WriteRelease(r)
  BY <1>1, <1>3, Zenon DEF WriteRelease
<1>4. CASE Park(r) \/ Woken(r)
  BY <1>1, <1>4 DEF Park, Woken
<1>5. CASE \/ ReadCheckWaiters(r) \/ ReadCheckExclusive(r) \/ ReadEnter(r) \/ ReadRelease(r) \/ ReadNotify(r)
  BY <1>1, <1>5 DEF ReadCheckWaiters, ReadCheckExclusive, ReadEnter, ReadRelease, ReadNotify
<1>6. CASE \/ WriteAnnounce(r) \/ WriteCheckReaders(r) \/ WriteCheckExclusive(r)
           \/ WriteLeave(r) \/ WriteNotify(r)
  BY <1>1, <1>6 DEF WriteAnnounce, WriteCheckReaders, WriteCheckExclusive, WriteLeave, WriteNotify
<1> QED BY <1>2, <1>3, <1>4, <1>5, <1>6, Zenon DEF LockStep

\* A step that leaves the lock alone.
LEMMA PlainWay ==
    ASSUME LockInv, RequestsOK, NEW r \in Requests, NEW a, NEW b, Step(r, a, b), req' = req,
           a \notin Asking, b \notin Asking, a \notin {"wdrop", "wnotify"}, b # "leave",
           b \in {"wlocked", "wrote", "wlength"} => a \in {"leave", "wlocked", "wrote"},
           b \in {"tmeta", "tlen", "treaders"} =>
              a \in {"tmeta", "tlen"} \/ (a = "tnext" /\ req[r].rest = {})
    PROVE  LockWay(r)
BY Zenon DEF LockWay, Step, Goto, LockInv, DataOK

\* Every step that serves a request.
LEMMA ServeWay == ASSUME LockInv, RequestsOK, NEW r \in Requests, Serve(r) PROVE LockWay(r)
<1>1. CASE /\ LockStep(r)
           /\ req' = IF pc'[r] = "done" THEN [req EXCEPT ![r] = None] ELSE req
  BY <1>1, LockStepWay, SMTT(20)
<1>2. CASE \/ ReadFlush(r) \/ ReadFlushFails(r) \/ ReadData(r)
           \/ WriteData(r) \/ WriteFails(r) \/ WriteTruncateReader(r) \/ FlushWriter(r)
           \/ TruncateLocked(r) \/ TruncateFlush(r) \/ TruncateMeta(r) \/ TruncateMetaFails(r)
           \/ TruncateSetLength(r) \/ TruncateReaders(r)
  <2> DEFINE a == pc[r]
             b == pc'[r]
  <2>1. /\ Step(r, a, b) /\ req' = req
        /\ a \in {"rlocked", "rflushed", "wlocked", "wlength", "tnext", "tmeta", "tlen", "treaders"}
        /\ b \in {"rflushed", "rdrop", "wrote", "wdrop", "tnext", "tmeta", "tlen", "treaders"}
        /\ b = "wrote" => a = "wlocked"
        /\ b \in {"tmeta", "tlen", "treaders"} =>
              a \in {"tmeta", "tlen"} \/ (a = "tnext" /\ req[r].rest = {})
    BY <1>2, Zenon DEF ReadFlush, ReadFlushFails, ReadData, WriteData, WriteFails,
       WriteTruncateReader, FlushWriter, TruncateLocked, TruncateFlush, TruncateMeta,
       TruncateMetaFails, TruncateSetLength, TruncateReaders, Step, Goto, fileVars, LockInv, DataOK
  <2> HIDE DEF a, b
  <2> QED BY <2>1, PlainWay, SMTT(20) DEF Asking
<1>3. CASE WriteGetLength(r)
  <2>1. /\ pc[r] = "wrote" /\ pc' = [pc EXCEPT ![r] = "wlength"] /\ guards' = guards
    BY <1>3, Zenon DEF WriteGetLength, Step, Goto
  <2>2. req[r].kind # "truncate"
    <3>1. WriteShape(req[r])
      BY <2>1, KindOf, SMTT(20)
    <3> QED BY <3>1 DEF WriteShape
  <2> QED BY <2>1, <2>2, Zenon DEF LockWay, LockInv, DataOK, Asking
<1>4. CASE TruncateNext(r)
  <2>1. pc[r] = "tnext" /\ guards' = guards /\ pc'[r] \in {"wdrop", "tnext", "announce"}
    BY <1>4, TruncateNextEffect, Zenon DEF TruncateNext
  <2> QED BY <1>4, <2>1, Zenon DEF LockWay, Asking
<1>5. CASE OpenInode(r) \/ OpenLength(r)
  <2>1. /\ pc[r] \in {"open", "olen"} /\ pc'[r] \in {"olen", "otell", "oreader"} /\ guards' = guards
    BY <1>5, Zenon DEF OpenInode, OpenLength, Step, Goto, LockInv, DataOK
  <2>2. req[r].kind # "truncate"
    <3>1. OpenShape(req[r]) \/ OpenedShape(req[r])
      BY <2>1, KindOf, Zenon
    <3> QED BY <3>1 DEF OpenShape, OpenedShape
  <2> QED BY <2>1, <2>2, Zenon DEF LockWay, Asking
<1>6. CASE \/ OpenTellReaders(r) \/ OpenReader(r) \/ OpenWriter(r) \/ OpenRefused(r) \/ OpenInsert(r)
           \/ ReleaseDrain(r) \/ ReleaseFlush(r) \/ ReleaseMeta(r) \/ ReleaseRemove(r)
           \/ ReleaseReader(r) \/ ReleaseFinish(r) \/ ReleaseWriter(r)
  <2> DEFINE a == pc[r]
             b == pc'[r]
  <2>1. CASE \/ OpenTellReaders(r) \/ OpenReader(r) \/ OpenWriter(r) \/ OpenRefused(r) \/ OpenInsert(r)
    <3>1. /\ Step(r, a, b) /\ req' = req /\ a \in {"otell", "oreader", "owriter", "oinsert"}
          /\ b \in {"oreader", "owriter", "oinsert", "done"}
      BY <2>1, Zenon DEF OpenTellReaders, OpenReader, OpenWriter, OpenRefused, OpenInsert, Step, Goto,
             fileVars, LockInv, DataOK
    <3> HIDE DEF a, b
    <3> QED BY <3>1, PlainWay, Zenon DEF Asking
  <2>2. CASE \/ ReleaseDrain(r) \/ ReleaseFlush(r) \/ ReleaseMeta(r) \/ ReleaseRemove(r)
    <3>1. /\ Step(r, a, b) /\ req' = req /\ a \in {"drain", "drain2", "drain3", "lflush", "lmeta", "lremove"}
          /\ b \in ReleaseSteps \cup {"done"}
      BY <2>2, Zenon DEF ReleaseDrain, DrainCheck, ReleaseFlush, ReleaseMeta, ReleaseRemove, Step, Goto,
             fileVars, LockInv, DataOK, ReleaseSteps
    <3> HIDE DEF a, b
    <3> QED BY <3>1, PlainWay, Zenon DEF Asking, ReleaseSteps
  <2>3. CASE \/ ReleaseReader(r) \/ ReleaseFinish(r) \/ ReleaseWriter(r)
    <3>1. /\ Step(r, a, b) /\ req' = req /\ a \in {"lreader", "lfinish", "lclose"}
          /\ b \in {"lfinish", "lclose", "done"}
      BY <2>3, Zenon DEF ReleaseReader, ReleaseFinish, ReleaseWriter, Step, Goto,
             fileVars, LockInv, DataOK
    <3> HIDE DEF a, b
    <3> QED BY <3>1, PlainWay, SMTT(20) DEF Asking
  <2> QED BY <1>6, <2>1, <2>2, <2>3, SMTT(20)
<1> QED BY <1>1, <1>2, <1>3, <1>4, <1>5, <1>6, Zenon DEF Serve

\* A handle that was passed over without a writer never gets one.
LEMMA SettledKeepsNone ==
    ASSUME LockInv, RequestsOK, Once, Existing, NEW r \in Requests, Effect(r),
           NEW h \in Handles, Settled(h), ref'[h] # 0
    PROVE  ref[h] # 0
<1> SUFFICES ASSUME ref[h] = 0 PROVE FALSE
  BY Zenon
<1>1. pc[r] = "owriter" /\ h = req[r].h
  BY Zenon DEF Effect, Refs, Existing
<1>2. OpenedShape(req[r])
  BY <1>1, KindOf, Zenon
<1>3. Opens(r, h)
  BY <1>1, <1>2, SMTT(20) DEF OpenedShape, Opens
<1> QED BY <1>1, <1>3, OpeningIsNew, Zenon

\* Serving a request keeps the locks of the writes and of the truncates.
LEMMA ServeLocked ==
    ASSUME LockInv, RequestsOK, Once, Existing, Held, Locked, NEW r \in Requests, Serve(r),
           Effect(r), LockWay(r)
    PROVE  Locked'
<1>1. ASSUME NEW x \in Requests, NEW h \in Handles, Uses(x, h)'
      PROVE  /\ pc'[x] \in Asking => cur'[x] = h
             /\ pc'[x] \in {"leave", "wlocked", "wrote", "wlength"} => HoldsWrite(x, h)'
  <2>1. Uses(x, h)
    BY <1>1, SMTT(20) DEF Uses, Effect, Own, Keeps, None
  <2>2. CASE x # r
    BY <2>1, <2>2, SMTT(20) DEF Effect, Own, Locked, HoldsWrite
  <2>3. CASE x = r
    <3>1. pc[r] # "tnext"
      <4>1. pc[r] = "tnext" => TruncateShape(req[r])
        BY KindOf, SMTT(20)
      <4> QED BY <2>1, <2>3, <4>1, SMTT(20) DEF Uses, TruncateShape
    <3>2. pc[r] \in Asking => cur[r] = h
      BY <2>1, <2>3, SMTT(20) DEF Locked
    <3>3. pc[r] \in {"leave", "wlocked", "wrote", "wlength"} => h \in Range(guards[r])
      BY <2>1, <2>3, SMTT(20) DEF Locked, HoldsWrite
    <3>4. pc'[r] \in Asking => cur'[r] = h
      BY <3>1, <3>2, ZenonT(30) DEF LockWay, Effect, Way, Asking
    <3>5. pc'[r] \in {"leave", "wlocked", "wrote", "wlength"} => h \in Range(guards'[r])
      BY <3>1, <3>2, <3>3, ZenonT(30) DEF LockWay, Asking
    <3> QED BY <2>3, <3>4, <3>5, SMTT(20) DEF HoldsWrite
  <2> QED BY <2>2, <2>3, Zenon
<1>2. ASSUME NEW x \in Requests, req'[x].kind = "truncate"
      PROVE  /\ pc'[x] \in {"tmeta", "tlen", "treaders"} => req'[x].rest = {}
             /\ pc'[x] \notin {"wdrop", "wnotify"} =>
                  \A h \in req'[x].all \ req'[x].rest :
                     ref'[h] # 0 => h \in Range(guards'[x]) \/ (cur'[x] = h /\ pc'[x] \in Asking)
  <2>1. req[x].kind = "truncate" /\ req'[x].all = req[x].all
    <3>1. CASE x # r
      BY <1>2, <3>1, ZenonT(30) DEF Effect, Own
    <3>2. CASE x = r
      <4>1. Keeps(r)
        BY Zenon DEF Effect
      <4>2. req'[r].kind = "truncate" /\ req'[r] # None
        BY <1>2, <3>2 DEF None
      <4> QED BY <3>2, <4>1, <4>2, SMTT(20) DEF Keeps
    <3> QED BY <3>1, <3>2, SMTT(20)
  <2>2. \A h \in req[x].all : h \in Handles /\ (ref'[h] # 0 => ref[h] # 0)
    BY <2>1, SettledKeepsNone, SMTT(20) DEF Existing
  <2>3. /\ pc[x] \in {"tmeta", "tlen", "treaders"} => req[x].rest = {}
        /\ pc[x] \notin {"wdrop", "wnotify"} =>
             \A h \in req[x].all \ req[x].rest :
                ref[h] # 0 => h \in Range(guards[x]) \/ (cur[x] = h /\ pc[x] \in Asking)
    BY <2>1, SMTT(20) DEF Locked, HoldsWrite
  <2>4. CASE x # r
    <3>1. req'[x] = req[x] /\ pc'[x] = pc[x] /\ cur'[x] = cur[x] /\ guards'[x] = guards[x]
      BY <2>4, SMTT(20) DEF Effect, Own
    <3> QED BY <2>2, <2>3, <3>1, SMTT(20)
  <2>5. CASE x = r /\ TruncateNext(r)
    <3>1. PICK h0 \in req[r].rest :
                /\ req'[r].rest = req[r].rest \ {h0} /\ guards' = guards /\ ref' = ref
                /\ \/ ref[h0] = 0 /\ pc'[r] \in {"wdrop", "tnext"} /\ cur'[r] = cur[r]
                   \/ pc'[r] = "announce" /\ cur'[r] = h0
      BY <2>5, TruncateNextEffect, Zenon
    <3>2. pc[r] = "tnext"
      BY <2>5, SMTT(20) DEF TruncateNext
    <3>3. \A h \in req[r].all \ req[r].rest : ref[h] # 0 => h \in Range(guards[r])
      BY <2>3, <2>5, <3>2, SMTT(20) DEF Asking
    <3> QED BY <2>1, <2>5, <3>1, <3>3, SMTT(20) DEF Asking
  <2>6. CASE x = r /\ ~TruncateNext(r)
    <3>1. CASE pc'[r] = "done"
      <4>1. FALSE
        <5>1. RequestsOK'
          BY LockInv, RequestsOK, NextLock, Zenon DEF Next
        <5>2. Fits(req[r], pc[r])'
          BY <5>1, SMTT(20) DEF RequestsOK
        <5> QED BY <1>2, <2>6, <3>1, <5>2, SMTT(20) DEF Fits, None, ReadSteps, LockSteps,
                   ReleaseSteps, Waiting, WriteShape, FlushShape, OpenedShape, ReleaseShape
      <4> QED BY <4>1, SMTT(20)
    <3>2. CASE pc'[r] # "done"
      <4>1. req'[r] = req[r]
        BY <2>1, <2>6, <3>2, SMTT(20) DEF LockWay
      <4>2. pc'[r] \in {"tmeta", "tlen", "treaders"} => req[r].rest = {}
        BY <2>3, <2>6, Zenon DEF LockWay
      <4>3. ASSUME pc'[r] \notin {"wdrop", "wnotify"}, NEW h \in req[r].all \ req[r].rest, ref'[h] # 0
            PROVE  h \in Range(guards'[r]) \/ (cur'[r] = h /\ pc'[r] \in Asking)
        <5>1. pc[r] \notin {"wdrop", "wnotify"}
          BY <3>2, <4>3, SMTT(20) DEF LockWay
        <5>2. h \in Range(guards[r]) \/ (cur[r] = h /\ pc[r] \in Asking)
          BY <2>2, <2>3, <2>6, <4>3, <5>1, Zenon
        <5>3. CASE h \in Range(guards[r])
          BY <5>1, <5>3, SMTT(20) DEF LockWay
        <5>4. CASE cur[r] = h /\ pc[r] \in Asking
          BY <3>2, <4>3, <5>4, ZenonT(30) DEF LockWay, Effect, Way, Asking
        <5> QED BY <5>2, <5>3, <5>4, SMTT(20)
      <4> QED BY <2>6, <4>1, <4>2, <4>3, SMTT(20)
    <3> QED BY <3>1, <3>2, Zenon
  <2> QED BY <2>4, <2>5, <2>6, ZenonT(30)
<1>3. \A x \in Requests, h \in Handles :
        Uses(x, h)' => /\ pc'[x] \in Asking => cur'[x] = h
                       /\ pc'[x] \in {"leave", "wlocked", "wrote", "wlength"} => HoldsWrite(x, h)'
  BY <1>1, Zenon
<1>4. \A x \in Requests :
        req'[x].kind = "truncate" =>
          /\ pc'[x] \in {"tmeta", "tlen", "treaders"} => req'[x].rest = {}
          /\ pc'[x] \notin {"wdrop", "wnotify"} =>
               \A h \in req'[x].all \ req'[x].rest :
                  ref'[h] # 0 => HoldsWrite(x, h)' \/ (cur'[x] = h /\ pc'[x] \in Asking)
  BY <1>2, SMTT(20) DEF HoldsWrite
<1> QED BY <1>3, <1>4, SMTT(20) DEF Locked

\* An arrival has no lock yet.
LEMMA ArriveLocked ==
    ASSUME LockInv, RequestsOK, Locked, NEW r \in Requests, Arrival(r) PROVE Locked'
<1>1. UNCHANGED <<ref, guards>> /\ \A x \in Requests \ {r} :
        req'[x] = req[x] /\ pc'[x] = pc[x] /\ cur'[x] = cur[x] /\ guards'[x] = guards[x]
  BY ZenonT(30) DEF Arrival, Own, fileVars
<1>2. /\ req'[r].kind \in {"write", "flush"} /\ pc'[r] # "done" =>
            pc'[r] = "announce" /\ cur'[r] = req'[r].h
      /\ req'[r].kind = "truncate" => pc'[r] = "tnext" /\ req'[r].all = req'[r].rest
  BY SMTT(20) DEF Arrival, ArriveOpen, ArriveRelease, ArriveUse, ArriveTruncate, ArriveRead, Opens, Releases
<1>3. ASSUME NEW x \in Requests, NEW h \in Handles, Uses(x, h)'
      PROVE  /\ pc'[x] \in Asking => cur'[x] = h
             /\ pc'[x] \in {"leave", "wlocked", "wrote", "wlength"} => HoldsWrite(x, h)'
  <2>1. CASE x = r
    BY <1>2, <1>3, <2>1, SMTT(20) DEF Uses
  <2>2. CASE x # r
    <3>1. Uses(x, h)
      BY <1>1, <1>3, <2>2, SMTT(20) DEF Uses
    <3> QED BY <1>1, <2>2, <3>1, Zenon DEF Locked, HoldsWrite
  <2> QED BY <2>1, <2>2, Zenon
<1>4. ASSUME NEW x \in Requests, req'[x].kind = "truncate"
      PROVE  /\ pc'[x] \in {"tmeta", "tlen", "treaders"} => req'[x].rest = {}
             /\ pc'[x] \notin {"wdrop", "wnotify"} =>
                  \A h \in req'[x].all \ req'[x].rest :
                     ref'[h] # 0 => HoldsWrite(x, h)' \/ (cur'[x] = h /\ pc'[x] \in Asking)
  <2>1. CASE x = r
    BY <1>2, <1>4, <2>1, SMTT(20)
  <2>2. CASE x # r
    BY <1>1, <1>4, <2>2 DEF Locked, HoldsWrite
  <2> QED BY <2>1, <2>2, Zenon
<1> QED BY <1>3, <1>4, SMTT(20) DEF Locked
-----------------------------------------------------------------------------
(* The open references.                                                     *)

\* Counted handles are finitely many.
LEMMA CountedFinite == IsFiniteSet(Counted)
BY FileHandleConstants, FS_Subset, Zenon DEF Counted

\* A reference that was given back stays so.
LEMMA BackStays ==
    ASSUME LockInv, RequestsOK, Once, Existing, NEW r \in Requests, Effect(r),
           NEW h \in Handles, Back(h)
    PROVE  Back(h)'
<1>1. PICK x \in Requests :
        /\ Releases(x, h)
        /\ pc[x] \in {"lremove", "lreader", "lfinish", "lclose", "done"} \/ h \notin table
  BY Zenon DEF Back
<1>2. Releases(x, h)'
  BY <1>1, SameNames, SMTT(20)
<1>3. h \notin table => h \notin table'
  <2> SUFFICES ASSUME h \notin table, h \in table' PROVE FALSE
    BY Zenon
  <2>1. pc[r] = "oinsert" /\ h = req[r].h
    BY Zenon DEF Effect, Table
  <2>2. OpenedShape(req[r])
    BY <2>1, KindOf, Zenon
  <2>3. Opens(r, h) /\ Settled(h)
    BY <1>1, <2>1, <2>2 DEF OpenedShape, Opens, Existing
  <2> QED BY <2>1, <2>3, Zenon DEF Settled, Once
<1>4. \/ pc'[x] \in {"lremove", "lreader", "lfinish", "lclose", "done"} \/ h \notin table'
  <2>1. CASE h \notin table
    BY <1>3, <2>1, Zenon
  <2>2. CASE x # r
    BY <1>1, <1>3, <2>2, SMTT(20) DEF Effect, Own
  <2>3. CASE x = r /\ pc[r] # "lremove" /\ h \in table
    BY <1>1, <2>3, SMTT(20) DEF Effect, Way
  <2>4. CASE x = r /\ pc[r] = "lremove"
    <3>1. req[r].h = h
      BY <1>1, <2>4, SMTT(20) DEF Releases
    <3> QED BY <2>4, <3>1, Zenon DEF Effect, Way
  <2> QED BY <2>1, <2>2, <2>3, <2>4, Zenon
<1> QED BY <1>2, <1>4, Zenon DEF Back

\* Only open takes a reference and only release gives one back.
LEMMA ServeCounts ==
    ASSUME LockInv, NEW r \in Requests, Serve(r)
    PROVE  /\ pc[r] = "open" => opens' = opens + 1
           /\ pc[r] = "lmeta" => opens' = opens - 1 /\ pc'[r] = "lremove"
           /\ pc[r] \notin {"open", "lmeta"} => opens' = opens
<1> USE DEF Step
<1>1. CASE LockStep(r) /\ UNCHANGED fileVars
  BY <1>1, SMTT(20) DEF fileVars, LockStep, Park, Woken, ReadCheckWaiters, ReadCheckExclusive,
         ReadEnter, ReadRelease, ReadNotify, WriteAnnounce, WriteCheckReaders, WriteCheckExclusive,
         WriteCas, WriteLeave, WriteRelease, WriteNotify
<1>2. CASE \/ ReadFlush(r) \/ ReadFlushFails(r) \/ ReadData(r)
           \/ WriteData(r) \/ WriteFails(r) \/ WriteGetLength(r) \/ WriteTruncateReader(r) \/ FlushWriter(r)
  BY <1>2, Zenon DEF fileVars, ReadFlush, ReadFlushFails, ReadData, WriteData, WriteFails,
     WriteGetLength, WriteTruncateReader, FlushWriter
<1>3. CASE \/ TruncateNext(r) \/ TruncateLocked(r) \/ TruncateFlush(r) \/ TruncateMeta(r) \/ TruncateMetaFails(r)
           \/ TruncateSetLength(r) \/ TruncateReaders(r)
  BY <1>3, Zenon DEF fileVars, TruncateNext, TruncateLocked, TruncateFlush, TruncateMeta,
     TruncateMetaFails, TruncateSetLength, TruncateReaders
<1>4. CASE \/ OpenInode(r) \/ OpenLength(r) \/ OpenTellReaders(r) \/ OpenReader(r)
           \/ OpenWriter(r) \/ OpenRefused(r) \/ OpenInsert(r)
  BY <1>4, SMTT(20) DEF fileVars, OpenInode, OpenLength, OpenTellReaders, OpenReader, OpenWriter,
     OpenRefused, OpenInsert
<1>5. CASE \/ ReleaseDrain(r) \/ ReleaseFlush(r) \/ ReleaseRemove(r)
           \/ ReleaseReader(r) \/ ReleaseFinish(r) \/ ReleaseWriter(r)
  BY <1>5, Zenon DEF fileVars, ReleaseDrain, DrainCheck, ReleaseFlush, ReleaseRemove, ReleaseReader,
              ReleaseFinish, ReleaseWriter
<1>6. CASE ReleaseMeta(r)
  BY <1>6, Zenon DEF ReleaseMeta, Goto, LockInv, DataOK
<1> QED BY <1>1, <1>2, <1>3, <1>4, <1>5, <1>6, Zenon DEF Serve

\* Handles are counted only when a reference is taken for them.
LEMMA TakenBefore ==
    ASSUME LockInv, RequestsOK, NEW r \in Requests, Effect(r), NEW h \in Handles, Taken(h)'
    PROVE  Taken(h) \/ (pc[r] = "open" /\ h = req[r].h)
<1>1. CASE h \in Opened
  BY <1>1, Zenon DEF Taken
<1>2. CASE h \notin Opened
  <2>1. PICK x \in Requests : Opens(x, h)' /\ pc'[x] # "open"
    BY <1>2, Zenon DEF Taken
  <2>2. Opens(x, h)
    BY <2>1, SameNames, Zenon
  <2>3. CASE x # r
    BY <2>1, <2>2, <2>3, SMTT(20) DEF Effect, Own, Taken
  <2>4. CASE x = r
    BY <2>2, <2>4, Zenon DEF Opens, Taken
  <2> QED BY <2>3, <2>4, Zenon
<1> QED BY <1>1, <1>2, Zenon

\* Serving a request keeps the references at least as many as the handles.
LEMMA ServeCounting ==
    ASSUME LockInv, RequestsOK, Once, Existing, Held, Counting, NEW r \in Requests, Serve(r), Effect(r)
    PROVE  Counting'
<1>1. \A h \in Handles : Back(h) => Back(h)'
  BY BackStays, Zenon
<1>2. \A h \in Handles : Taken(h)' => Taken(h) \/ (pc[r] = "open" /\ h = req[r].h)
  BY TakenBefore, Zenon
<1>3. IsFiniteSet(Counted) /\ IsFiniteSet(Counted') /\ Cardinality(Counted) \in Nat
  BY CountedFinite, FileHandleConstants, FS_Subset, FS_CardinalityType, SMTT(20) DEF Counted
<1>4. CASE pc[r] = "open"
  <2>0. PICK h0 : h0 = req[r].h
    BY Zenon
  <2>1. Counted' \subseteq Counted \cup {h0}
    BY <1>1, <1>2, <2>0, Zenon DEF Counted
  <2>2. IsFiniteSet(Counted \cup {h0}) /\ Cardinality(Counted \cup {h0}) <= Cardinality(Counted) + 1
    <3>1. /\ IsFiniteSet(Counted \cup {h0})
          /\ Cardinality(Counted \cup {h0}) \in {Cardinality(Counted), Cardinality(Counted) + 1}
      BY <1>3, FS_AddElement, Zenon
    <3> QED BY <1>3, <3>1
  <2>3. /\ Cardinality(Counted') <= Cardinality(Counted \cup {h0}) /\ Cardinality(Counted') \in Nat
        /\ Cardinality(Counted \cup {h0}) \in Nat
    BY <2>1, <2>2, FS_Subset, FS_CardinalityType, SMTT(20)
  <2>4. opens' = opens + 1
    BY <1>4, ServeCounts, Zenon
  <2> QED BY <1>3, <2>2, <2>3, <2>4 DEF Counting
<1>5. CASE pc[r] = "lmeta"
  <2>0. PICK h0 : h0 = req[r].h
    BY Zenon
  <2>1. Releases(r, h0) /\ h0 \in Handles
    <3>1. ReleaseShape(req[r])
      BY <1>5, KindOf, Zenon DEF ReleaseSteps
    <3> QED BY <2>0, <3>1 DEF ReleaseShape, Releases
  <2>2. h0 \in table /\ Settled(h0)
    BY <1>5, <2>1, Zenon DEF Held, Existing
  <2>3. h0 \in Counted
    <3>1. Taken(h0)
      BY <2>2, Zenon DEF Settled, Taken
    <3>2. ~Back(h0)
      BY <1>5, <2>1, <2>2, Zenon DEF Back, Once
    <3> QED BY <2>1, <3>1, <3>2, Zenon DEF Counted
  <2>4. pc'[r] = "lremove" /\ opens' = opens - 1
    BY <1>5, ServeCounts, Zenon
  <2>5. Back(h0)'
    <3>1. Releases(r, h0)'
      BY <2>1, SameNames, Zenon
    <3> QED BY <2>4, <3>1, Zenon DEF Back
  <2>6. Counted' \subseteq Counted \ {h0}
    BY <1>1, <1>2, <1>5, <2>5, SMTT(20) DEF Counted
  <2>7. IsFiniteSet(Counted \ {h0}) /\ Cardinality(Counted \ {h0}) = Cardinality(Counted) - 1
    BY <1>3, <2>3, FS_RemoveElement, Zenon
  <2>8. /\ Cardinality(Counted') <= Cardinality(Counted \ {h0}) /\ Cardinality(Counted') \in Nat
        /\ Cardinality(Counted \ {h0}) \in Nat
    BY <2>6, <2>7, FS_Subset, FS_CardinalityType, SMTT(20)
  <2> QED BY <1>3, <2>4, <2>7, <2>8, SMTT(20) DEF Counting
<1>6. CASE pc[r] \notin {"open", "lmeta"}
  <2>1. Counted' \subseteq Counted
    BY <1>1, <1>2, <1>6, SMTT(20) DEF Counted
  <2>2. opens' = opens
    BY <1>6, ServeCounts, Zenon
  <2>3. Cardinality(Counted') <= Cardinality(Counted) /\ Cardinality(Counted') \in Nat
    BY <1>3, <2>1, FS_Subset, FS_CardinalityType, SMTT(20)
  <2> QED BY <1>3, <2>2, <2>3, SMTT(20) DEF Counting
<1> QED BY <1>4, <1>5, <1>6, Zenon

\* An arrival takes no reference and gives none back.
LEMMA ArriveCounting ==
    ASSUME LockInv, RequestsOK, Counting, NEW r \in Requests, Arrival(r) PROVE Counting'
<1>1. \A x \in Requests, h \in Handles :
        /\ (Opens(x, h)' <=> Opens(x, h)) \/ x = r
        /\ (Releases(x, h)' <=> Releases(x, h)) \/ x = r
        /\ ~Opens(r, h) /\ ~Releases(r, h)
  BY ArriveNames, Zenon
<1>2. UNCHANGED <<table, opens>> /\ \A x \in Requests \ {r} : pc'[x] = pc[x]
  BY Zenon DEF Arrival, Own, fileVars
<1>3. \A h \in Handles : Opens(r, h)' => pc'[r] = "open"
  BY SMTT(20) DEF Arrival, ArriveOpen, ArriveRelease, ArriveUse, ArriveTruncate, ArriveRead, Opens, Releases
<1>4. \A h \in Handles : Taken(h)' => Taken(h)
  BY <1>1, <1>2, <1>3, SMTT(20) DEF Taken
<1>5. \A h \in Handles : Back(h) => Back(h)'
  BY <1>1, <1>2, Zenon DEF Back
<1>6. Counted' \subseteq Counted
  BY <1>4, <1>5, Zenon DEF Counted
<1>7. IsFiniteSet(Counted) /\ IsFiniteSet(Counted') /\ Cardinality(Counted) \in Nat
  BY CountedFinite, FileHandleConstants, FS_Subset, FS_CardinalityType, SMTT(20) DEF Counted
<1>8. Cardinality(Counted') <= Cardinality(Counted) /\ Cardinality(Counted') \in Nat
  BY <1>6, <1>7, FS_Subset, FS_CardinalityType, Zenon
<1> QED BY <1>2, <1>7, <1>8 DEF Counting
=============================================================================
