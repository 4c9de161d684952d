-------------------------- MODULE VfsWriterProofs --------------------------
(***************************************************************************)
(* The FileWriter the handles of a file share: which handles use it, how   *)
(* many it counts, and what it has not committed.                          *)
(***************************************************************************)
EXTENDS VfsFileProofs, SequenceTheorems

\* The handles that use a writer, and the fields a writer has.
Users == {h \in Handles : ref[h] # 0}
WriterShape(w) ==
    /\ w = [len |-> w.len, pend |-> w.pend, refs |-> w.refs, failed |-> w.failed]
    /\ w.refs \in Nat /\ w.failed \in BOOLEAN

\* A release has flushed the writer of h for the last time.
Closing(h) == \E x \in Requests : Releases(x, h) /\ pc[x] = "lclose"

\* The writer in file_writers counts the handles that use it; data that is
\* not committed has a handle that has yet to flush it.
Writers ==
    /\ fw \in Seq(Range(fw)) /\ \A i \in 1 .. Len(fw) : WriterShape(fw[i])
    /\ ref \in [Handles -> Nat] /\ entry \in 0 .. Len(fw)
    /\ HandleKeepsWriter /\ NoWriteLost
    /\ entry # 0 => /\ fw[entry].refs = Cardinality(Users) /\ Users # {}
                    /\ fw[entry].pend = 0 \/ fw[entry].failed \/ \E h \in Users : ~Closing(h)

\* A step that changes one writer and not who uses it.
Touch(r) ==
    \E w \in 1 .. Len(fw) : \E q :
        /\ fw' = [fw EXCEPT ![w] = q] /\ WriterShape(q)
        /\ q.refs = fw[w].refs /\ (fw[w].failed => q.failed)
        /\ \/ q.pend = 0 \/ q.failed
           \/ q.pend = fw[w].pend /\ pc'[r] # "lclose"
           \/ w = entry /\ pc'[r] # "lclose" /\ \E h \in Handles : Uses(r, h)
        /\ pc'[r] = "lclose" => w = entry

\* One field of a writer is replaced.
LEMMA FieldChanged ==
    ASSUME NEW q, NEW n, q = [len |-> q.len, pend |-> q.pend, refs |-> q.refs, failed |-> q.failed]
    PROVE  /\ [q EXCEPT !.len = n] = [len |-> n, pend |-> q.pend, refs |-> q.refs, failed |-> q.failed]
           /\ [q EXCEPT !.pend = n] = [len |-> q.len, pend |-> n, refs |-> q.refs, failed |-> q.failed]
           /\ [q EXCEPT !.refs = n] = [len |-> q.len, pend |-> q.pend, refs |-> n, failed |-> q.failed]
           /\ [q EXCEPT !.failed = n] = [len |-> q.len, pend |-> q.pend, refs |-> q.refs, failed |-> n]
<1> DEFINE a == q.len
           b == q.pend
           c == q.refs
           d == q.failed
<1>1. q = [len |-> a, pend |-> b, refs |-> c, failed |-> d]
  BY Zenon
<1> HIDE DEF a, b, c, d
<1> SUFFICES /\ [q EXCEPT !.len = n] = [len |-> n, pend |-> b, refs |-> c, failed |-> d]
             /\ [q EXCEPT !.pend = n] = [len |-> a, pend |-> n, refs |-> c, failed |-> d]
             /\ [q EXCEPT !.refs = n] = [len |-> a, pend |-> b, refs |-> n, failed |-> d]
             /\ [q EXCEPT !.failed = n] = [len |-> a, pend |-> b, refs |-> c, failed |-> n]
  BY Zenon DEF a, b, c, d
<1> QED BY <1>1

\* A function on 1 .. n is a sequence.
LEMMA IsSequence == ASSUME NEW n \in Nat, NEW S, NEW f \in [1 .. n -> S] PROVE f \in Seq(S)
BY SeqDef, Zenon

\* The sequence of writers when one is replaced, and when one is added.
LEMMA ReplaceWriter ==
    ASSUME fw \in Seq(Range(fw)), NEW w \in 1 .. Len(fw), NEW q, fw' = [fw EXCEPT ![w] = q]
    PROVE  /\ Len(fw') = Len(fw) /\ DOMAIN fw = 1 .. Len(fw) /\ DOMAIN fw' = 1 .. Len(fw)
           /\ fw'[w] = q /\ \A i \in 1 .. Len(fw) : i # w => fw'[i] = fw[i]
           /\ fw' \in Seq(Range(fw'))
<1>1. /\ Len(fw') = Len(fw) /\ DOMAIN fw = 1 .. Len(fw) /\ DOMAIN fw' = 1 .. Len(fw) /\ Len(fw) \in Nat
      /\ fw'[w] = q /\ \A i \in 1 .. Len(fw) : i # w => fw'[i] = fw[i]
      /\ fw' \in Seq(Range(fw) \cup {q})
  OBVIOUS
<1>2. \A i \in 1 .. Len(fw) : fw'[i] \in Range(fw')
  BY <1>1, Zenon DEF Range
<1>3. PICK n \in Nat : n = Len(fw)
  BY <1>1, Zenon
<1>4. fw' = [i \in 1 .. n |-> fw'[i]]
  BY <1>1, <1>3, Zenon
<1>5. fw' \in [1 .. n -> Range(fw')]
  BY <1>1, <1>2, <1>3, <1>4, Zenon
<1>6. fw' \in Seq(Range(fw'))
  BY <1>5, IsSequence, Zenon
<1> QED BY <1>1, <1>6, Zenon

\* The same for an open that makes a writer.
LEMMA AddWriter ==
    ASSUME fw \in Seq(Range(fw)), NEW q, fw' = Append(fw, q)
    PROVE  /\ Len(fw') = Len(fw) + 1 /\ DOMAIN fw = 1 .. Len(fw) /\ DOMAIN fw' = 1 .. Len(fw) + 1
           /\ fw'[Len(fw) + 1] = q /\ \A i \in 1 .. Len(fw) : fw'[i] = fw[i]
           /\ fw' \in Seq(Range(fw')) /\ Len(fw) \in Nat
<1>0. fw \in Seq(Range(fw) \cup {q})
  OBVIOUS
<1>1. /\ Len(fw') = Len(fw) + 1 /\ DOMAIN fw = 1 .. Len(fw) /\ DOMAIN fw' = 1 .. Len(fw) + 1 /\ Len(fw) \in Nat
      /\ fw'[Len(fw) + 1] = q /\ \A i \in 1 .. Len(fw) : fw'[i] = fw[i]
      /\ fw' \in Seq(Range(fw) \cup {q})
  BY <1>0
<1>2. \A i \in 1 .. Len(fw) + 1 : fw'[i] \in Range(fw')
  BY <1>1, Zenon DEF Range
<1>3. PICK n \in Nat : n = Len(fw')
  BY <1>1
<1>4. fw' = [i \in 1 .. n |-> fw'[i]]
  <2>1. fw' \in [1 .. Len(fw') -> Range(fw) \cup {q}]
    BY <1>1, LenProperties, Zenon
  <2> QED BY <1>3, <2>1, Zenon
<1>5. fw' \in [1 .. n -> Range(fw')]
  BY <1>1, <1>2, <1>3, <1>4, Zenon
<1>6. fw' \in Seq(Range(fw'))
  BY <1>5, IsSequence, Zenon
<1> QED BY <1>1, <1>6, Zenon

\* FileWriter::finish, also when it fails, changes one writer.
LEMMA FinishTouches ==
    ASSUME Writers, NEW r \in Requests, NEW w \in 1 .. Len(fw), Finish(w) \/ FinishFails(w),
           pc'[r] = "lclose" => w = entry
    PROVE  Touch(r)
<1>1. WriterShape(fw[w])
  BY Zenon DEF Writers
<1>2. CASE Finish(w)
  <2>1. fw' = [fw EXCEPT ![w].pend = 0]
    BY <1>2, Zenon DEF Finish
  <2>2. PICK q : q = [len |-> fw[w].len, pend |-> 0, refs |-> fw[w].refs, failed |-> fw[w].failed]
    BY Zenon
  <2>3. [fw[w] EXCEPT !.pend = 0] = q
    BY <1>1, <2>2, FieldChanged, Zenon DEF WriterShape
  <2>4. fw' = [fw EXCEPT ![w] = q]
    BY <2>1, <2>3, Zenon
  <2>5. WriterShape(q) /\ q.refs = fw[w].refs /\ q.failed = fw[w].failed /\ q.pend = 0
    BY <1>1, <2>2, Zenon DEF WriterShape
  <2> QED BY <2>4, <2>5, Zenon DEF Touch
<1>3. CASE FinishFails(w)
  <2>1. fw' = [fw EXCEPT ![w].failed = TRUE]
    BY <1>3, Zenon DEF FinishFails
  <2>2. PICK q : q = [len |-> fw[w].len, pend |-> fw[w].pend, refs |-> fw[w].refs, failed |-> TRUE]
    BY Zenon
  <2>3. [fw[w] EXCEPT !.failed = TRUE] = q
    BY <1>1, <2>2, FieldChanged, Zenon DEF WriterShape
  <2>4. fw' = [fw EXCEPT ![w] = q]
    BY <2>1, <2>3, Zenon
  <2>5. WriterShape(q) /\ q.refs = fw[w].refs /\ q.failed
    BY <1>1, <2>2, Zenon DEF WriterShape
  <2> QED BY <2>4, <2>5, Zenon DEF Touch
<1> QED BY <1>2, <1>3, Zenon

\* A write that holds the lock works on the writer of its handle, which is the
\* one of the file.
LEMMA WriterOfWrite ==
    ASSUME LockInv, RequestsOK, Held, Writers, NEW r \in Requests,
           pc[r] = "wlocked", req[r].kind = "write"
    PROVE  /\ req[r].h \in Handles /\ Uses(r, req[r].h) /\ ref[req[r].h] = entry
           /\ entry \in 1 .. Len(fw) /\ WriterShape(fw[entry])
<1>1. PICK h : h = req[r].h
  BY Zenon
<1>2. h \in Handles /\ Uses(r, h)
  <2>1. WriteShape(req[r])
    BY DEF RequestsOK, Fits, None, FlushShape, TruncateShape, ReadShape, ReadSteps, ReleaseShape,
       ReleaseSteps, OpenShape, OpenedShape
  <2> QED BY <1>1, <2>1, Zenon DEF WriteShape, Uses
<1>3. ref[h] = entry /\ entry \in 1 .. Len(fw) /\ WriterShape(fw[entry])
  BY <1>2, SMTT(20) DEF Held, Writers, HandleKeepsWriter
<1> QED BY <1>1, <1>2, <1>3, Zenon

\* write changes the writer of its handle, which is the one of the file.
LEMMA WriteTouches ==
    ASSUME LockInv, RequestsOK, Held, Writers, NEW r \in Requests, WriteData(r)
    PROVE  Touch(r)
<1>1. /\ pc[r] = "wlocked" /\ req[r].kind = "write" /\ pc'[r] = "wrote"
  BY Zenon DEF WriteData, Is, Step, Goto, LockInv, DataOK
<1>2. PICK h : h = req[r].h
  BY Zenon
<1>3. h \in Handles /\ Uses(r, h) /\ ref[h] = entry
  BY <1>1, <1>2, WriterOfWrite, Zenon
<1>4. PICK w : w = ref[h]
  BY Zenon
<1>5. w = entry /\ w \in 1 .. Len(fw) /\ WriterShape(fw[w])
  BY <1>1, <1>3, <1>4, WriterOfWrite, Zenon
<1>6. PICK m, n : fw' = [fw EXCEPT ![w].len = m, ![w].pend = n]
  BY <1>2, <1>4, Zenon DEF WriteData
<1>7. PICK q : q = [len |-> m, pend |-> n, refs |-> fw[w].refs, failed |-> fw[w].failed]
  BY Zenon
<1>8. PICK p : p = [len |-> m, pend |-> fw[w].pend, refs |-> fw[w].refs, failed |-> fw[w].failed]
  BY Zenon
<1>9. [fw[w] EXCEPT !.len = m] = p
  BY <1>5, <1>8, FieldChanged, Zenon DEF WriterShape
<1>10. p = [len |-> p.len, pend |-> p.pend, refs |-> p.refs, failed |-> p.failed]
       /\ p.len = m /\ p.refs = fw[w].refs /\ p.failed = fw[w].failed
  BY <1>8, Zenon
<1>11. [p EXCEPT !.pend = n] = q
  <2>1. [p EXCEPT !.pend = n] = [len |-> p.len, pend |-> n, refs |-> p.refs, failed |-> p.failed]
    BY <1>10, FieldChanged, Zenon
  <2> QED BY <1>7, <1>10, <2>1, Zenon
<1>12. [fw[w] EXCEPT !.len = m, !.pend = n] = q
  <2>1. [fw[w] EXCEPT !.len = m, !.pend = n] = [[fw[w] EXCEPT !.len = m] EXCEPT !.pend = n]
    BY Zenon
  <2> QED BY <1>9, <1>11, <2>1, Zenon
<1>13. fw' = [fw EXCEPT ![w] = q]
  BY <1>6, <1>12, Zenon
<1>14. WriterShape(q) /\ q.refs = fw[w].refs /\ q.failed = fw[w].failed
  BY <1>5, <1>7, Zenon DEF WriterShape
<1> QED BY <1>1, <1>3, <1>5, <1>13, <1>14, Zenon DEF Touch

\* So does a write that fails.
LEMMA FailedWriteTouches ==
    ASSUME LockInv, RequestsOK, Held, Writers, NEW r \in Requests, WriteFails(r)
    PROVE  Touch(r)
<1>1. /\ pc[r] = "wlocked" /\ req[r].kind = "write" /\ pc'[r] = "wdrop"
  BY Zenon DEF WriteFails, Is, Step, Goto, LockInv, DataOK
<1>2. PICK h : h = req[r].h
  BY Zenon
<1>3. h \in Handles /\ Uses(r, h) /\ ref[h] = entry
  BY <1>1, <1>2, WriterOfWrite, Zenon
<1>4. PICK w : w = ref[h]
  BY Zenon
<1>5. w = entry /\ w \in 1 .. Len(fw) /\ WriterShape(fw[w])
  BY <1>1, <1>3, <1>4, WriterOfWrite, Zenon
<1>6. PICK n : fw' = [fw EXCEPT ![w].pend = n]
  BY <1>2, <1>4, Zenon DEF WriteFails
<1>7. PICK q : q = [len |-> fw[w].len, pend |-> n, refs |-> fw[w].refs, failed |-> fw[w].failed]
  BY Zenon
<1>8. [fw[w] EXCEPT !.pend = n] = q
  BY <1>5, <1>7, FieldChanged, Zenon DEF WriterShape
<1>9. fw' = [fw EXCEPT ![w] = q]
  BY <1>6, <1>8, Zenon
<1>10. WriterShape(q) /\ q.refs = fw[w].refs /\ q.failed = fw[w].failed
  BY <1>5, <1>7, Zenon DEF WriterShape
<1> QED BY <1>1, <1>3, <1>5, <1>9, <1>10, Zenon DEF Touch

\* truncate changes the length of the writer of the file.
LEMMA SetLengthTouches ==
    ASSUME LockInv, RequestsOK, Writers, NEW r \in Requests, TruncateSetLength(r)
    PROVE  (fw' = fw \/ Touch(r)) /\ pc'[r] # "lclose"
<1>1. pc'[r] = "treaders"
  BY Zenon DEF TruncateSetLength, Step, Goto, LockInv, DataOK
<1>2. CASE entry = 0
  BY <1>1, <1>2, Zenon DEF TruncateSetLength
<1>3. CASE entry # 0
  <2>1. PICK n : fw' = [fw EXCEPT ![entry].len = n]
    BY <1>3, Zenon DEF TruncateSetLength
  <2>2. entry \in 1 .. Len(fw) /\ WriterShape(fw[entry])
    BY <1>3 DEF Writers
  <2>3. PICK q : q = [len |-> n, pend |-> fw[entry].pend, refs |-> fw[entry].refs, failed |-> fw[entry].failed]
    BY Zenon
  <2>4. [fw[entry] EXCEPT !.len = n] = q
    BY <2>2, <2>3, FieldChanged, Zenon DEF WriterShape
  <2>5. fw' = [fw EXCEPT ![entry] = q]
    BY <2>1, <2>4, Zenon
  <2>6. WriterShape(q) /\ q.refs = fw[entry].refs /\ q.failed = fw[entry].failed /\ q.pend = fw[entry].pend
    BY <2>2, <2>3, Zenon DEF WriterShape
  <2> QED BY <1>1, <2>2, <2>5, <2>6, Zenon DEF Touch
<1> QED BY <1>2, <1>3, Zenon

\* The flushes of read, flush, truncate and release.
LEMMA FlushTouches ==
    ASSUME LockInv, RequestsOK, Held, Writers, NEW r \in Requests,
           \/ ReadFlush(r) \/ ReadFlushFails(r) \/ TruncateFlush(r) \/ FlushWriter(r)
           \/ ReleaseFlush(r) \/ ReleaseFinish(r)
    PROVE  (fw' = fw /\ pc'[r] # "lclose") \/ Touch(r)
<1>1. CASE ReadFlush(r) \/ ReadFlushFails(r) \/ TruncateFlush(r)
  <2>1. pc'[r] # "lclose"
    BY <1>1, Zenon DEF ReadFlush, ReadFlushFails, TruncateFlush, Step, Goto, LockInv, DataOK
  <2>2. fw' = fw \/ (entry # 0 /\ (Finish(entry) \/ FinishFails(entry)))
    BY <1>1, Zenon DEF ReadFlush, ReadFlushFails, TruncateFlush, DirectFlush
  <2>3. entry # 0 => entry \in 1 .. Len(fw)
    BY DEF Writers
  <2> QED BY <2>1, <2>2, <2>3, FinishTouches, SMTT(20)
<1>2. CASE FlushWriter(r) \/ ReleaseFlush(r) \/ ReleaseFinish(r)
  <2>1. PICK h : h = req[r].h
    BY Zenon
  <2>2. /\ pc'[r] = "lclose" => pc[r] = "lfinish"
        /\ pc[r] \in {"wlocked", "lflush", "lfinish"}
        /\ pc[r] = "wlocked" => req[r].kind = "flush"
    BY <1>2, Zenon DEF FlushWriter, ReleaseFlush, ReleaseFinish, Is, Step, Goto, LockInv, DataOK
  <2>3. /\ h \in Handles
        /\ pc[r] = "wlocked" => Uses(r, h)
        /\ pc[r] \in {"lflush", "lfinish"} => Releases(r, h)
    <3>1. CASE pc[r] = "wlocked"
      <4>1. FlushShape(req[r])
        BY <2>2, <3>1 DEF RequestsOK, Fits, None, WriteShape, TruncateShape, ReadShape, ReadSteps,
           ReleaseShape, ReleaseSteps, OpenShape, OpenedShape
      <4> QED BY <2>1, <3>1, <4>1 DEF FlushShape, Uses
    <3>2. CASE pc[r] \in {"lflush", "lfinish"}
      <4>1. ReleaseShape(req[r])
        BY <3>2, KindOf, Zenon DEF ReleaseSteps
      <4> QED BY <2>1, <3>2, <4>1 DEF ReleaseShape, Releases
    <3> QED BY <2>2, <3>1, <3>2, Zenon
  <2>4. PICK w : w = ref[h]
    BY Zenon
  <2>5. \/ fw' = fw /\ pc[r] = "lflush"
        \/ (w # 0 \/ pc[r] # "lflush") /\ (Finish(w) \/ FinishFails(w))
    <3>1. CASE FlushWriter(r)
      BY <2>1, <2>4, <3>1, Zenon DEF FlushWriter, Step
    <3>2. CASE ReleaseFlush(r)
      BY <2>1, <2>4, <3>2, Zenon DEF ReleaseFlush, Step
    <3>3. CASE ReleaseFinish(r)
      BY <2>1, <2>4, <3>3, Zenon DEF ReleaseFinish, Step
    <3> QED BY <1>2, <3>1, <3>2, <3>3, SMTT(20)
  <2>6. pc[r] # "lflush" => w # 0
    BY <2>2, <2>3, <2>4, Zenon DEF Held
  <2>7. w # 0 => w = entry /\ w \in 1 .. Len(fw)
    BY <2>3, <2>4 DEF Writers, HandleKeepsWriter
  <2> QED BY <2>2, <2>5, <2>6, <2>7, FinishTouches, Zenon
<1> QED BY <1>1, <1>2, Zenon

\* Every step that serves a request changes one writer at most, but for an
\* open that gets a writer and a release that gives it back.
LEMMA ServeTouches ==
    ASSUME LockInv, RequestsOK, Held, Writers, NEW r \in Requests, Serve(r)
    PROVE  \/ OpenWriter(r) \/ ReleaseWriter(r)
           \/ /\ UNCHANGED <<ref, entry>>
              /\ (fw' = fw /\ pc'[r] # "lclose") \/ Touch(r)
<1>1. CASE LockStep(r) /\ UNCHANGED fileVars
  <2>1. pc'[r] # "lclose"
    BY <1>1, Zenon DEF LockInv, DataOK, Goto, LockStep, Park, Woken, ReadCheckWaiters, ReadCheckExclusive,
         ReadEnter, ReadRelease, ReadNotify, WriteAnnounce, WriteCheckReaders, WriteCheckExclusive,
         WriteCas, WriteLeave, WriteRelease, WriteNotify
  <2> QED BY <1>1, <2>1, Zenon DEF fileVars
<1>2. CASE \/ ReadFlush(r) \/ ReadFlushFails(r) \/ TruncateFlush(r) \/ FlushWriter(r)
           \/ ReleaseFlush(r) \/ ReleaseFinish(r)
  <2>1. UNCHANGED <<ref, entry>>
    BY <1>2, Zenon DEF ReadFlush, ReadFlushFails, TruncateFlush, FlushWriter, ReleaseFlush, ReleaseFinish
  <2> QED BY <1>2, <2>1, FlushTouches, SMTT(20)
<1>3. CASE WriteData(r) \/ WriteFails(r) \/ TruncateSetLength(r)
  <2>1. UNCHANGED <<ref, entry>>
    BY <1>3, Zenon DEF WriteData, WriteFails, TruncateSetLength
  <2> QED BY <1>3, <2>1, WriteTouches, FailedWriteTouches, SetLengthTouches, SMTT(20)
<1>4. CASE \/ ReadData(r) \/ WriteGetLength(r) \/ WriteTruncateReader(r)
           \/ TruncateNext(r) \/ TruncateLocked(r) \/ TruncateMeta(r) \/ TruncateMetaFails(r) \/ TruncateReaders(r)
  <2>1. UNCHANGED <<ref, entry, fw>>
    BY <1>4, Zenon DEF fileVars, ReadData, WriteGetLength, WriteTruncateReader, TruncateNext,
       TruncateLocked, TruncateMeta, TruncateMetaFails, TruncateReaders
  <2>2. pc'[r] # "lclose"
    BY <1>4, Zenon DEF LockInv, DataOK, Goto, Step, ReadData, WriteGetLength, WriteTruncateReader,
       TruncateNext, TruncateLocked, TruncateMeta, TruncateMetaFails, TruncateReaders
  <2> QED BY <2>1, <2>2, Zenon
<1>5. CASE \/ OpenInode(r) \/ OpenLength(r) \/ OpenTellReaders(r) \/ OpenReader(r)
           \/ OpenRefused(r) \/ OpenInsert(r) \/ ReleaseDrain(r) \/ ReleaseMeta(r)
           \/ ReleaseRemove(r) \/ ReleaseReader(r)
  <2>1. UNCHANGED <<ref, entry, fw>>
    BY <1>5, Zenon DEF fileVars, OpenInode, OpenLength, OpenTellReaders, OpenReader,
       OpenRefused, OpenInsert, ReleaseDrain, ReleaseMeta, ReleaseRemove, ReleaseReader
  <2>2. pc'[r] # "lclose"
    BY <1>5, Zenon DEF LockInv, DataOK, Goto, Step, DrainCheck, OpenInode, OpenLength,
       OpenTellReaders, OpenReader, OpenRefused, OpenInsert, ReleaseDrain, ReleaseMeta,
       ReleaseRemove, ReleaseReader
  <2> QED BY <2>1, <2>2, Zenon
<1> QED BY <1>1, <1>2, <1>3, <1>4, <1>5, Zenon DEF Serve

\* A handle does not come to be closed but by the release that flushes it.
LEMMA ClosingBefore ==
    ASSUME LockInv, RequestsOK, NEW r \in Requests, Effect(r), pc'[r] # "lclose", NEW h, Closing(h)'
    PROVE  Closing(h)
<1>1. PICK x \in Requests : Releases(x, h)' /\ pc'[x] = "lclose"
  BY Zenon DEF Closing
<1>2. x # r /\ Releases(x, h) /\ pc[x] = "lclose"
  BY <1>1, SameNames, Zenon DEF Effect, Own
<1> QED BY <1>2, Zenon DEF Closing

\* A step that changes one writer, and not who uses it.
LEMMA TouchWriters ==
    ASSUME LockInv, RequestsOK, Held, Writers, NEW r \in Requests, Effect(r), Touch(r),
           UNCHANGED <<ref, entry>>
    PROVE  Writers'
<1>1. PICK w \in 1 .. Len(fw) : \E q :
        /\ fw' = [fw EXCEPT ![w] = q] /\ WriterShape(q)
        /\ q.refs = fw[w].refs /\ (fw[w].failed => q.failed)
        /\ \/ q.pend = 0 \/ q.failed
           \/ q.pend = fw[w].pend /\ pc'[r] # "lclose"
           \/ w = entry /\ pc'[r] # "lclose" /\ \E h \in Handles : Uses(r, h)
        /\ pc'[r] = "lclose" => w = entry
  BY Zenon DEF Touch
<1>2. PICK q :
        /\ fw' = [fw EXCEPT ![w] = q] /\ WriterShape(q)
        /\ q.refs = fw[w].refs /\ (fw[w].failed => q.failed)
        /\ \/ q.pend = 0 \/ q.failed
           \/ q.pend = fw[w].pend /\ pc'[r] # "lclose"
           \/ w = entry /\ pc'[r] # "lclose" /\ \E h \in Handles : Uses(r, h)
        /\ pc'[r] = "lclose" => w = entry
  BY <1>1, Zenon
<1>3. /\ Len(fw') = Len(fw) /\ DOMAIN fw = 1 .. Len(fw) /\ DOMAIN fw' = 1 .. Len(fw)
      /\ fw'[w] = q /\ \A i \in 1 .. Len(fw) : i # w => fw'[i] = fw[i]
      /\ fw' \in Seq(Range(fw'))
  BY <1>2, ReplaceWriter, Zenon DEF Writers
<1>4. Users' = Users
  BY Zenon DEF Users
<1>5. \A i \in 1 .. Len(fw') : WriterShape(fw'[i])
  BY <1>2, <1>3, Zenon DEF Writers
<1>6. HandleKeepsWriter' /\ ref' \in [Handles -> Nat] /\ entry' \in 0 .. Len(fw')
  BY <1>3, Zenon DEF Writers, HandleKeepsWriter
<1>7. NoWriteLost'
  <2> SUFFICES ASSUME NEW i \in 1 .. Len(fw), i # entry, ~fw'[i].failed PROVE fw'[i].pend = 0
    BY <1>3, Zenon DEF NoWriteLost
  <2>1. i = w \/ fw'[i] = fw[i]
    BY <1>3, Zenon
  <2>2. fw[i].failed \/ fw[i].pend = 0
    BY <1>3, Zenon DEF Writers, NoWriteLost
  <2> QED BY <1>2, <1>3, <2>1, <2>2, SMTT(20)
<1>8. entry' # 0 => fw'[entry'].refs = Cardinality(Users') /\ Users' # {}
  <2>1. entry # 0 => entry \in 1 .. Len(fw) /\ fw[entry].refs = Cardinality(Users) /\ Users # {}
    BY DEF Writers
  <2>2. entry # 0 => fw'[entry].refs = fw[entry].refs
    BY <1>2, <1>3, <2>1, Zenon
  <2> QED BY <1>4, <2>1, <2>2, Zenon
<1>9. ASSUME entry' # 0, fw'[entry'].pend # 0, ~fw'[entry'].failed
      PROVE  \E h \in Users' : ~Closing(h)'
  <2>1. entry \in 1 .. Len(fw) /\ (fw[entry].pend = 0 \/ fw[entry].failed \/ \E h \in Users : ~Closing(h))
    BY <1>9 DEF Writers
  <2>2. pc'[r] # "lclose"
    BY <1>2, <1>3, <1>9, Zenon
  <2>3. CASE fw'[entry].pend = fw[entry].pend /\ (fw[entry].failed => fw'[entry].failed)
    <3>1. PICK h \in Users : ~Closing(h)
      BY <1>9, <2>1, <2>3, Zenon
    <3>2. ~Closing(h)'
      BY <2>2, <3>1, ClosingBefore, Zenon
    <3> QED BY <1>4, <3>1, <3>2, Zenon
  <2>4. CASE \E h \in Handles : Uses(r, h)
    <3>1. PICK h \in Handles : Uses(r, h)
      BY <2>4, Zenon
    <3>2. h \in Users /\ ~Closing(h)
      BY <3>1, Zenon DEF Held, Users, Closing
    <3>3. ~Closing(h)'
      BY <2>2, <3>2, ClosingBefore, SMTT(20)
    <3> QED BY <1>4, <3>2, <3>3, Zenon
  <2> QED BY <1>2, <1>3, <1>9, <2>1, <2>2, <2>3, <2>4, Zenon
<1> QED BY <1>3, <1>5, <1>6, <1>7, <1>8, <1>9, Zenon DEF Writers

\* A step that leaves the writers alone.
LEMMA CalmWriters ==
    ASSUME LockInv, RequestsOK, Writers, NEW r \in Requests, Effect(r), pc'[r] # "lclose",
           UNCHANGED <<ref, entry, fw>>
    PROVE  Writers'
<1>1. Users' = Users
  BY Zenon DEF Users
<1>2. \A h : Closing(h)' => Closing(h)
  BY ClosingBefore, Zenon
<1>3. HandleKeepsWriter' /\ NoWriteLost' /\ \A i \in 1 .. Len(fw') : WriterShape(fw'[i])
  BY Zenon DEF Writers, HandleKeepsWriter, NoWriteLost, WriterShape
<1>4. fw' \in Seq(Range(fw'))
  BY Zenon DEF Writers
<1> QED BY <1>1, <1>2, <1>3, <1>4, Zenon DEF Writers

\* An open gets the writer of the file, or makes one.
LEMMA OpenCounted ==
    ASSUME LockInv, RequestsOK, Once, Existing, Writers, NEW r \in Requests, Effect(r), OpenWriter(r)
    PROVE  Writers'
<1>1. pc[r] = "owriter" /\ pc'[r] = "oinsert"
  BY Zenon DEF OpenWriter, Step, Goto, LockInv, DataOK
<1>2. PICK h : h = req[r].h
  BY Zenon
<1>3. h \in Handles /\ Opens(r, h)
  <2>1. OpenedShape(req[r])
    BY <1>1, KindOf, Zenon
  <2> QED BY <1>2, <2>1 DEF OpenedShape, Opens
<1>4. ~Equipped(h) /\ ~Settled(h)
  BY <1>1, <1>3, OpeningIsNew, Zenon
<1>5. ref[h] = 0 /\ h \notin Users /\ ~Closing(h)
  BY <1>3, <1>4, Zenon DEF Existing, Users, Closing
<1>6. \A x : Closing(x)' => Closing(x)
  BY <1>1, ClosingBefore, Zenon
<1>7. ref' = [ref EXCEPT ![h] = entry'] /\ ref \in [Handles -> Nat] /\ entry \in 0 .. Len(fw) /\ Len(fw) \in Nat
  BY <1>2 DEF OpenWriter, Writers
<1>8. IsFiniteSet(Users)
  BY FileHandleConstants, FS_Subset, Zenon DEF Users
<1>9. CASE entry # 0
  <2>1. fw' = [fw EXCEPT ![entry].refs = fw[entry].refs + 1] /\ entry' = entry
    BY <1>9, Zenon DEF OpenWriter
  <2>2. entry \in 1 .. Len(fw) /\ WriterShape(fw[entry])
    BY <1>9 DEF Writers
  <2>3. PICK q : q = [len |-> fw[entry].len, pend |-> fw[entry].pend, refs |-> fw[entry].refs + 1,
                      failed |-> fw[entry].failed]
    BY Zenon
  <2>4. [fw[entry] EXCEPT !.refs = fw[entry].refs + 1] = q
    BY <2>2, <2>3, FieldChanged, Zenon DEF WriterShape
  <2>5. fw' = [fw EXCEPT ![entry] = q]
    BY <2>1, <2>4, Zenon
  <2>6. /\ WriterShape(q) /\ q.refs = fw[entry].refs + 1 /\ q.failed = fw[entry].failed
        /\ q.pend = fw[entry].pend
    BY <2>2, <2>3 DEF WriterShape
  <2>7. /\ Len(fw') = Len(fw) /\ DOMAIN fw = 1 .. Len(fw) /\ DOMAIN fw' = 1 .. Len(fw)
        /\ fw'[entry] = q /\ \A i \in 1 .. Len(fw) : i # entry => fw'[i] = fw[i]
        /\ fw' \in Seq(Range(fw'))
    BY <2>2, <2>5, ReplaceWriter, Zenon DEF Writers
  <2>8. Users' = Users \cup {h}
    BY <1>3, <1>7, <1>9, <2>1, SMTT(20) DEF Users
  <2>9. Cardinality(Users') = Cardinality(Users) + 1
    BY <1>5, <1>8, <2>8, FS_AddElement, SMTT(20)
  <2>10. \A i \in 1 .. Len(fw') : WriterShape(fw'[i])
    BY <2>6, <2>7, Zenon DEF Writers
  <2>11. HandleKeepsWriter' /\ ref' \in [Handles -> Nat] /\ entry' \in 0 .. Len(fw')
    BY <1>3, <1>7, <2>1, <2>7 DEF Writers, HandleKeepsWriter
  <2>12. NoWriteLost'
    BY <2>1, <2>7, Zenon DEF Writers, NoWriteLost
  <2>13. fw'[entry'].refs = Cardinality(Users') /\ Users' # {}
    BY <1>9, <2>1, <2>6, <2>7, <2>8, <2>9, Zenon DEF Writers
  <2>14. \E x \in Users' : ~Closing(x)'
    BY <1>5, <1>6, <2>8, Zenon
  <2> QED BY <2>7, <2>10, <2>11, <2>12, <2>13, <2>14, Zenon DEF Writers
<1>10. CASE entry = 0
  <2>1. PICK q : q = NewWriter(req[r].len)
    BY Zenon
  <2>2. WriterShape(q) /\ q.refs = 1 /\ q.failed = FALSE /\ q.pend = 0
    BY <2>1, Zenon DEF WriterShape, NewWriter
  <2>3. fw' = Append(fw, q) /\ entry' = Len(fw) + 1
    BY <1>10, <2>1, Zenon DEF OpenWriter
  <2>4. /\ Len(fw') = Len(fw) + 1 /\ DOMAIN fw = 1 .. Len(fw) /\ DOMAIN fw' = 1 .. Len(fw) + 1
        /\ fw'[Len(fw) + 1] = q /\ \A i \in 1 .. Len(fw) : fw'[i] = fw[i]
        /\ fw' \in Seq(Range(fw'))
    BY <2>3, AddWriter, Zenon DEF Writers
  <2>5. \A x \in Handles : ref[x] = 0
    BY <1>10, Zenon DEF Writers, HandleKeepsWriter
  <2>6. Users = {} /\ Users' = {h}
    BY <1>3, <1>7, <2>3, <2>5 DEF Users
  <2>7. Cardinality(Users') = 1
    BY <2>6, FS_Singleton, Zenon
  <2>8. \A i \in 1 .. Len(fw') : WriterShape(fw'[i])
    BY <1>7, <2>2, <2>4 DEF Writers
  <2>9. HandleKeepsWriter' /\ ref' \in [Handles -> Nat] /\ entry' \in 0 .. Len(fw')
    BY <1>3, <1>7, <2>3, <2>4, <2>5 DEF HandleKeepsWriter
  <2>10. NoWriteLost'
    BY <1>7, <1>10, <2>3, <2>4, SMTT(20) DEF Writers, NoWriteLost
  <2>11. fw'[entry'].refs = Cardinality(Users') /\ Users' # {} /\ fw'[entry'].pend = 0
    BY <2>2, <2>3, <2>4, <2>6, <2>7, Zenon
  <2> QED BY <2>4, <2>8, <2>9, <2>10, <2>11, Zenon DEF Writers
<1> QED BY <1>9, <1>10, Zenon

\* A release gives its writer back, and the last one retires it.
LEMMA ReleaseCounted ==
    ASSUME LockInv, RequestsOK, Once, Held, Writers, NEW r \in Requests, Effect(r), ReleaseWriter(r)
    PROVE  Writers'
<1>1. pc[r] = "lclose" /\ pc'[r] = "done"
  BY Zenon DEF ReleaseWriter, Step, Goto, LockInv, DataOK
<1>2. PICK h : h = req[r].h
  BY Zenon
<1>3. h \in Handles /\ Releases(r, h)
  <2>1. ReleaseShape(req[r])
    BY <1>1, KindOf, Zenon DEF ReleaseSteps
  <2> QED BY <1>2, <2>1 DEF ReleaseShape, Releases
<1>4. ref[h] # 0 /\ ref[h] = entry /\ entry \in 1 .. Len(fw) /\ h \in Users
  BY <1>1, <1>3 DEF Held, Writers, HandleKeepsWriter, Users
<1>5. IsFiniteSet(Users) /\ Cardinality(Users) \in Nat
  BY FileHandleConstants, FS_Subset, FS_CardinalityType, Zenon DEF Users
<1>6. /\ WriterShape(fw[entry]) /\ fw[entry].refs = Cardinality(Users)
      /\ fw[entry].pend = 0 \/ fw[entry].failed \/ \E x \in Users : ~Closing(x)
  BY <1>4, Zenon DEF Writers
<1>7. ref' = [ref EXCEPT ![h] = 0] /\ ref \in [Handles -> Nat] /\ Len(fw) \in Nat
  BY <1>2 DEF ReleaseWriter, Writers
<1>8. Users' = Users \ {h}
  BY <1>3, <1>7, Zenon DEF Users
<1>9. Cardinality(Users') = Cardinality(Users) - 1 /\ IsFiniteSet(Users')
  BY <1>4, <1>5, <1>8, FS_RemoveElement, SMTT(20)
<1>10. Cardinality(Users') \in Nat /\ fw[entry].refs # 0
  BY <1>5, <1>6, <1>9, FS_CardinalityType, SMTT(20)
<1>11. /\ fw' = [fw EXCEPT ![entry].refs = fw[entry].refs - 1]
       /\ entry' = IF fw[entry].refs = 1 THEN 0 ELSE entry
  BY <1>2, <1>4, <1>10, Zenon DEF ReleaseWriter
<1>12. PICK q : q = [len |-> fw[entry].len, pend |-> fw[entry].pend, refs |-> fw[entry].refs - 1,
                     failed |-> fw[entry].failed]
  BY Zenon
<1>13. [fw[entry] EXCEPT !.refs = fw[entry].refs - 1] = q
  BY <1>6, <1>12, FieldChanged, Zenon DEF WriterShape
<1>14. fw' = [fw EXCEPT ![entry] = q]
  BY <1>11, <1>13, Zenon
<1>15. /\ WriterShape(q) /\ q.refs = fw[entry].refs - 1 /\ q.failed = fw[entry].failed
       /\ q.pend = fw[entry].pend
  BY <1>5, <1>6, <1>10, <1>12 DEF WriterShape
<1>16. /\ Len(fw') = Len(fw) /\ DOMAIN fw = 1 .. Len(fw) /\ DOMAIN fw' = 1 .. Len(fw)
       /\ fw'[entry] = q /\ \A i \in 1 .. Len(fw) : i # entry => fw'[i] = fw[i]
       /\ fw' \in Seq(Range(fw'))
  BY <1>4, <1>14, ReplaceWriter, Zenon DEF Writers
<1>17. \A i \in 1 .. Len(fw') : WriterShape(fw'[i])
  BY <1>15, <1>16, Zenon DEF Writers
<1>18. ref' \in [Handles -> Nat] /\ entry' \in 0 .. Len(fw')
  <2>1. ref' \in [Handles -> Nat]
    BY <1>7, Zenon
  <2>2. PICK n : n = Len(fw)
    BY Zenon
  <2>3. entry' \in 0 .. n
    BY <1>4, <1>7, <1>11, <2>2, SMTT(20)
  <2> QED BY <1>16, <2>1, <2>2, <2>3, SMTT(20)
<1>19. CASE fw[entry].refs = 1
  <2>1. entry' = 0 /\ Users' = {}
    BY <1>6, <1>9, <1>11, <1>19, FS_EmptySet
  <2>2. HandleKeepsWriter'
    BY <2>1, Zenon DEF HandleKeepsWriter, Users
  <2>3. Closing(h) /\ \A x \in Users : x = h
    BY <1>1, <1>3, <1>8, <2>1, SMTT(20) DEF Closing
  <2>4. q.pend = 0 \/ q.failed
    BY <1>6, <1>15, <2>3, SMTT(20)
  <2>5. NoWriteLost'
    BY <1>16, <2>1, <2>4, SMTT(20) DEF Writers, NoWriteLost
  <2> QED BY <1>16, <1>17, <1>18, <2>1, <2>2, <2>5, Zenon DEF Writers
<1>20. CASE fw[entry].refs # 1
  <2>1. entry' = entry /\ Users' # {}
    BY <1>5, <1>6, <1>9, <1>11, <1>20, FS_EmptySet
  <2>2. HandleKeepsWriter'
    BY <1>3, <1>7, <2>1, SMTT(20) DEF Writers, HandleKeepsWriter
  <2>3. NoWriteLost'
    BY <1>16, <2>1, Zenon DEF Writers, NoWriteLost
  <2>4. fw'[entry'].refs = Cardinality(Users')
    BY <1>6, <1>9, <1>15, <1>16, <2>1, Zenon
  <2>5. ASSUME fw'[entry'].pend # 0, ~fw'[entry'].failed
        PROVE  \E x \in Users' : ~Closing(x)'
    <3>1. PICK x \in Users : ~Closing(x)
      BY <1>6, <1>15, <1>16, <2>1, <2>5, Zenon
    <3>2. x # h
      BY <1>1, <1>3, <3>1, Zenon DEF Closing
    <3>3. ~Closing(x)'
      BY <1>1, <3>1, ClosingBefore, Zenon
    <3> QED BY <1>8, <3>1, <3>2, <3>3, Zenon
  <2> QED BY <1>16, <1>17, <1>18, <2>1, <2>2, <2>3, <2>4, <2>5, Zenon DEF Writers
<1> QED BY <1>19, <1>20, SMTT(20)

\* Serving a request keeps the invariant of the writers.
LEMMA ServeWriters ==
    ASSUME LockInv, RequestsOK, Once, Existing, Held, Writers, NEW r \in Requests, Serve(r), Effect(r)
    PROVE  Writers'
<1>1. CASE OpenWriter(r)
  BY <1>1, OpenCounted, Zenon
<1>2. CASE ReleaseWriter(r)
  BY <1>2, ReleaseCounted, Zenon
<1>3. CASE UNCHANGED <<ref, entry>> /\ Touch(r)
  BY <1>3, TouchWriters, Zenon
<1>4. CASE UNCHANGED <<ref, entry>> /\ fw' = fw /\ pc'[r] # "lclose"
  BY <1>4, CalmWriters, Zenon
<1> QED BY <1>1, <1>2, <1>3, <1>4, ServeTouches, Zenon

\* ... and so does a new request.
LEMMA ArriveWriters ==
    ASSUME Writers, NEW r \in Requests, Arrival(r) PROVE Writers'
<1>1. UNCHANGED <<ref, entry, fw>> /\ Own(r)
  BY Zenon DEF Arrival, fileVars
<1>2. Users' = Users
  BY <1>1, Zenon DEF Users
<1>3. ASSUME NEW h \in Handles, Closing(h)' PROVE Closing(h)
  <2>1. PICK x \in Requests : Releases(x, h)' /\ pc'[x] = "lclose"
    BY <1>3, Zenon DEF Closing
  <2>2. x # r
    BY <2>1, Zenon DEF Arrival, ArriveOpen, ArriveRelease, ArriveUse, ArriveTruncate, ArriveRead,
       Releases, Opens
  <2>3. Releases(x, h) /\ pc[x] = "lclose"
    BY <1>1, <2>1, <2>2, SMTT(20) DEF Own, Releases
  <2> QED BY <2>3, Zenon DEF Closing
<1>4. HandleKeepsWriter' /\ NoWriteLost' /\ \A i \in 1 .. Len(fw') : WriterShape(fw'[i])
  BY <1>1, Zenon DEF Writers, HandleKeepsWriter, NoWriteLost, WriterShape
<1>5. fw' \in Seq(Range(fw'))
  BY <1>1, Zenon DEF Writers
<1>6. \A h \in Users : h \in Handles
  BY Zenon DEF Users
<1> QED BY <1>1, <1>2, <1>3, <1>4, <1>5, <1>6, Zenon DEF Writers
-----------------------------------------------------------------------------
\* The inductive invariant of the file operations, beside that of the lock.
FileInv == Once /\ Existing /\ Held /\ Locked /\ Counting /\ Writers

\* It holds when some handles are open and nothing was requested.
LEMMA InitFile == Init => FileInv
<1> SUFFICES ASSUME Init PROVE FileInv
  BY Zenon
<1>1. /\ \A x \in Requests : req[x].kind = "none" /\ pc[x] = "idle"
      /\ table = Opened /\ opens = Cardinality(Opened) /\ Opened \subseteq Handles
  BY VfsHandlesConstants, Zenon DEF Init, LockInit, None
<1>2. ref = [h \in Handles |-> IF h \in Opened /\ mode[h] = "w" THEN 1 ELSE 0] /\ entry = 1
  BY Zenon DEF Init
<1>3. \A x \in Requests : \A h : ~Opens(x, h) /\ ~Releases(x, h) /\ ~Uses(x, h)
  BY <1>1, Zenon DEF Opens, Releases, Uses
<1>4. Once
  BY <1>3, Zenon DEF Once
<1>5. Existing
  BY <1>1, <1>2, <1>3, SMTT(20) DEF Existing, Settled, Equipped
<1>6. Held
  BY <1>3, Zenon DEF Held
<1>7. Locked
  BY <1>1, <1>3, Zenon DEF Locked
<1>8. Counting
  <2>1. Counted = Opened
    BY <1>1, <1>3, Zenon DEF Counted, Taken, Back
  <2>2. IsFiniteSet(Opened)
    BY <1>1, FileHandleConstants, FS_Subset, Zenon
  <2> QED BY <1>1, <2>1, <2>2, FS_CardinalityType, SMTT(20) DEF Counting
<1>9. Writers
  <2>1. PICK n : n = Cardinality({h \in Opened : mode[h] = "w"})
    BY Zenon
  <2>2. Users = {h \in Opened : mode[h] = "w"}
    BY <1>1, <1>2 DEF Users
  <2>3. Users # {}
    <3>1. mode \in Modes
      BY Zenon DEF Init
    <3> QED BY <2>2, <3>1, VfsHandlesConstants, Zenon
  <2>4. n \in Nat /\ n = Cardinality(Users)
    <3>1. IsFiniteSet(Users)
      BY FileHandleConstants, FS_Subset, Zenon DEF Users
    <3> QED BY <2>1, <2>2, <3>1, FS_CardinalityType, SMTT(20)
  <2>5. PICK q : q = [NewWriter(1) EXCEPT !.refs = n]
    BY Zenon
  <2>6. WriterShape(q) /\ q.refs = n /\ q.pend = 0
    BY <2>4, <2>5, Zenon DEF NewWriter, WriterShape
  <2>7. fw = <<q>>
    BY <2>1, <2>5, Zenon DEF Init
  <2>8. Len(fw) = 1 /\ DOMAIN fw = 1 .. 1 /\ fw[1] = q /\ fw \in Seq(Range(fw))
    <3>1. Len(fw) = 1 /\ DOMAIN fw = 1 .. 1 /\ fw[1] = q /\ fw \in Seq({q})
      BY <2>7
    <3>2. Range(fw) = {q}
      BY <3>1 DEF Range
    <3> QED BY <3>1, <3>2, Zenon
  <2>9. HandleKeepsWriter /\ ref \in [Handles -> Nat] /\ entry \in 0 .. 1
    BY <1>2 DEF HandleKeepsWriter
  <2>10. NoWriteLost
    BY <1>2, <2>8 DEF NoWriteLost
  <2>11. \A i \in 1 .. Len(fw) : WriterShape(fw[i])
    BY <2>6, <2>8
  <2> QED BY <1>2, <2>3, <2>4, <2>6, <2>8, <2>9, <2>10, <2>11, Zenon DEF Writers
<1> QED BY <1>4, <1>5, <1>6, <1>7, <1>8, <1>9, Zenon DEF FileInv

\* Every step keeps it: the arrival of a request, a step that serves one, and
\* a step of something else.
LEMMA NextFile == LockInv /\ RequestsOK /\ FileInv /\ [Next]_vars => FileInv'
<1> SUFFICES ASSUME LockInv, RequestsOK, FileInv, [Next]_vars PROVE FileInv'
  BY Zenon
<1>1. Once /\ Existing /\ Held /\ Locked /\ Counting /\ Writers
  BY Zenon DEF FileInv
<1>2. ASSUME NEW r \in Requests, Arrive(r) PROVE FileInv'
  <2>1. Arrival(r)
    BY <1>2, ArriveEffect, Zenon
  <2>2. Once' /\ Existing' /\ Held'
    BY <1>1, <2>1, ArriveOnce, Zenon
  <2>3. Locked'
    BY <1>1, <2>1, ArriveLocked, Zenon
  <2>4. Counting'
    BY <1>1, <2>1, ArriveCounting, Zenon
  <2>5. Writers'
    BY <1>1, <2>1, ArriveWriters, Zenon
  <2> QED BY <2>2, <2>3, <2>4, <2>5, SMTT(20) DEF FileInv
<1>3. ASSUME NEW r \in Requests, Serve(r) PROVE FileInv'
  <2>1. Effect(r) /\ LockWay(r)
    BY <1>3, ServeEffect, ServeWay, Zenon
  <2>2. Writers'
    BY <1>1, <1>3, <2>1, ServeWriters, SMTT(20)
  <2>3. entry' \in Nat
    <3>1. entry' \in 0 .. Len(fw') /\ fw' \in Seq(Range(fw'))
      BY <2>2, Zenon DEF Writers
    <3>2. PICK s : s = fw' /\ s \in Seq(Range(s))
      BY <3>1, Zenon
    <3>3. Len(s) \in Nat
      BY <3>2
    <3> QED BY <3>1, <3>2, <3>3
  <2>4. Once' /\ Existing' /\ Held'
    BY <1>1, <1>3, <2>1, <2>3, ServeOnce, ServeExisting, ServeHeld, Zenon
  <2>5. Locked'
    BY <1>1, <1>3, <2>1, ServeLocked, SMTT(20)
  <2>6. Counting'
    BY <1>1, <1>3, <2>1, ServeCounting, SMTT(20)
  <2> QED BY <2>2, <2>4, <2>5, <2>6, Zenon DEF FileInv
<1>4. CASE UNCHANGED vars
  <2>1. UNCHANGED <<pc, cur, guards, req, table, fw, entry, ref, opens>>
    BY <1>4, Zenon DEF vars, lockVars, fileVars
  <2> USE DEF Opens, Releases, Uses, HoldsWrite
  <2>2. Once'
    BY <1>1, <2>1, Zenon DEF Once
  <2>3. Existing'
    BY <1>1, <2>1 DEF Existing, Settled, Equipped
  <2>4. Held'
    BY <1>1, <2>1, Zenon DEF Held
  <2>5. Locked'
    BY <1>1, <2>1, Zenon DEF Locked
  <2>6. Counting'
    BY <1>1, <2>1, SMTT(20) DEF Counting, Counted, Taken, Back
  <2>7. Writers'
    BY <1>1, <2>1 DEF Writers, Users, Closing, WriterShape, HandleKeepsWriter, NoWriteLost
  <2> QED BY <2>2, <2>3, <2>4, <2>5, <2>6, <2>7, Zenon DEF FileInv
<1> QED BY <1>2, <1>3, <1>4, Zenon DEF Next

\* The invariant holds throughout, for any handles, requests, access modes
\* and faults.
THEOREM FileInvariant == Spec => [](LockInv /\ RequestsOK /\ FileInv)
<1>1. Init => FileInv
  BY InitFile, Zenon
<1>2. LockInv /\ RequestsOK /\ FileInv /\ [Next]_vars => FileInv'
  BY NextFile, Zenon
<1> QED BY <1>1, <1>2, LockInvariant, PTL DEF Spec

\* "All file handle share the single one [FileWriter]" (writer.rs:62): as
\* long as a handle has a writer it is the one in file_writers, with any
\* number of opens and last closes interleaved.
THEOREM WriterIsShared == Spec => []HandleKeepsWriter
<1>1. FileInv => HandleKeepsWriter
  BY Zenon DEF FileInv, Writers
<1> QED BY <1>1, FileInvariant, PTL

\* FileWriter::close: no writer leaves file_writers with data it has not
\* committed, unless one of its flushes failed.
THEOREM RetiredIsCommitted == Spec => []NoWriteLost
<1>1. FileInv => NoWriteLost
  BY Zenon DEF FileInv, Writers
<1> QED BY <1>1, FileInvariant, PTL

\* The metadata counts at least the handles in use, whichever of the opens
\* and the releases fail half way.
THEOREM OpenFilesCounted == Spec => []ReferencesCoverHandles
<1>1. LockInv /\ RequestsOK /\ FileInv => ReferencesCoverHandles
  <2> SUFFICES ASSUME LockInv, RequestsOK, FileInv PROVE ReferencesCoverHandles
    BY Zenon
  <2>1. Usable \subseteq Counted
    <3> SUFFICES ASSUME NEW h \in Usable PROVE h \in Counted
      BY Zenon
    <3>1. h \in table /\ h \in Handles /\ \A x \in Requests : ~Releases(x, h)
      BY Zenon DEF Usable, RequestsOK, Releases
    <3>2. Settled(h)
      BY <3>1, Zenon DEF FileInv, Existing
    <3>3. Taken(h)
      BY <3>2, Zenon DEF Settled, Taken
    <3> QED BY <3>1, <3>3, Zenon DEF Counted, Back
  <2>2. Cardinality(Usable) <= Cardinality(Counted) /\ Cardinality(Usable) \in Nat /\ Cardinality(Counted) \in Nat
    BY <2>1, CountedFinite, FS_Subset, FS_CardinalityType, Zenon
  <2> QED BY <2>2 DEF FileInv, Counting, ReferencesCoverHandles
<1> QED BY <1>1, FileInvariant, PTL

\* "we hold all the locks for the exists file handles" (kiseki.rs:383): no
\* write is under way on a handle that was open when a truncate that is
\* changing the lengths began.
THEOREM TruncateExcludesWrites == Spec => []TruncateAlone
<1>1. LockInv /\ RequestsOK /\ FileInv => TruncateAlone
  <2> SUFFICES ASSUME LockInv, RequestsOK, FileInv, NEW t \in Requests, NEW w \in Requests,
                      pc[t] \in {"tmeta", "tlen", "treaders"}, pc[w] \in {"wrote", "wlength"},
                      req[w].h \in req[t].all
               PROVE  FALSE
    BY Zenon DEF TruncateAlone
  <2>1. PICK h : h = req[w].h
    BY Zenon
  <2>2. h \in Handles /\ Uses(w, h)
    <3>1. WriteShape(req[w])
      BY KindOf, Zenon
    <3> QED BY <2>1, <3>1 DEF WriteShape, Uses
  <2>3. ref[h] # 0 /\ HoldsWrite(w, h)
    BY <2>2, SMTT(20) DEF FileInv, Held, Locked
  <2>4. TruncateShape(req[t])
    BY KindOf, Zenon
  <2>5. req[t].kind = "truncate"
    BY <2>4 DEF TruncateShape
  <2>6. HoldsWrite(t, h)
    BY <2>1, <2>3, <2>5, SMTT(20) DEF FileInv, Locked, Asking
  <2>7. t = w
    BY <2>2, <2>3, <2>6, Zenon DEF LockInv, Flagged, OneWriter
  <2> QED BY <2>7, Zenon
<1> QED BY <1>1, FileInvariant, PTL
=============================================================================
