-------------------------- MODULE FileStoreProofs --------------------------
(***************************************************************************)
(* Proofs about FileStore for any number of snapshots, files, attachments  *)
(* and goroutines, and any number of failures and crashes.                 *)
(***************************************************************************)
EXTENDS FileStore, TLAPS

-----------------------------------------------------------------------------
(* The inductive invariant *)

\* filesMu: a registering Store call excludes a collection.
LockInv ==
  \A g \in Stores : store[g].at \in Registering => collect.by = NoSnap

\* A Store call belongs to a run that has not begun to release its files,
\* and has made what its next step relies on.
StoreInv ==
  \A g \in Stores : store[g].at # "idle" =>
    /\ store[g].snap \in Snaps
    /\ run[store[g].snap] \in {"running", "failing"}
    /\ store[g].at \in Registering \cup {"registering", "hinting"}
         => store[g].file \in Files
    /\ store[g].at \in {"hinting"} => <<store[g].snap, store[g].file>> \in refs
    /\ store[g].at = "creating" => store[g].file \in blob
    /\ store[g].at = "adding" => store[g].file \in file
    /\ store[g].source \in Sources

\* Collections take files that have a row and are not in use.
CollectInv ==
  /\ collect.by = NoSnap => collect.left = {}
  /\ collect.left \subseteq file
  /\ \A f \in collect.left : ~Used(f)
  /\ collect.blobGone => collect.left # {}

\* The document of a run names files the run holds.
DocInv ==
  /\ \A s \in Snaps : run[s] = "new" => doc[s] = {}
  /\ DocumentHeld

\* Rows have their content, but for the collections that failed halfway.
RowInv ==
  /\ \A f \in file : f \in blob \/ f \in half
  /\ \A f \in Files : Used(f) => f \in file

\* What a failed run used is forgotten before the run is recorded as failed.
KeepInv ==
  faults = 0 /\ crashes = 0 =>
    \A s \in Snaps : run[s] \in {"collecting", "failed"} =>
      \A f \in Files : <<s, f>> \notin refs

IInv == /\ TypeOK
        /\ LockInv
        /\ StoreInv
        /\ CollectInv
        /\ DocInv
        /\ RowInv
        /\ KeepInv
        /\ NoGarbage

\* Nothing survives a crash but what is durable.
DownInv == ~up => crashes > 0 /\ \A g \in Stores : store[g].at = "idle"
-----------------------------------------------------------------------------
(* Lemmas *)

\* A file is chosen from the list.
LEMMA FirstOfIn == ASSUME NEW S, S # {} PROVE FirstOf(S) \in S
BY DEF FirstOf

\* A Store call moves on.
LEMMA GotoType ==
  ASSUME TypeOK, NEW g \in Stores,
         NEW step \in {"registering", "downloading", "hinting"} \cup Registering,
         Goto(g, step)
  PROVE  store' \in [Stores -> StoreCalls]
BY DEF TypeOK, Goto, StoreCalls

\* A Store call returns.
LEMMA IdleType ==
  ASSUME TypeOK, NEW g \in Stores, store' = [store EXCEPT ![g] = StoreIdle]
  PROVE  store' \in [Stores -> StoreCalls]
BY DEF TypeOK, StoreCalls, StoreIdle

-----------------------------------------------------------------------------
(* Every step preserves the invariant *)

\* A step of a run: it ends, or releases its files.
LEMMA RunStepInductive ==
  ASSUME IInv, NEW s \in Snaps, RunStep(s), UNCHANGED <<up, crashes>>
  PROVE  IInv'
<1>1. CASE Succeed(s)
  <2>1. TypeOK'
    BY <1>1, FileConstants DEF Succeed, Storing, durable, IInv, TypeOK, Runs
  <2>2. LockInv'
    BY <1>1, FileConstants
    DEF Succeed, Storing, durable, IInv, StoreCalls, LockInv
  <2>3. StoreInv'
    BY <1>1, FileConstants
    DEF Succeed, Storing, durable, IInv, StoreCalls, Collections, StoreInv
  <2>4. CollectInv'
    BY <1>1, FileConstants
    DEF Succeed, Storing, durable, IInv, StoreCalls, Collections, CollectInv,
        LockInv, Used
  <2>5. DocInv'
    BY <1>1, FileConstants
    DEF Succeed, Storing, durable, IInv, StoreCalls, Collections, DocInv,
        DocumentHeld
  <2>6. RowInv'
    BY <1>1, FileConstants
    DEF Succeed, Storing, durable, IInv, StoreCalls, Collections, RowInv,
        CollectInv, StoreInv, Used
  <2>7. KeepInv'
    BY <1>1, FileConstants DEF Succeed, Storing, durable, IInv, KeepInv
  <2>8. NoGarbage'
    BY <1>1, FileConstants
    DEF Succeed, Storing, durable, IInv, NoGarbage, Awaited, TypeOK, Unused,
        Used
  <2> QED BY <2>1, <2>2, <2>3, <2>4, <2>5, <2>6, <2>7, <2>8 DEF IInv
<1>2. CASE Cancel(s)
  <2>1. TypeOK'
    BY <1>2, FileConstants DEF Cancel, durable, IInv, TypeOK, Runs
  <2>2. LockInv'
    BY <1>2, FileConstants
    DEF Cancel, durable, IInv, StoreCalls, Collections, LockInv
  <2>3. StoreInv'
    BY <1>2, FileConstants DEF Cancel, durable, IInv, StoreInv
  <2>4. CollectInv'
    BY <1>2, FileConstants
    DEF Cancel, durable, IInv, StoreCalls, Collections, CollectInv, Used
  <2>5. DocInv'
    BY <1>2, FileConstants
    DEF Cancel, durable, IInv, StoreCalls, Collections, DocInv, DocumentHeld
  <2>6. RowInv'
    BY <1>2, FileConstants
    DEF Cancel, durable, IInv, StoreCalls, Collections, RowInv, CollectInv,
        StoreInv, Used
  <2>7. KeepInv'
    BY <1>2, FileConstants DEF Cancel, durable, IInv, KeepInv
  <2>8. NoGarbage'
    BY <1>2, FileConstants
    DEF Cancel, durable, IInv, NoGarbage, Awaited, TypeOK
  <2> QED BY <2>1, <2>2, <2>3, <2>4, <2>5, <2>6, <2>7, <2>8 DEF IInv
<1>3. CASE FailRun(s)
  <2>1. TypeOK'
    BY <1>3, FileConstants DEF FailRun, Storing, durable, IInv, TypeOK, Runs
  <2>2. LockInv'
    BY <1>3, FileConstants
    DEF FailRun, Storing, durable, IInv, StoreCalls, LockInv
  <2>3. StoreInv'
    BY <1>3, FileConstants
    DEF FailRun, Storing, durable, IInv, StoreCalls, Collections, StoreInv
  <2>4. CollectInv'
    BY <1>3, FileConstants
    DEF FailRun, Storing, durable, IInv, StoreCalls, Collections, CollectInv,
        LockInv, Used
  <2>5. DocInv'
    BY <1>3, FileConstants
    DEF FailRun, Storing, durable, IInv, StoreCalls, Collections, DocInv,
        DocumentHeld
  <2>6. RowInv'
    BY <1>3, FileConstants
    DEF FailRun, Storing, durable, IInv, StoreCalls, Collections, RowInv,
        CollectInv, StoreInv, Used
  <2>7. KeepInv'
    BY <1>3, FileConstants DEF FailRun, Storing, durable, IInv, KeepInv
  <2>8. NoGarbage'
    BY <1>3, FileConstants
    DEF FailRun, Storing, durable, IInv, NoGarbage, Awaited
  <2> QED BY <2>1, <2>2, <2>3, <2>4, <2>5, <2>6, <2>7, <2>8 DEF IInv
<1>4. CASE Release(s)
  <2>1. TypeOK'
    BY <1>4, FileConstants DEF Release, durable, IInv, TypeOK, Runs
  <2>2. LockInv'
    BY <1>4, FileConstants
    DEF Release, durable, IInv, StoreCalls, Collections, LockInv
  <2>3. StoreInv'
    BY <1>4, FileConstants DEF Release, durable, IInv, StoreInv
  <2>4. CollectInv'
    BY <1>4, FileConstants
    DEF Release, durable, IInv, StoreCalls, Collections, CollectInv, Used
  <2>5. DocInv'
    BY <1>4, FileConstants
    DEF Release, durable, IInv, StoreCalls, Collections, DocInv, DocumentHeld
  <2>6. RowInv'
    BY <1>4, FileConstants
    DEF Release, durable, IInv, StoreCalls, Collections, RowInv, CollectInv,
        StoreInv, Used
  <2>7. KeepInv'
    BY <1>4, FileConstants DEF Release, durable, IInv, KeepInv
  <2>8. NoGarbage'
    BY <1>4, FileConstants DEF Release, durable, IInv, NoGarbage, Awaited
  <2> QED BY <2>1, <2>2, <2>3, <2>4, <2>5, <2>6, <2>7, <2>8 DEF IInv
<1>5. CASE ReleaseFails(s)
  <2>1. TypeOK'
    BY <1>5, FileConstants DEF ReleaseFails, Fault, durable, IInv, TypeOK, Runs
  <2>2. LockInv'
    BY <1>5, FileConstants
    DEF ReleaseFails, Fault, durable, IInv, StoreCalls, LockInv
  <2>3. StoreInv'
    BY <1>5, FileConstants
    DEF ReleaseFails, Fault, durable, IInv, StoreCalls, Collections, StoreInv
  <2>4. CollectInv'
    BY <1>5, FileConstants
    DEF ReleaseFails, Fault, durable, IInv, StoreCalls, Collections,
        CollectInv, LockInv, Used
  <2>5. DocInv'
    BY <1>5, FileConstants
    DEF ReleaseFails, Fault, durable, IInv, StoreCalls, Collections, DocInv,
        DocumentHeld
  <2>6. RowInv'
    BY <1>5, FileConstants
    DEF ReleaseFails, Fault, durable, IInv, StoreCalls, Collections, RowInv,
        CollectInv, StoreInv, Used
  <2>7. KeepInv'
    BY <1>5, FileConstants
    DEF ReleaseFails, Fault, durable, IInv, KeepInv, TypeOK
  <2>8. NoGarbage'
    BY <1>5, FileConstants
    DEF ReleaseFails, Fault, durable, IInv, NoGarbage, TypeOK
  <2> QED BY <2>1, <2>2, <2>3, <2>4, <2>5, <2>6, <2>7, <2>8 DEF IInv
<1>6. CASE RecordFailure(s)
  <2>1. TypeOK'
    BY <1>6, FileConstants DEF RecordFailure, durable, IInv, TypeOK, Runs
  <2>2. LockInv'
    BY <1>6, FileConstants
    DEF RecordFailure, durable, IInv, StoreCalls, Collections, LockInv
  <2>3. StoreInv'
    BY <1>6, FileConstants DEF RecordFailure, durable, IInv, StoreInv
  <2>4. CollectInv'
    BY <1>6, FileConstants
    DEF RecordFailure, durable, IInv, StoreCalls, Collections, CollectInv, Used
  <2>5. DocInv'
    BY <1>6, FileConstants
    DEF RecordFailure, durable, IInv, StoreCalls, Collections, DocInv,
        DocumentHeld
  <2>6. RowInv'
    BY <1>6, FileConstants
    DEF RecordFailure, durable, IInv, StoreCalls, Collections, RowInv,
        CollectInv, StoreInv, Used
  <2>7. KeepInv'
    BY <1>6, FileConstants DEF RecordFailure, durable, IInv, KeepInv
  <2>8. NoGarbage'
    BY <1>6, FileConstants
    DEF RecordFailure, durable, IInv, NoGarbage, Awaited, TypeOK, StoreInv,
        CollectInv, Unused, Used
  <2> QED BY <2>1, <2>2, <2>3, <2>4, <2>5, <2>6, <2>7, <2>8 DEF IInv
<1>7. CASE RecordFails(s)
  <2>1. TypeOK'
    BY <1>7, FileConstants
    DEF RecordFails, Fault, Storing, durable, IInv, TypeOK, Runs
  <2>2. LockInv'
    BY <1>7, FileConstants
    DEF RecordFails, Fault, Storing, durable, IInv, StoreCalls, LockInv
  <2>3. StoreInv'
    BY <1>7, FileConstants
    DEF RecordFails, Fault, Storing, durable, IInv, StoreCalls, Collections,
        StoreInv
  <2>4. CollectInv'
    BY <1>7, FileConstants
    DEF RecordFails, Fault, Storing, durable, IInv, StoreCalls, Collections,
        CollectInv, LockInv, Used
  <2>5. DocInv'
    BY <1>7, FileConstants
    DEF RecordFails, Fault, Storing, durable, IInv, StoreCalls, Collections,
        DocInv, DocumentHeld
  <2>6. RowInv'
    BY <1>7, FileConstants
    DEF RecordFails, Fault, Storing, durable, IInv, StoreCalls, Collections,
        RowInv, CollectInv, StoreInv, Used
  <2>7. KeepInv'
    BY <1>7, FileConstants
    DEF RecordFails, Fault, Storing, durable, IInv, KeepInv, TypeOK
  <2>8. NoGarbage'
    BY <1>7, FileConstants
    DEF RecordFails, Fault, Storing, durable, IInv, NoGarbage, TypeOK
  <2> QED BY <2>1, <2>2, <2>3, <2>4, <2>5, <2>6, <2>7, <2>8 DEF IInv
<1> QED BY <1>1, <1>2, <1>3, <1>4, <1>5, <1>6, <1>7 DEF RunStep

\* A snapshot begins or is deleted.
LEMMA RequestInductive ==
  ASSUME IInv, NEW s \in Snaps, BeginRun(s) \/ Delete(s) \/ DeleteFails(s),
         UNCHANGED <<up, crashes>>
  PROVE  IInv'
<1>1. CASE BeginRun(s)
  <2>1. TypeOK'
    BY <1>1, FileConstants DEF BeginRun, durable, IInv, TypeOK, Runs
  <2>2. LockInv'
    BY <1>1, FileConstants
    DEF BeginRun, durable, IInv, StoreCalls, Collections, LockInv
  <2>3. StoreInv'
    BY <1>1, FileConstants DEF BeginRun, durable, IInv, StoreInv
  <2>4. CollectInv'
    BY <1>1, FileConstants
    DEF BeginRun, durable, IInv, StoreCalls, Collections, CollectInv, Used
  <2>5. DocInv'
    BY <1>1, FileConstants
    DEF BeginRun, durable, IInv, StoreCalls, Collections, DocInv, DocumentHeld
  <2>6. RowInv'
    BY <1>1, FileConstants
    DEF BeginRun, durable, IInv, StoreCalls, Collections, RowInv, CollectInv,
        StoreInv, Used
  <2>7. KeepInv'
    BY <1>1, FileConstants DEF BeginRun, durable, IInv, KeepInv
  <2>8. NoGarbage'
    BY <1>1, FileConstants
    DEF BeginRun, durable, IInv, NoGarbage, Awaited, TypeOK, StoreInv,
        CollectInv, Unused, Used
  <2> QED BY <2>1, <2>2, <2>3, <2>4, <2>5, <2>6, <2>7, <2>8 DEF IInv
<1>2. CASE Delete(s)
  <2>1. TypeOK'
    BY <1>2, FileConstants DEF Delete, durable, IInv, TypeOK, Runs
  <2>2. LockInv'
    BY <1>2, FileConstants
    DEF Delete, durable, IInv, StoreCalls, Collections, LockInv
  <2>3. StoreInv'
    BY <1>2, FileConstants DEF Delete, durable, IInv, StoreInv
  <2>4. CollectInv'
    BY <1>2, FileConstants
    DEF Delete, durable, IInv, StoreCalls, Collections, CollectInv, Used
  <2>5. DocInv'
    BY <1>2, FileConstants
    DEF Delete, durable, IInv, StoreCalls, Collections, DocInv, DocumentHeld,
        TypeOK
  <2>6. RowInv'
    BY <1>2, FileConstants
    DEF Delete, durable, IInv, StoreCalls, Collections, RowInv, CollectInv,
        StoreInv, Used
  <2>7. KeepInv'
    BY <1>2, FileConstants DEF Delete, durable, IInv, KeepInv
  <2>8. NoGarbage'
    BY <1>2, FileConstants
    DEF Delete, durable, IInv, NoGarbage, Awaited, TypeOK, StoreInv,
        CollectInv, Unused, Used, Registering, StoreIdle, CollectIdle, KeepInv
  <2> QED BY <2>1, <2>2, <2>3, <2>4, <2>5, <2>6, <2>7, <2>8 DEF IInv
<1>3. CASE DeleteFails(s)
  <2>1. TypeOK'
    BY <1>3, FileConstants DEF DeleteFails, Fault, durable, IInv, TypeOK, Runs
  <2>2. LockInv'
    BY <1>3, FileConstants
    DEF DeleteFails, Fault, durable, IInv, StoreCalls, LockInv
  <2>3. StoreInv'
    BY <1>3, FileConstants
    DEF DeleteFails, Fault, durable, IInv, StoreCalls, Collections, StoreInv
  <2>4. CollectInv'
    BY <1>3, FileConstants
    DEF DeleteFails, Fault, durable, IInv, StoreCalls, Collections, CollectInv,
        LockInv, Used
  <2>5. DocInv'
    BY <1>3, FileConstants
    DEF DeleteFails, Fault, durable, IInv, StoreCalls, Collections, DocInv,
        DocumentHeld, TypeOK
  <2>6. RowInv'
    BY <1>3, FileConstants
    DEF DeleteFails, Fault, durable, IInv, StoreCalls, Collections, RowInv,
        CollectInv, StoreInv, Used
  <2>7. KeepInv'
    BY <1>3, FileConstants
    DEF DeleteFails, Fault, durable, IInv, KeepInv, TypeOK
  <2>8. NoGarbage'
    BY <1>3, FileConstants
    DEF DeleteFails, Fault, durable, IInv, NoGarbage, TypeOK
  <2> QED BY <2>1, <2>2, <2>3, <2>4, <2>5, <2>6, <2>7, <2>8 DEF IInv
<1> QED BY <1>1, <1>2, <1>3

\* A step of a Store call.
LEMMA StoreStepInductive ==
  ASSUME IInv, NEW g \in Stores, StoreStep(g), UNCHANGED <<up, crashes>>
  PROVE  IInv'
<1>1. CASE Download(g)
  <2>1. TypeOK'
    <3>1. PICK f \in Files :
            store' = [store EXCEPT ![g].at = "registering", ![g].file = f,
                                   ![g].content = TRUE]
      BY <1>1 DEF Download
    <3>2. store[g] \in StoreCalls /\ store \in [Stores -> StoreCalls]
      BY DEF IInv, TypeOK
    <3>3. [[[store[g] EXCEPT !.at = "registering"] EXCEPT !.file = f]
             EXCEPT !.content = TRUE] \in StoreCalls
      BY <3>2 DEF StoreCalls
    <3>4. store' \in [Stores -> StoreCalls]
      BY <3>1, <3>2, <3>3
    <3> QED BY <1>1, <3>4 DEF Download, IInv, TypeOK, durable
  <2>2. LockInv'
    BY <1>1, FileConstants
    DEF Download, durable, IInv, StoreCalls, Collections, LockInv, TypeOK,
        Registering
  <2>3. StoreInv'
    BY <1>1, FileConstants
    DEF Download, durable, IInv, StoreCalls, Collections, StoreInv, TypeOK
  <2>4. CollectInv'
    BY <1>1, FileConstants
    DEF Download, durable, IInv, StoreCalls, Collections, CollectInv, Used
  <2>5. DocInv'
    BY <1>1, FileConstants
    DEF Download, durable, IInv, StoreCalls, Collections, DocInv, DocumentHeld
  <2>6. RowInv'
    BY <1>1, FileConstants
    DEF Download, durable, IInv, StoreCalls, Collections, RowInv, CollectInv,
        StoreInv, Used
  <2>7. KeepInv'
    BY <1>1, FileConstants DEF Download, durable, IInv, KeepInv
  <2>8. NoGarbage'
    <3> SUFFICES ASSUME faults' = 0, crashes' = 0, NEW f \in Unused'
                 PROVE  Awaited(f)'
      BY DEF NoGarbage
    <3>1. f \in Unused /\ Awaited(f)
      BY <1>1 DEF Download, durable, Unused, Used, IInv, NoGarbage
    <3>2. \A h \in Stores : store[h].at = "adding" => store'[h] = store[h]
      BY <1>1 DEF Download, IInv, TypeOK
    <3> QED BY <1>1, <3>1, <3>2 DEF Download, Awaited
  <2> QED BY <2>1, <2>2, <2>3, <2>4, <2>5, <2>6, <2>7, <2>8 DEF IInv
<1>2. CASE Unavailable(g)
  <2>1. TypeOK'
    BY <1>2, FileConstants
    DEF Unavailable, durable, IInv, TypeOK, Runs, Registering, StoreIdle,
        CollectIdle, StoreCalls
  <2>2. LockInv'
    BY <1>2, FileConstants
    DEF Unavailable, durable, IInv, StoreCalls, Collections, LockInv, TypeOK,
        Registering, StoreIdle
  <2>3. StoreInv'
    BY <1>2, FileConstants
    DEF Unavailable, durable, IInv, StoreCalls, Collections, StoreInv,
        StoreIdle
  <2>4. CollectInv'
    BY <1>2, FileConstants
    DEF Unavailable, durable, IInv, StoreCalls, Collections, CollectInv, Used
  <2>5. DocInv'
    BY <1>2, FileConstants
    DEF Unavailable, durable, IInv, StoreCalls, Collections, DocInv,
        DocumentHeld
  <2>6. RowInv'
    BY <1>2, FileConstants
    DEF Unavailable, durable, IInv, StoreCalls, Collections, RowInv,
        CollectInv, StoreInv, Used
  <2>7. KeepInv'
    BY <1>2, FileConstants
    DEF Unavailable, durable, IInv, KeepInv, TypeOK, StoreInv, Registering
  <2>8. NoGarbage'
    BY <1>2, FileConstants
    DEF Unavailable, durable, IInv, NoGarbage, Awaited, TypeOK, StoreInv,
        CollectInv, Unused, Used
  <2> QED BY <2>1, <2>2, <2>3, <2>4, <2>5, <2>6, <2>7, <2>8 DEF IInv
<1>3. CASE Register(g)
  <2>1. TypeOK'
    BY <1>3, FileConstants
    DEF Register, Goto, Locked, durable, IInv, TypeOK, Runs, Registering,
        StoreIdle, CollectIdle, StoreCalls
  <2>2. LockInv'
    BY <1>3, FileConstants
    DEF Register, Goto, Locked, durable, IInv, StoreCalls, LockInv
  <2>3. StoreInv'
    BY <1>3, FileConstants
    DEF Register, Goto, Locked, durable, IInv, StoreCalls, Collections,
        StoreInv
  <2>4. CollectInv'
    BY <1>3, FileConstants
    DEF Register, Goto, Locked, durable, IInv, StoreCalls, Collections,
        CollectInv
  <2>5. DocInv'
    BY <1>3, FileConstants
    DEF Register, Goto, Locked, durable, IInv, StoreCalls, Collections, DocInv,
        DocumentHeld
  <2>6. RowInv'
    BY <1>3, FileConstants
    DEF Register, Goto, Locked, durable, IInv, StoreCalls, Collections, RowInv,
        CollectInv, StoreInv, Used
  <2>7. KeepInv'
    BY <1>3, FileConstants DEF Register, Goto, Locked, durable, IInv, KeepInv
  <2>8. NoGarbage'
    BY <1>3, FileConstants
    DEF Register, Goto, Locked, durable, IInv, NoGarbage, Awaited, TypeOK,
        Unused, Used
  <2> QED BY <2>1, <2>2, <2>3, <2>4, <2>5, <2>6, <2>7, <2>8 DEF IInv
<1>4. CASE PutBlob(g)
  <2>1. TypeOK'
    <3>1. store[g].snap \in Snaps /\ store[g].file \in Files
      BY <1>4 DEF PutBlob, IInv, StoreInv, Registering
    <3>2. store' \in [Stores -> StoreCalls]
      BY <1>4, GotoType DEF PutBlob, IInv, Registering
    <3> QED BY <1>4, <3>1, <3>2 DEF PutBlob, IInv, TypeOK
  <2>2. LockInv'
    BY <1>4, FileConstants
    DEF PutBlob, Goto, durable, IInv, StoreCalls, LockInv, TypeOK
  <2>3. StoreInv'
    BY <1>4, FileConstants
    DEF PutBlob, Goto, durable, IInv, StoreCalls, Collections, StoreInv, TypeOK
  <2>4. CollectInv'
    BY <1>4, FileConstants
    DEF PutBlob, Goto, durable, IInv, StoreCalls, Collections, CollectInv,
        LockInv, TypeOK
  <2>5. DocInv'
    BY <1>4, FileConstants
    DEF PutBlob, Goto, durable, IInv, StoreCalls, Collections, DocInv,
        DocumentHeld
  <2>6. RowInv'
    BY <1>4, FileConstants
    DEF PutBlob, Goto, durable, IInv, StoreCalls, Collections, RowInv,
        CollectInv, StoreInv, Used
  <2>7. KeepInv'
    BY <1>4, FileConstants DEF PutBlob, Goto, durable, IInv, KeepInv
  <2>8. NoGarbage'
    BY <1>4, FileConstants
    DEF PutBlob, Goto, durable, IInv, NoGarbage, Awaited, TypeOK, Unused, Used
  <2> QED BY <2>1, <2>2, <2>3, <2>4, <2>5, <2>6, <2>7, <2>8 DEF IInv
<1>5. CASE CreateRow(g)
  <2>1. TypeOK'
    <3>1. store[g].snap \in Snaps /\ store[g].file \in Files
      BY <1>5 DEF CreateRow, IInv, StoreInv, Registering
    <3>2. store' \in [Stores -> StoreCalls]
      BY <1>5, GotoType DEF CreateRow, IInv, Registering
    <3> QED BY <1>5, <3>1, <3>2 DEF CreateRow, IInv, TypeOK
  <2>2. LockInv'
    BY <1>5, FileConstants
    DEF CreateRow, Goto, durable, IInv, StoreCalls, LockInv, TypeOK
  <2>3. StoreInv'
    BY <1>5, FileConstants
    DEF CreateRow, Goto, durable, IInv, StoreCalls, Collections, StoreInv,
        TypeOK
  <2>4. CollectInv'
    BY <1>5, FileConstants
    DEF CreateRow, Goto, durable, IInv, StoreCalls, Collections, CollectInv,
        LockInv, TypeOK
  <2>5. DocInv'
    BY <1>5, FileConstants
    DEF CreateRow, Goto, durable, IInv, StoreCalls, Collections, DocInv,
        DocumentHeld
  <2>6. RowInv'
    BY <1>5, FileConstants
    DEF CreateRow, Goto, durable, IInv, StoreCalls, Collections, RowInv,
        CollectInv, StoreInv, Used
  <2>7. KeepInv'
    BY <1>5, FileConstants DEF CreateRow, Goto, durable, IInv, KeepInv
  <2>8. NoGarbage'
    <3> SUFFICES ASSUME faults' = 0, crashes' = 0, NEW f \in Unused'
                 PROVE  Awaited(f)'
      BY DEF NoGarbage
    <3>1. CASE f = store[g].file
      BY <1>5, <3>1 DEF CreateRow, Goto, Awaited, IInv, TypeOK
    <3>2. CASE f # store[g].file
      <4>1. f \in Unused /\ Awaited(f)
        BY <1>5, <3>2 DEF CreateRow, Unused, Used, IInv, NoGarbage
      <4>2. \A h \in Stores : store[h].at = "adding" => store'[h] = store[h]
        BY <1>5 DEF CreateRow, Goto
      <4> QED BY <1>5, <4>1, <4>2 DEF CreateRow, Awaited
    <3> QED BY <3>1, <3>2
  <2> QED BY <2>1, <2>2, <2>3, <2>4, <2>5, <2>6, <2>7, <2>8 DEF IInv
<1>6. CASE AddRef(g)
  <2>1. TypeOK'
    <3>1. store[g].snap \in Snaps /\ store[g].file \in Files
      BY <1>6 DEF AddRef, IInv, StoreInv, Registering
    <3>2. store' \in [Stores -> StoreCalls]
      BY <1>6, GotoType, IdleType DEF AddRef, StoreReturns, IInv
    <3>3. doc' \in [Snaps -> SUBSET Files]
      BY <1>6, <3>1 DEF AddRef, StoreReturns, IInv, TypeOK
    <3>4. refs' \subseteq Snaps \X Files
      BY <1>6, <3>1 DEF AddRef, IInv, TypeOK
    <3> QED BY <1>6, <3>2, <3>3, <3>4 DEF AddRef, IInv, TypeOK
  <2>2. LockInv'
    BY <1>6, FileConstants
    DEF AddRef, Goto, StoreReturns, durable, IInv, StoreCalls, LockInv, TypeOK
  <2>3. StoreInv'
    BY <1>6, FileConstants
    DEF AddRef, Goto, StoreReturns, durable, IInv, StoreCalls, Collections,
        StoreInv, TypeOK, LockInv, Registering, StoreIdle
  <2>4. CollectInv'
    BY <1>6, FileConstants
    DEF AddRef, Goto, StoreReturns, durable, IInv, StoreCalls, Collections,
        CollectInv, LockInv, TypeOK
  <2>5. DocInv'
    <3>1. store[g].snap \in Snaps /\ run[store[g].snap] # "new"
      BY <1>6 DEF AddRef, IInv, StoreInv
    <3>2. /\ refs \subseteq refs'
          /\ <<store[g].snap, store[g].file>> \in refs'
          /\ run' = run
      BY <1>6 DEF AddRef
    <3>3. \A s \in Snaps :
            \/ doc'[s] = doc[s]
            \/ s = store[g].snap /\ doc'[s] = doc[s] \cup {store[g].file}
      BY <1>6, <3>1 DEF AddRef, StoreReturns, IInv, TypeOK
    <3> QED BY <3>1, <3>2, <3>3 DEF IInv, DocInv, DocumentHeld
  <2>6. RowInv'
    BY <1>6, FileConstants
    DEF AddRef, Goto, StoreReturns, durable, IInv, StoreCalls, Collections,
        RowInv, CollectInv, StoreInv, Used
  <2>7. KeepInv'
    BY <1>6, FileConstants
    DEF AddRef, Goto, StoreReturns, durable, IInv, KeepInv, StoreInv
  <2>8. NoGarbage'
    <3> SUFFICES ASSUME faults' = 0, crashes' = 0, NEW f \in Unused'
                 PROVE  Awaited(f)'
      BY DEF NoGarbage
    <3>1. f \in Unused /\ f # store[g].file
      <4>1. store[g].snap \in Snaps
        BY <1>6 DEF AddRef, IInv, StoreInv
      <4> QED BY <1>6, <4>1 DEF AddRef, Unused, Used
    <3>2. Awaited(f)
      BY <1>6, <3>1 DEF AddRef, IInv, NoGarbage
    <3>3. \A h \in Stores : h # g => store'[h] = store[h]
      BY <1>6 DEF AddRef, Goto, StoreReturns, IInv, TypeOK
    <3> QED BY <1>6, <3>1, <3>2, <3>3 DEF AddRef, Awaited
  <2> QED BY <2>1, <2>2, <2>3, <2>4, <2>5, <2>6, <2>7, <2>8 DEF IInv
<1>7. CASE PutHint(g)
  <2>1. TypeOK'
    BY <1>7, FileConstants
    DEF PutHint, StoreReturns, durable, IInv, TypeOK, Runs, Registering,
        StoreIdle, CollectIdle, StoreInv, StoreCalls
  <2>2. LockInv'
    BY <1>7, FileConstants
    DEF PutHint, StoreReturns, durable, IInv, StoreCalls, Collections, LockInv,
        TypeOK, Registering, StoreIdle
  <2>3. StoreInv'
    BY <1>7, FileConstants
    DEF PutHint, StoreReturns, durable, IInv, StoreCalls, Collections,
        StoreInv, TypeOK, LockInv, Registering, StoreIdle
  <2>4. CollectInv'
    BY <1>7, FileConstants
    DEF PutHint, StoreReturns, durable, IInv, StoreCalls, Collections,
        CollectInv, LockInv, Used
  <2>5. DocInv'
    BY <1>7, FileConstants
    DEF PutHint, StoreReturns, durable, IInv, StoreCalls, Collections, DocInv,
        DocumentHeld, TypeOK, StoreInv
  <2>6. RowInv'
    BY <1>7, FileConstants
    DEF PutHint, StoreReturns, durable, IInv, StoreCalls, Collections, RowInv,
        CollectInv, StoreInv, Used
  <2>7. KeepInv'
    BY <1>7, FileConstants DEF PutHint, StoreReturns, durable, IInv, KeepInv
  <2>8. NoGarbage'
    BY <1>7, FileConstants
    DEF PutHint, StoreReturns, durable, IInv, NoGarbage, Awaited, TypeOK,
        Unused, Used
  <2> QED BY <2>1, <2>2, <2>3, <2>4, <2>5, <2>6, <2>7, <2>8 DEF IInv
<1>8. CASE StoreFails(g)
  <2>1. TypeOK'
    <3>1. /\ store[g].snap \in Snaps
          /\ store[g].at \in Registering => store[g].file \in Files
      BY <1>8 DEF StoreFails, IInv, StoreInv
    <3>2. store' \in [Stores -> StoreCalls]
      BY <1>8, IdleType DEF StoreFails, StoreError, IInv
    <3>3. run' \in [Snaps -> Runs]
      BY <1>8, <3>1 DEF StoreFails, StoreError, IInv, TypeOK, Runs
    <3>4. faults' \in 0..MaxFaults
      BY <1>8, FileConstants DEF StoreFails, Fault, IInv, TypeOK
    <3>5. /\ file' \subseteq Files /\ blob' \subseteq Files
          /\ refs' \subseteq Snaps \X Files
      BY <1>8, <3>1 DEF StoreFails, IInv, TypeOK, durable, Registering
    <3>6. /\ store[g].at # "idle"
          /\ store[g].at = "hinting"
               => store[g].source \in Sources /\ store[g].file \in Files
      BY <1>8 DEF StoreFails, IInv, StoreInv
    <3>7. hint' \in [Sources -> Files \cup {NoFile}]
      BY <1>8, <3>6 DEF StoreFails, IInv, TypeOK, durable
    <3> QED BY <1>8, <3>2, <3>3, <3>4, <3>5, <3>7 DEF StoreFails, IInv, TypeOK
  <2>2. LockInv'
    BY <1>8, FileConstants
    DEF StoreFails, Fault, StoreError, Locked, durable, IInv, StoreCalls,
        Collections, LockInv, TypeOK, Registering, StoreIdle
  <2>3. StoreInv'
    BY <1>8, FileConstants
    DEF StoreFails, Fault, StoreError, Locked, durable, IInv, StoreCalls,
        Collections, StoreInv, TypeOK, LockInv, StoreIdle
  <2>4. CollectInv'
    BY <1>8, FileConstants
    DEF StoreFails, Fault, StoreError, Locked, durable, IInv, StoreCalls,
        Collections, CollectInv, LockInv, TypeOK, Used
  <2>5. DocInv'
    BY <1>8, FileConstants
    DEF StoreFails, Fault, StoreError, Locked, durable, IInv, StoreCalls,
        Collections, DocInv, DocumentHeld
  <2>6. RowInv'
    BY <1>8, FileConstants
    DEF StoreFails, Fault, StoreError, Locked, durable, IInv, StoreCalls,
        Collections, RowInv, CollectInv, StoreInv, Used
  <2>7. KeepInv'
    BY <1>8, FileConstants
    DEF StoreFails, Fault, StoreError, Locked, durable, IInv, KeepInv, TypeOK
  <2>8. NoGarbage'
    BY <1>8, FileConstants
    DEF StoreFails, Fault, StoreError, Locked, durable, IInv, NoGarbage,
        Awaited, TypeOK, StoreInv
  <2> QED BY <2>1, <2>2, <2>3, <2>4, <2>5, <2>6, <2>7, <2>8 DEF IInv
<1>9. CASE \E s \in Snaps, a \in Sources : BeginStore(g, s, a)
  <2>0. PICK s \in Snaps, a \in Sources : BeginStore(g, s, a)
    BY <1>9
  <2>1. TypeOK'
    BY <2>0, FileConstants
    DEF BeginStore, durable, IInv, TypeOK, Runs, StoreCalls
  <2>2. LockInv'
    BY <2>0, FileConstants
    DEF BeginStore, durable, IInv, StoreCalls, Collections, LockInv,
        Registering
  <2>3. StoreInv'
    BY <2>0, FileConstants
    DEF BeginStore, durable, IInv, StoreCalls, Collections, StoreInv, TypeOK,
        Registering
  <2>4. CollectInv'
    BY <2>0, FileConstants
    DEF BeginStore, durable, IInv, StoreCalls, Collections, CollectInv, Used
  <2>5. DocInv'
    BY <2>0, FileConstants
    DEF BeginStore, durable, IInv, StoreCalls, Collections, DocInv,
        DocumentHeld
  <2>6. RowInv'
    BY <2>0, FileConstants
    DEF BeginStore, durable, IInv, StoreCalls, Collections, RowInv, CollectInv,
        StoreInv, Used
  <2>7. KeepInv'
    BY <2>0, FileConstants DEF BeginStore, durable, IInv, KeepInv
  <2>8. NoGarbage'
    <3> SUFFICES ASSUME faults' = 0, crashes' = 0, NEW f \in Unused'
                 PROVE  Awaited(f)'
      BY DEF NoGarbage
    <3>1. f \in Unused /\ Awaited(f)
      BY <2>0 DEF BeginStore, durable, Unused, Used, IInv, NoGarbage
    <3>2. \A h \in Stores : store[h].at = "adding" => store'[h] = store[h]
      BY <2>0 DEF BeginStore, StoreIdle
    <3> QED BY <2>0, <3>1, <3>2 DEF BeginStore, Awaited
  <2> QED BY <2>1, <2>2, <2>3, <2>4, <2>5, <2>6, <2>7, <2>8 DEF IInv
<1> QED BY <1>1, <1>2, <1>3, <1>4, <1>5, <1>6, <1>7, <1>8, <1>9 DEF StoreStep

\* A step of a collection.
LEMMA CollectStepInductive ==
  ASSUME IInv, CollectStep, UNCHANGED <<up, crashes>>
  PROVE  IInv'
<1>1. CASE CollectBlob
  <2>1. TypeOK'
    <3>1. FirstOf(collect.left) \in Files
      BY <1>1, FirstOfIn DEF CollectBlob, IInv, TypeOK, Collections
    <3>2. collect' \in Collections
      BY <1>1 DEF CollectBlob, IInv, TypeOK, Collections
    <3> QED BY <1>1, <3>1, <3>2 DEF CollectBlob, IInv, TypeOK
  <2>2. LockInv'
    BY <1>1, FileConstants, FirstOfIn
    DEF CollectBlob, durable, IInv, StoreCalls, LockInv
  <2>3. StoreInv'
    BY <1>1, FileConstants, FirstOfIn
    DEF CollectBlob, durable, IInv, StoreCalls, Collections, StoreInv, TypeOK,
        LockInv, Registering, CollectInv
  <2>4. CollectInv'
    BY <1>1, FileConstants, FirstOfIn
    DEF CollectBlob, durable, IInv, StoreCalls, Collections, CollectInv,
        LockInv, Used
  <2>5. DocInv'
    BY <1>1, FileConstants, FirstOfIn
    DEF CollectBlob, durable, IInv, StoreCalls, Collections, DocInv,
        DocumentHeld
  <2>6. RowInv'
    BY <1>1, FileConstants, FirstOfIn
    DEF CollectBlob, durable, IInv, StoreCalls, Collections, RowInv,
        CollectInv, StoreInv, Used
  <2>7. KeepInv'
    BY <1>1, FileConstants, FirstOfIn DEF CollectBlob, durable, IInv, KeepInv
  <2>8. NoGarbage'
    <3> SUFFICES ASSUME faults' = 0, crashes' = 0, NEW f \in Unused'
                 PROVE  Awaited(f)'
      BY DEF NoGarbage
    <3>1. f \in Unused /\ Awaited(f)
      BY <1>1 DEF CollectBlob, Unused, Used, IInv, NoGarbage
    <3>2. collect'.left = collect.left
      BY <1>1 DEF CollectBlob
    <3> QED BY <1>1, <3>1, <3>2 DEF CollectBlob, Awaited
  <2> QED BY <2>1, <2>2, <2>3, <2>4, <2>5, <2>6, <2>7, <2>8 DEF IInv
<1>2. CASE CollectBlobFails
  <2>1. TypeOK'
    BY <1>2, FileConstants, FirstOfIn
    DEF CollectBlobFails, Fault, durable, IInv, TypeOK, Collections
  <2>2. LockInv'
    BY <1>2, FileConstants, FirstOfIn
    DEF CollectBlobFails, Fault, durable, IInv, StoreCalls, LockInv
  <2>3. StoreInv'
    BY <1>2, FileConstants, FirstOfIn
    DEF CollectBlobFails, Fault, durable, IInv, StoreCalls, Collections,
        StoreInv, TypeOK, LockInv, Registering, CollectInv
  <2>4. CollectInv'
    BY <1>2, FileConstants, FirstOfIn
    DEF CollectBlobFails, Fault, durable, IInv, StoreCalls, Collections,
        CollectInv, LockInv, Used
  <2>5. DocInv'
    BY <1>2, FileConstants, FirstOfIn
    DEF CollectBlobFails, Fault, durable, IInv, StoreCalls, Collections,
        DocInv, DocumentHeld
  <2>6. RowInv'
    BY <1>2, FileConstants, FirstOfIn
    DEF CollectBlobFails, Fault, durable, IInv, StoreCalls, Collections,
        RowInv, CollectInv, StoreInv, Used
  <2>7. KeepInv'
    BY <1>2, FileConstants, FirstOfIn
    DEF CollectBlobFails, Fault, durable, IInv, KeepInv, TypeOK
  <2>8. NoGarbage'
    BY <1>2, FileConstants, FirstOfIn
    DEF CollectBlobFails, Fault, durable, IInv, NoGarbage, TypeOK
  <2> QED BY <2>1, <2>2, <2>3, <2>4, <2>5, <2>6, <2>7, <2>8 DEF IInv
<1>3. CASE CollectRow
  <2>1. TypeOK'
    BY <1>3, FileConstants, FirstOfIn
    DEF CollectRow, durable, IInv, TypeOK, Runs, Collections
  <2>2. LockInv'
    BY <1>3, FileConstants, FirstOfIn
    DEF CollectRow, durable, IInv, StoreCalls, LockInv
  <2>3. StoreInv'
    BY <1>3, FileConstants, FirstOfIn
    DEF CollectRow, durable, IInv, StoreCalls, Collections, StoreInv, TypeOK,
        LockInv, Registering, CollectInv
  <2>4. CollectInv'
    BY <1>3, FileConstants, FirstOfIn
    DEF CollectRow, durable, IInv, StoreCalls, Collections, CollectInv,
        LockInv, Used
  <2>5. DocInv'
    BY <1>3, FileConstants, FirstOfIn
    DEF CollectRow, durable, IInv, StoreCalls, Collections, DocInv,
        DocumentHeld
  <2>6. RowInv'
    BY <1>3, FileConstants, FirstOfIn
    DEF CollectRow, durable, IInv, StoreCalls, Collections, RowInv, CollectInv,
        StoreInv, Used
  <2>7. KeepInv'
    BY <1>3, FileConstants, FirstOfIn DEF CollectRow, durable, IInv, KeepInv
  <2>8. NoGarbage'
    <3> SUFFICES ASSUME faults' = 0, crashes' = 0, NEW f \in Unused'
                 PROVE  Awaited(f)'
      BY DEF NoGarbage
    <3>1. f \in Unused /\ Awaited(f) /\ f # FirstOf(collect.left)
      BY <1>3 DEF CollectRow, Unused, Used, IInv, NoGarbage
    <3>2. f \in collect.left => f \in collect'.left
      BY <1>3, <3>1 DEF CollectRow
    <3> QED BY <1>3, <3>1, <3>2 DEF CollectRow, Awaited
  <2> QED BY <2>1, <2>2, <2>3, <2>4, <2>5, <2>6, <2>7, <2>8 DEF IInv
<1>4. CASE CollectRowFails
  <2>1. TypeOK'
    <3>1. collect' \in Collections
      BY <1>4 DEF CollectRowFails, IInv, TypeOK, Collections
    <3>2. faults' \in 0..MaxFaults
      BY <1>4, FileConstants DEF CollectRowFails, Fault, IInv, TypeOK
    <3> QED BY <1>4, <3>1, <3>2 DEF CollectRowFails, IInv, TypeOK, durable
  <2>2. LockInv'
    BY <1>4, FileConstants, FirstOfIn
    DEF CollectRowFails, Fault, durable, IInv, StoreCalls, LockInv
  <2>3. StoreInv'
    BY <1>4, FileConstants, FirstOfIn
    DEF CollectRowFails, Fault, durable, IInv, StoreCalls, Collections,
        StoreInv
  <2>4. CollectInv'
    BY <1>4, FileConstants, FirstOfIn
    DEF CollectRowFails, Fault, durable, IInv, StoreCalls, Collections,
        CollectInv, LockInv, Used
  <2>5. DocInv'
    BY <1>4, FileConstants, FirstOfIn
    DEF CollectRowFails, Fault, durable, IInv, StoreCalls, Collections, DocInv,
        DocumentHeld
  <2>6. RowInv'
    BY <1>4, FileConstants, FirstOfIn
    DEF CollectRowFails, Fault, durable, IInv, StoreCalls, Collections, RowInv,
        CollectInv, StoreInv, Used
  <2>7. KeepInv'
    BY <1>4, FileConstants, FirstOfIn
    DEF CollectRowFails, Fault, durable, IInv, KeepInv, TypeOK
  <2>8. NoGarbage'
    BY <1>4, FileConstants, FirstOfIn
    DEF CollectRowFails, Fault, durable, IInv, NoGarbage, TypeOK
  <2> QED BY <2>1, <2>2, <2>3, <2>4, <2>5, <2>6, <2>7, <2>8 DEF IInv
<1>5. CASE EndCollect
  <2>1. TypeOK'
    BY <1>5, FileConstants
    DEF EndCollect, Locked, durable, IInv, TypeOK, Runs, CollectIdle,
        Collections
  <2>2. LockInv'
    BY <1>5, FileConstants
    DEF EndCollect, Locked, durable, IInv, StoreCalls, LockInv
  <2>3. StoreInv'
    BY <1>5, FileConstants
    DEF EndCollect, Locked, durable, IInv, StoreCalls, Collections, StoreInv
  <2>4. CollectInv'
    BY <1>5, FileConstants
    DEF EndCollect, Locked, durable, IInv, StoreCalls, Collections, CollectInv,
        LockInv, TypeOK, StoreInv, CollectIdle
  <2>5. DocInv'
    BY <1>5, FileConstants
    DEF EndCollect, Locked, durable, IInv, StoreCalls, Collections, DocInv,
        DocumentHeld
  <2>6. RowInv'
    BY <1>5, FileConstants
    DEF EndCollect, Locked, durable, IInv, StoreCalls, Collections, RowInv,
        CollectInv, StoreInv, Used
  <2>7. KeepInv'
    BY <1>5, FileConstants DEF EndCollect, Locked, durable, IInv, KeepInv
  <2>8. NoGarbage'
    BY <1>5, FileConstants
    DEF EndCollect, Locked, durable, IInv, NoGarbage, Awaited, TypeOK, Unused,
        Used
  <2> QED BY <2>1, <2>2, <2>3, <2>4, <2>5, <2>6, <2>7, <2>8 DEF IInv
<1>6. CASE \E s \in Snaps : BeginCollect(s)
  <2>0. PICK s \in Snaps : BeginCollect(s)
    BY <1>6
  <2>1. TypeOK'
    BY <2>0, FileConstants
    DEF BeginCollect, Locked, Unused, durable, IInv, TypeOK, Collections
  <2>2. LockInv'
    BY <2>0, FileConstants
    DEF BeginCollect, Locked, Unused, durable, IInv, StoreCalls, LockInv
  <2>3. StoreInv'
    BY <2>0, FileConstants
    DEF BeginCollect, Locked, Unused, durable, IInv, StoreCalls, Collections,
        StoreInv
  <2>4. CollectInv'
    BY <2>0, FileConstants
    DEF BeginCollect, Locked, Unused, durable, IInv, StoreCalls, Collections,
        CollectInv, LockInv, Used
  <2>5. DocInv'
    BY <2>0, FileConstants
    DEF BeginCollect, Locked, Unused, durable, IInv, StoreCalls, Collections,
        DocInv, DocumentHeld
  <2>6. RowInv'
    BY <2>0, FileConstants
    DEF BeginCollect, Locked, Unused, durable, IInv, StoreCalls, Collections,
        RowInv, CollectInv, StoreInv, Used
  <2>7. KeepInv'
    BY <2>0, FileConstants
    DEF BeginCollect, Locked, Unused, durable, IInv, KeepInv
  <2>8. NoGarbage'
    BY <2>0, FileConstants
    DEF BeginCollect, Locked, Unused, durable, IInv, NoGarbage, Awaited, Used
  <2> QED BY <2>1, <2>2, <2>3, <2>4, <2>5, <2>6, <2>7, <2>8 DEF IInv
<1>7. CASE \E s \in Snaps : BeginCollectFails(s)
  <2>0. PICK s \in Snaps : BeginCollectFails(s)
    BY <1>7
  <2>1. TypeOK'
    BY <2>0, FileConstants
    DEF BeginCollectFails, Locked, Fault, durable, IInv, TypeOK
  <2>2. LockInv'
    BY <2>0, FileConstants
    DEF BeginCollectFails, Locked, Fault, durable, IInv, StoreCalls, LockInv
  <2>3. StoreInv'
    BY <2>0, FileConstants
    DEF BeginCollectFails, Locked, Fault, durable, IInv, StoreCalls,
        Collections, StoreInv
  <2>4. CollectInv'
    BY <2>0, FileConstants
    DEF BeginCollectFails, Locked, Fault, durable, IInv, StoreCalls,
        Collections, CollectInv
  <2>5. DocInv'
    BY <2>0, FileConstants
    DEF BeginCollectFails, Locked, Fault, durable, IInv, StoreCalls,
        Collections, DocInv, DocumentHeld
  <2>6. RowInv'
    BY <2>0, FileConstants
    DEF BeginCollectFails, Locked, Fault, durable, IInv, StoreCalls,
        Collections, RowInv, CollectInv, StoreInv, Used
  <2>7. KeepInv'
    BY <2>0, FileConstants
    DEF BeginCollectFails, Locked, Fault, durable, IInv, KeepInv, TypeOK
  <2>8. NoGarbage'
    BY <2>0, FileConstants
    DEF BeginCollectFails, Locked, Fault, durable, IInv, NoGarbage, TypeOK
  <2> QED BY <2>1, <2>2, <2>3, <2>4, <2>5, <2>6, <2>7, <2>8 DEF IInv
<1> QED BY <1>1, <1>2, <1>3, <1>4, <1>5, <1>6, <1>7 DEF CollectStep

\* A crash forgets the calls; what they made durable keeps the invariant.
LEMMA CrashInductive == ASSUME IInv, Crash PROVE IInv'
<1>1. TypeOK'
  <2>1. store' \in [Stores -> StoreCalls]
    BY DEF Crash, StoreIdle, StoreCalls
  <2>2. collect' \in Collections
    BY DEF Crash, CollectIdle, Collections
  <2>3. crashes' \in 0..MaxCrashes
    BY FileConstants DEF Crash, IInv, TypeOK
  <2> QED BY <2>1, <2>2, <2>3 DEF Crash, IInv, TypeOK, durable
<1>2. LockInv'
  BY FileConstants
  DEF Crash, durable, Runs, StoreIdle, CollectIdle, DownInv, LockInv
<1>3. StoreInv'
  BY FileConstants
  DEF Crash, durable, Runs, StoreIdle, CollectIdle, DownInv, IInv, StoreInv
<1>4. CollectInv'
  BY FileConstants
  DEF Crash, durable, Runs, StoreIdle, CollectIdle, DownInv, IInv, CollectInv
<1>5. DocInv'
  BY FileConstants
  DEF Crash, durable, Runs, StoreIdle, CollectIdle, DownInv, IInv, DocInv,
      DocumentHeld
<1>6. RowInv'
  BY FileConstants
  DEF Crash, durable, Runs, StoreIdle, CollectIdle, DownInv, IInv, StoreCalls,
      Collections, RowInv, CollectInv, Used
<1>7. KeepInv'
  BY FileConstants
  DEF Crash, durable, Runs, StoreIdle, CollectIdle, DownInv, IInv, KeepInv,
      TypeOK
<1>8. NoGarbage'
  BY FileConstants
  DEF Crash, durable, Runs, StoreIdle, CollectIdle, DownInv, IInv, NoGarbage,
      TypeOK
<1> QED BY <1>1, <1>2, <1>3, <1>4, <1>5, <1>6, <1>7, <1>8 DEF IInv

\* The restart fails the rows that were left unfinished.
LEMMA StartInductive == ASSUME IInv, DownInv, Start PROVE IInv'
<1>1. TypeOK'
  BY FileConstants
  DEF Start, durable, Runs, StoreIdle, CollectIdle, DownInv, IInv, TypeOK
<1>2. LockInv'
  BY FileConstants
  DEF Start, durable, Runs, StoreIdle, CollectIdle, DownInv, IInv, StoreCalls,
      Collections, LockInv
<1>3. StoreInv'
  BY FileConstants
  DEF Start, durable, Runs, StoreIdle, CollectIdle, DownInv, IInv, StoreInv
<1>4. CollectInv'
  BY FileConstants
  DEF Start, durable, Runs, StoreIdle, CollectIdle, DownInv, IInv, StoreCalls,
      Collections, CollectInv, LockInv, Used
<1>5. DocInv'
  BY FileConstants
  DEF Start, durable, Runs, StoreIdle, CollectIdle, DownInv, IInv, DocInv,
      DocumentHeld
<1>6. RowInv'
  BY FileConstants
  DEF Start, durable, Runs, StoreIdle, CollectIdle, DownInv, IInv, StoreCalls,
      Collections, RowInv, CollectInv, Used
<1>7. KeepInv'
  BY FileConstants
  DEF Start, durable, Runs, StoreIdle, CollectIdle, DownInv, KeepInv
<1>8. NoGarbage'
  BY FileConstants
  DEF Start, durable, Runs, StoreIdle, CollectIdle, DownInv, NoGarbage
<1> QED BY <1>1, <1>2, <1>3, <1>4, <1>5, <1>6, <1>7, <1>8 DEF IInv

-----------------------------------------------------------------------------
(* Theorems *)

\* Nothing is stored, and nothing runs, when the service is first started.
LEMMA InitInductive == ASSUME Init PROVE IInv /\ DownInv
<1>1. TypeOK
  <2>1. store \in [Stores -> StoreCalls]
    BY DEF Init, StoreIdle, StoreCalls
  <2>2. collect \in Collections
    BY DEF Init, CollectIdle, Collections
  <2> QED BY <2>1, <2>2, FileConstants DEF Init, TypeOK, Runs
<1>2. LockInv /\ StoreInv /\ DownInv
  BY DEF Init, LockInv, StoreInv, DownInv, StoreIdle, Registering
<1>3. CollectInv /\ DocInv /\ RowInv /\ KeepInv /\ NoGarbage
  BY DEF Init, KeepInv, NoGarbage, Unused, CollectInv, CollectIdle, DocInv,
         DocumentHeld, RowInv, Used
<1> QED BY <1>1, <1>2, <1>3 DEF IInv

\* Every step of the service, of its callers and of the outside world.
LEMMA NextInductive ==
  ASSUME IInv, DownInv, [Next]_vars
  PROVE  IInv' /\ DownInv'
<1>1. CASE Progress
  <2>1. IInv'
    BY <1>1, RunStepInductive, StoreStepInductive, CollectStepInductive
    DEF Progress
  <2>2. DownInv'
    BY <1>1 DEF Progress, DownInv
  <2> QED BY <2>1, <2>2
<1>2. CASE Request
  <2>1. IInv'
    BY <1>2, RequestInductive DEF Request
  <2>2. DownInv'
    BY <1>2 DEF Request, DownInv
  <2> QED BY <2>1, <2>2
<1>3. CASE Crash
  <2>1. DownInv'
    BY <1>3, FileConstants DEF Crash, DownInv, StoreIdle, IInv, TypeOK
  <2> QED BY <1>3, <2>1, CrashInductive
<1>4. CASE Start
  <2>1. DownInv'
    BY <1>4 DEF Start, DownInv
  <2> QED BY <1>4, <2>1, StartInductive
<1>5. CASE UNCHANGED vars
  <2>1. TypeOK' /\ LockInv' /\ StoreInv' /\ DownInv'
    BY <1>5 DEF vars, durable, IInv, TypeOK, LockInv, StoreInv, DownInv
  <2>2. CollectInv' /\ DocInv' /\ RowInv' /\ KeepInv' /\ NoGarbage'
    BY <1>5
    DEF vars, durable, IInv, CollectInv, DocInv, DocumentHeld, RowInv, Used,
        KeepInv, NoGarbage, Awaited, Unused
  <2> QED BY <2>1, <2>2 DEF IInv
<1> QED BY <1>1, <1>2, <1>3, <1>4, <1>5 DEF Next

\* The inductive invariant holds in every reachable state of the file store.
THEOREM Inductive == Spec => [](IInv /\ DownInv)
<1>1. Init => IInv /\ DownInv
  BY InitInductive
<1>2. IInv /\ DownInv /\ [Next]_vars => IInv' /\ DownInv'
  BY NextInductive
<1> QED BY <1>1, <1>2, PTL DEF Spec

\* The state of the file store is well formed.
THEOREM TypeCorrect == Spec => []TypeOK
<1>1. IInv => TypeOK
  BY DEF IInv
<1> QED BY <1>1, Inductive, PTL

\* Whatever the document of a running or succeeded snapshot names, the
\* snapshot holds: releaseFiles runs only for runs whose document is
\* abandoned, and no Store call outlives its run (files.go, captureFiles).
THEOREM DocumentsAreHeld == Spec => []DocumentHeld
<1>1. IInv => DocumentHeld
  BY DEF IInv, DocInv
<1> QED BY <1>1, Inductive, PTL

\* No collection deletes the row of a file some snapshot holds, and its
\* content is there unless a collection of it failed halfway: filesMu makes
\* finding a file and recording its use one step for collections
\* (FileStore.register against FileStore.collectFiles).
THEOREM HeldFilesAreStored == Spec => []HeldIsStored
<1>1. IInv => HeldIsStored
  BY DEF IInv, RowInv, HeldIsStored
<1> QED BY <1>1, Inductive, PTL

\* A file no snapshot holds is about to be used or collected, as long as no
\* call fails and nothing crashes: every path that drops a reference is
\* followed by a collection that lists it (releaseFiles, DeleteSnapshot).
THEOREM NothingIsLeftOver == Spec => []NoGarbage
<1>1. IInv => NoGarbage
  BY DEF IInv
<1> QED BY <1>1, Inductive, PTL

\* releaseFiles leaves a failed snapshot no file, and no Store call of its
\* run is left to record another (execute waits for them in captureFiles).
THEOREM FailedKeepNoFiles == Spec => []FailedKeepsNoFiles
<1>1. IInv => FailedKeepsNoFiles
  BY DEF IInv, KeepInv, FailedKeepsNoFiles
<1> QED BY <1>1, Inductive, PTL
=============================================================================
