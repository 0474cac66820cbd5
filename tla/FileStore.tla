----------------------------- MODULE FileStore -----------------------------
(***************************************************************************)
(* Attachment files of one user (internal/backup/files.go): files are      *)
(* stored once under their sha256 and shared by the snapshots that use     *)
(* them.  Running snapshots register files from several goroutines under   *)
(* filesMu held shared; a failed run and a deletion collect the files no   *)
(* snapshot uses under filesMu held exclusively.                           *)
(*                                                                         *)
(* One step is one database or blob call, or taking the lock together with *)
(* the first call made under it.  A call that reports an error may have    *)
(* taken effect all the same; errors are counted by faults.                *)
(***************************************************************************)
EXTENDS Integers, FiniteSets

CONSTANTS Snaps,     \* snapshots
          Files,     \* contents, named by their sha256
          Sources,   \* attachments: (source, size) pairs of the connection
          Stores,    \* goroutines of captureFiles
          MaxFaults, \* failing calls
          MaxCrashes \* crashes

NoSnap == "none"
NoFile == "none"

ASSUME FileConstants ==
  /\ NoSnap \notin Snaps
  /\ NoFile \notin Files
  /\ MaxFaults \in Nat
  /\ MaxCrashes \in Nat

VARIABLES
  up,       \* the process is running
  run,      \* the life of each snapshot
  todo,     \* attachments a running snapshot has still to store
  doc,      \* files its document names so far
  file,     \* nocodb_files
  blob,     \* file contents in the blob store
  refs,     \* nocodb_snapshot_files
  hint,     \* nocodb_file_sources
  store,    \* the Store call of each goroutine
  waiting,  \* snapshots whose releaseFiles or DeleteSnapshot is to collect
  collect,  \* the collection that holds filesMu
  half,     \* history: collected blobs whose row may not have been deleted
  faults, crashes

durable == <<file, blob, refs, hint>>
vars == <<up, run, todo, doc, durable, store, waiting, collect, half, faults, crashes>>

\* "stuck": the terminal update failed, so the row stays running.
Runs == {"new", "running", "failing", "releasing", "collecting", "stuck",
         "succeeded", "failed", "deleted"}

StoreIdle == [at |-> "idle", snap |-> NoSnap, source |-> NoFile,
              file |-> NoFile, content |-> FALSE]

\* Where a Store call holds filesMu shared.
Registering == {"putting", "creating", "adding"}

CollectIdle == [by |-> NoSnap, left |-> {}, blobGone |-> FALSE]

StoreCalls ==
  [at : {"idle", "registering", "downloading", "hinting"} \cup Registering,
   snap : Snaps \cup {NoSnap}, source : Sources \cup {NoFile},
   file : Files \cup {NoFile}, content : BOOLEAN]

Collections == [by : Snaps \cup {NoSnap}, left : SUBSET Files, blobGone : BOOLEAN]

TypeOK ==
  /\ up \in BOOLEAN
  /\ run \in [Snaps -> Runs]
  /\ todo \in [Snaps -> SUBSET Sources]
  /\ doc \in [Snaps -> SUBSET Files]
  /\ file \subseteq Files
  /\ blob \subseteq Files
  /\ refs \subseteq Snaps \X Files
  /\ hint \in [Sources -> Files \cup {NoFile}]
  /\ store \in [Stores -> StoreCalls]
  /\ waiting \subseteq Snaps
  /\ collect \in Collections
  /\ half \subseteq Files
  /\ faults \in 0..MaxFaults
  /\ crashes \in 0..MaxCrashes

Init ==
  /\ up = TRUE
  /\ run = [s \in Snaps |-> "new"]
  /\ todo = [s \in Snaps |-> {}]
  /\ doc = [s \in Snaps |-> {}]
  /\ file = {}
  /\ blob = {}
  /\ refs = {}
  /\ hint = [a \in Sources |-> NoFile]
  /\ store = [g \in Stores |-> StoreIdle]
  /\ waiting = {}
  /\ collect = CollectIdle
  /\ half = {}
  /\ faults = 0
  /\ crashes = 0

-----------------------------------------------------------------------------
(* Helpers *)

Fault == faults < MaxFaults /\ faults' = faults + 1

Goto(g, step) == store' = [store EXCEPT ![g].at = step]

\* The Store call returns an error: captureFiles cancels the others, waits
\* for them and fails the run.
StoreError(g) ==
  /\ store' = [store EXCEPT ![g] = StoreIdle]
  /\ run' = [run EXCEPT ![store[g].snap] = "failing"]

\* The Store call returns a sha: the document names it.
StoreReturns(g, f) ==
  /\ store' = [store EXCEPT ![g] = StoreIdle]
  /\ doc' = [doc EXCEPT ![store[g].snap] = @ \cup {f}]

Used(f) == \E s \in Snaps : <<s, f>> \in refs

Locked == collect.by # NoSnap

Storing(s) == \E g \in Stores : store[g].at # "idle" /\ store[g].snap = s

-----------------------------------------------------------------------------
(* A snapshot's run, as far as files see it *)

\* Without attachments (the Backup Policy says so) nothing is stored.
BeginRun(s) ==
  /\ run[s] = "new"
  /\ run' = [run EXCEPT ![s] = "running"]
  /\ \E atts \in {Sources, {}} : todo' = [todo EXCEPT ![s] = atts]
  /\ UNCHANGED <<doc, durable, store, waiting, collect, half, faults>>

Succeed(s) ==
  /\ run[s] = "running"
  /\ todo[s] = {}
  /\ ~Storing(s)
  /\ run' = [run EXCEPT ![s] = "succeeded"]
  /\ UNCHANGED <<todo, doc, durable, store, waiting, collect, half, faults>>

\* The run timed out or met an error elsewhere: Store calls in progress
\* return an error, or finish before they notice.
Cancel(s) ==
  /\ run[s] = "running"
  /\ run' = [run EXCEPT ![s] = "failing"]
  /\ UNCHANGED <<todo, doc, durable, store, waiting, collect, half, faults>>

\* Mutant: captureFiles does not wait for its Store calls.
FailRunAtOnce(s) ==
  /\ run[s] = "failing"
  /\ run' = [run EXCEPT ![s] = "releasing"]
  /\ UNCHANGED <<todo, doc, durable, store, waiting, collect, half, faults>>

\* capture returns an error; captureFiles has waited for its Store calls.
FailRun(s) ==
  /\ run[s] = "failing"
  /\ ~Storing(s)
  /\ run' = [run EXCEPT ![s] = "releasing"]
  /\ UNCHANGED <<todo, doc, durable, store, waiting, collect, half, faults>>

\* releaseFiles forgets the run's references, then collects.
Release(s) ==
  /\ run[s] = "releasing"
  /\ refs' = {p \in refs : p[1] # s}
  /\ waiting' = waiting \cup {s}
  /\ run' = [run EXCEPT ![s] = "collecting"]
  /\ UNCHANGED <<todo, doc, file, blob, hint, store, collect, half, faults>>

ReleaseFails(s) ==
  /\ run[s] = "releasing"
  /\ Fault
  /\ refs' \in {refs, {p \in refs : p[1] # s}}
  /\ run' = [run EXCEPT ![s] = "collecting"]
  /\ UNCHANGED <<todo, doc, file, blob, hint, store, waiting, collect, half>>

\* The terminal UpdateSnapshot of a failed run follows its releaseFiles.
RecordFailure(s) ==
  /\ run[s] = "collecting"
  /\ s \notin waiting
  /\ collect.by # s
  /\ run' = [run EXCEPT ![s] = "failed"]
  /\ UNCHANGED <<todo, doc, durable, store, waiting, collect, half, faults>>

\* The terminal update of a run failed: nothing more happens to its row.
RecordFails(s) ==
  /\ \/ run[s] = "running" /\ todo[s] = {} /\ ~Storing(s)
     \/ run[s] = "collecting" /\ s \notin waiting /\ collect.by # s
  /\ Fault
  /\ run' = [run EXCEPT ![s] = "stuck"]
  /\ UNCHANGED <<todo, doc, durable, store, waiting, collect, half>>

\* Mutant: DeleteSnapshot does not collect.
DeleteOnly(s) ==
  /\ run[s] \in {"succeeded", "failed"}
  /\ refs' = {p \in refs : p[1] # s}
  /\ run' = [run EXCEPT ![s] = "deleted"]
  /\ UNCHANGED <<todo, doc, file, blob, hint, store, waiting, collect, half, faults>>

\* DeleteSnapshot: the row and the references go in one transaction.
Delete(s) ==
  /\ run[s] \in {"succeeded", "failed"}
  /\ refs' = {p \in refs : p[1] # s}
  /\ run' = [run EXCEPT ![s] = "deleted"]
  /\ waiting' = waiting \cup {s}
  /\ UNCHANGED <<todo, doc, file, blob, hint, store, collect, half, faults>>

\* The commit was reported failed but happened: nothing is collected.
DeleteFails(s) ==
  /\ run[s] \in {"succeeded", "failed"}
  /\ Fault
  /\ refs' = {p \in refs : p[1] # s}
  /\ run' = [run EXCEPT ![s] = "deleted"]
  /\ UNCHANGED <<todo, doc, file, blob, hint, store, waiting, collect, half>>

RunStep(s) ==
  \/ Succeed(s) \/ Cancel(s) \/ FailRun(s) \/ Release(s) \/ ReleaseFails(s)
  \/ RecordFailure(s) \/ RecordFails(s)

-----------------------------------------------------------------------------
(* Store and register *)

\* FileSource: a copy stored earlier is tried first.
BeginStore(g, s, a) ==
  /\ store[g] = StoreIdle
  /\ run[s] = "running"
  /\ a \in todo[s]
  /\ todo' = [todo EXCEPT ![s] = @ \ {a}]
  /\ store' = [store EXCEPT ![g] =
                 [at |-> IF hint[a] = NoFile THEN "downloading" ELSE "registering",
                  snap |-> s, source |-> a, file |-> hint[a], content |-> FALSE]]
  /\ UNCHANGED <<run, doc, durable, waiting, collect, half, faults>>

\* What the attachment holds now; its sha is computed on the way.
Download(g) ==
  /\ store[g].at = "downloading"
  /\ \E f \in Files :
       store' = [store EXCEPT ![g].at = "registering", ![g].file = f,
                              ![g].content = TRUE]
  /\ UNCHANGED <<run, todo, doc, durable, waiting, collect, half, faults>>

\* No reference serves the file: it is recorded as missing.
Unavailable(g) ==
  /\ store[g].at = "downloading"
  /\ store' = [store EXCEPT ![g] = StoreIdle]
  /\ UNCHANGED <<run, todo, doc, durable, waiting, collect, half, faults>>

\* Mutant: register does not take filesMu.
RegisterUnlocked(g) ==
  /\ store[g].at = "registering"
  /\ Goto(g, IF store[g].file \in file THEN "adding"
             ELSE IF store[g].content THEN "putting" ELSE "downloading")
  /\ UNCHANGED <<run, todo, doc, durable, waiting, collect, half, faults>>

\* filesMu.RLock and FileExists.
Register(g) ==
  /\ store[g].at = "registering"
  /\ ~Locked
  /\ Goto(g, IF store[g].file \in file THEN "adding"
             ELSE IF store[g].content THEN "putting" ELSE "downloading")
  /\ UNCHANGED <<run, todo, doc, durable, waiting, collect, half, faults>>

PutBlob(g) ==
  /\ store[g].at = "putting"
  /\ blob' = blob \cup {store[g].file}
  /\ Goto(g, "creating")
  /\ UNCHANGED <<run, todo, doc, file, refs, hint, waiting, collect, half, faults>>

\* CreateFile: a row that exists already is left alone.
CreateRow(g) ==
  /\ store[g].at = "creating"
  /\ file' = file \cup {store[g].file}
  /\ Goto(g, "adding")
  /\ UNCHANGED <<run, todo, doc, blob, refs, hint, waiting, collect, half, faults>>

\* Mutant: the use of a reused copy is not recorded.
AddRefIfNew(g) ==
  /\ store[g].at = "adding"
  /\ IF store[g].content
     THEN /\ refs' = refs \cup {<<store[g].snap, store[g].file>>}
          /\ Goto(g, "hinting") /\ UNCHANGED doc
     ELSE StoreReturns(g, store[g].file) /\ UNCHANGED refs
  /\ UNCHANGED <<run, todo, file, blob, hint, waiting, collect, half, faults>>

\* Mutant: the two ids of the row are swapped.
AddRefSwapped(g) ==
  /\ store[g].at = "adding"
  /\ refs' = refs \cup {<<store[g].file, store[g].snap>>}
  /\ IF store[g].content
     THEN Goto(g, "hinting") /\ UNCHANGED doc
     ELSE StoreReturns(g, store[g].file)
  /\ UNCHANGED <<run, todo, file, blob, hint, waiting, collect, half, faults>>

\* AddSnapshotFile and the deferred RUnlock; a reused copy is done.
AddRef(g) ==
  /\ store[g].at = "adding"
  /\ refs' = refs \cup {<<store[g].snap, store[g].file>>}
  /\ IF store[g].content
     THEN Goto(g, "hinting") /\ UNCHANGED doc
     ELSE StoreReturns(g, store[g].file)
  /\ UNCHANGED <<run, todo, file, blob, hint, waiting, collect, half, faults>>

PutHint(g) ==
  /\ store[g].at = "hinting"
  /\ hint' = [hint EXCEPT ![store[g].source] = store[g].file]
  /\ StoreReturns(g, store[g].file)
  /\ UNCHANGED <<run, todo, file, blob, refs, waiting, collect, half, faults>>

\* A call of Store failed or was cancelled, with or without its effect.
StoreFails(g) ==
  /\ store[g].at # "idle"
  /\ store[g].at # "registering" \/ ~Locked
  /\ IF run[store[g].snap] = "failing" THEN UNCHANGED faults ELSE Fault
  /\ StoreError(g)
  /\ \/ UNCHANGED durable
     \/ store[g].at = "putting" /\ blob' = blob \cup {store[g].file}
        /\ UNCHANGED <<file, refs, hint>>
     \/ store[g].at = "creating" /\ file' = file \cup {store[g].file}
        /\ UNCHANGED <<blob, refs, hint>>
     \/ store[g].at = "adding" /\ refs' = refs \cup {<<store[g].snap, store[g].file>>}
        /\ UNCHANGED <<file, blob, hint>>
     \/ store[g].at = "hinting"
        /\ hint' = [hint EXCEPT ![store[g].source] = store[g].file]
        /\ UNCHANGED <<file, blob, refs>>
  /\ UNCHANGED <<todo, doc, waiting, collect, half>>

StoreStep(g) ==
  \/ \E s \in Snaps, a \in Sources : BeginStore(g, s, a)
  \/ Download(g) \/ Unavailable(g) \/ Register(g) \/ PutBlob(g) \/ CreateRow(g)
  \/ AddRef(g) \/ PutHint(g) \/ StoreFails(g)

-----------------------------------------------------------------------------
(* collectFiles *)

Unused == {f \in file : ~Used(f)}

\* filesMu.Lock and ListUnusedFiles.
BeginCollect(s) ==
  /\ s \in waiting
  /\ ~Locked
  /\ \A g \in Stores : store[g].at \notin Registering
  /\ waiting' = waiting \ {s}
  /\ collect' = [by |-> s, left |-> Unused, blobGone |-> FALSE]
  /\ UNCHANGED <<run, todo, doc, durable, store, half, faults>>

BeginCollectFails(s) ==
  /\ s \in waiting
  /\ ~Locked
  /\ \A g \in Stores : store[g].at \notin Registering
  /\ Fault
  /\ waiting' = waiting \ {s}
  /\ UNCHANGED <<run, todo, doc, durable, store, collect, half>>

\* The next file of the list; the order is the database's, any will do.
FirstOf(S) == CHOOSE f \in S : TRUE

CollectBlob ==
  /\ collect.left # {}
  /\ ~collect.blobGone
  /\ blob' = blob \ {FirstOf(collect.left)}
  /\ half' = half \cup {FirstOf(collect.left)}
  /\ collect' = [collect EXCEPT !.blobGone = TRUE]
  /\ UNCHANGED <<run, todo, doc, file, refs, hint, store, waiting, faults>>

\* blobs.Delete failed: the file keeps its row.
CollectBlobFails ==
  /\ collect.left # {}
  /\ ~collect.blobGone
  /\ Fault
  /\ \/ /\ blob' = blob \ {FirstOf(collect.left)}
        /\ half' = half \cup {FirstOf(collect.left)}
     \/ UNCHANGED <<blob, half>>
  /\ collect' = [collect EXCEPT !.left = @ \ {FirstOf(collect.left)}]
  /\ UNCHANGED <<run, todo, doc, file, refs, hint, store, waiting>>

CollectRow ==
  /\ collect.blobGone
  /\ file' = file \ {FirstOf(collect.left)}
  /\ half' = half \ {FirstOf(collect.left)}
  /\ collect' = [collect EXCEPT !.left = @ \ {FirstOf(collect.left)}, !.blobGone = FALSE]
  /\ UNCHANGED <<run, todo, doc, blob, refs, hint, store, waiting, faults>>

\* DeleteFile failed: the row of a file without content stays.
CollectRowFails ==
  /\ collect.blobGone
  /\ Fault
  /\ collect' = [collect EXCEPT !.left = @ \ {FirstOf(collect.left)}, !.blobGone = FALSE]
  /\ UNCHANGED <<run, todo, doc, durable, store, waiting, half>>

\* The deferred Unlock.
EndCollect ==
  /\ Locked
  /\ collect.left = {}
  /\ collect' = CollectIdle
  /\ UNCHANGED <<run, todo, doc, durable, store, waiting, half, faults>>

CollectStep ==
  \/ \E s \in Snaps : BeginCollect(s) \/ BeginCollectFails(s)
  \/ CollectBlob \/ CollectBlobFails \/ CollectRow \/ CollectRowFails \/ EndCollect

-----------------------------------------------------------------------------
(* Crash and restart *)

Crash ==
  /\ up
  /\ crashes < MaxCrashes
  /\ crashes' = crashes + 1
  /\ up' = FALSE
  /\ todo' = [s \in Snaps |-> {}]
  /\ store' = [g \in Stores |-> StoreIdle]
  /\ waiting' = {}
  /\ collect' = CollectIdle
  /\ UNCHANGED <<run, doc, durable, half, faults>>

\* FailUnfinishedSnapshots fails what was interrupted and does no more.
Start ==
  /\ ~up
  /\ up' = TRUE
  /\ run' = [s \in Snaps |->
               IF run[s] \in {"running", "failing", "releasing", "collecting", "stuck"}
               THEN "failed" ELSE run[s]]
  /\ UNCHANGED <<todo, doc, durable, store, waiting, collect, half, faults, crashes>>

-----------------------------------------------------------------------------
Progress ==
  /\ up
  /\ \/ \E s \in Snaps : RunStep(s)
     \/ \E g \in Stores : StoreStep(g)
     \/ CollectStep
  /\ UNCHANGED <<up, crashes>>

Request ==
  /\ up
  /\ \E s \in Snaps : BeginRun(s) \/ Delete(s) \/ DeleteFails(s)
  /\ UNCHANGED <<up, crashes>>

Next == Progress \/ Request \/ Crash \/ Start

Spec == Init /\ [][Next]_vars /\ WF_vars(Progress) /\ WF_vars(Start)

-----------------------------------------------------------------------------
(* Properties *)

\* Every file the document of a running or succeeded snapshot names is one
\* the snapshot holds, so that no collection takes it.
DocumentHeld ==
  \A s \in Snaps : run[s] \in {"running", "succeeded"} =>
    \A f \in doc[s] : <<s, f>> \in refs

\* A file in use is stored: no collection comes between finding a file and
\* recording its use, whatever else fails.  The one exception is a file whose
\* collection deleted the content and could not delete the row.
HeldIsStored ==
  \A f \in Files : Used(f) => f \in file /\ (f \in blob \/ f \in half)

\* Something is about to use the file, or to collect it.
Awaited(f) ==
  \/ \E g \in Stores : store[g].at = "adding" /\ store[g].file = f
  \/ \E s \in Snaps : run[s] \in {"failing", "releasing"}
  \/ waiting # {}
  \/ f \in collect.left

\* A file is deleted when no snapshot holds it any more: with no failed call
\* and no crash, an unused file is always about to be used or collected.
NoGarbage ==
  faults = 0 /\ crashes = 0 => \A f \in Unused : Awaited(f)

\* A failed snapshot keeps no files: no Store call of it is left to record
\* one after releaseFiles.  (After a crash, or an error, it may.)
FailedKeepsNoFiles ==
  faults = 0 /\ crashes = 0 =>
  \A s \in Snaps : run[s] = "failed" => \A f \in Files : <<s, f>> \notin refs

\* Every file a succeeded snapshot's document names can be restored
\* (ADR 0005: a file is deleted only when no snapshot uses it).
SucceededIsComplete ==
  \A s \in Snaps : run[s] = "succeeded" => doc[s] \subseteq blob
=============================================================================
