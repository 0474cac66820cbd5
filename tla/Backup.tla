------------------------------- MODULE Backup -------------------------------
(***************************************************************************)
(* The backup component: snapshot jobs (SnapshotJobs) together with what   *)
(* runs beside them - deleting snapshots (by a request, by retention, by   *)
(* deleting the connection), restores, crashes and restarts.               *)
(***************************************************************************)
EXTENDS SnapshotJobs

CONSTANTS Handlers,   \* goroutines serving delete requests
          Restores,   \* restore ids
          MaxCrashes, \* crashes the process goes through
          Deletable   \* whether the connection may be deleted

ASSUME BackupConstants ==
  /\ Handlers \cap Workers = {}
  /\ Restores \subseteq Nat \ {0}
  /\ MaxCrashes \in Nat
  /\ Deletable \in BOOLEAN

VARIABLES
  erase,     \* DeleteSnapshot calls, by the thread that makes them
  cleanup,   \* provider.Cleanup calls, by handler
  restore,   \* the nocodb_restores row of each id
  rqueue,    \* Manager.restoreQueue
  rcall,     \* how far the EnqueueRestore call that made each id has come
  rwork,     \* what the one restore worker is doing
  crashes,   \* crashes so far
  condemned, \* history: snapshots whose deletion passed its checks
  late       \* history: rows inserted after a Cleanup listed the snapshots

restoreVars == <<restore, rqueue, rcall, rwork>>
eraseVars   == <<erase, cleanup, condemned>>
vars == <<up, conn, jobVars, eraseVars, restoreVars, crashes, late>>

Threads == Workers \cup Handlers

NoErase   == [at |-> "idle", snap |-> NoSnap]
NoCleanup == [at |-> "idle", snaps |-> {}]

\* snap is the snapshot its EnqueueRestore call read, before the row exists.
RestoreRow(status, s) == [status |-> status, snap |-> s]

NoRestore   == 0
RestoreIdle == [at |-> "idle", restore |-> NoRestore]

Erasures == [at : {"idle", "checked", "emptied"}, snap : Snaps \cup {NoSnap}]

Cleanups ==
  [at : {"idle", "listed", "deleting", "purged"}, snaps : SUBSET Snaps]

RestoreRows ==
  [status : {"none"} \cup Active \cup Terminal, snap : Snaps \cup {NoSnap}]

RestoreJobs ==
  [at : {"idle", "loaded", "started", "reading", "ok", "failed"},
   restore : Restores \cup {NoRestore}]

TypeOK ==
  /\ JobsTypeOK
  /\ erase \in [Threads -> Erasures]
  /\ cleanup \in [Handlers -> Cleanups]
  /\ restore \in [Restores -> RestoreRows]
  /\ rqueue \in Seq(Restores)
  /\ rcall \in [Restores -> Calls \cup {"checked"}]
  /\ rwork \in RestoreJobs
  /\ crashes \in 0..MaxCrashes
  /\ condemned \subseteq Snaps
  /\ late \subseteq Snaps

Init ==
  /\ JobsInit
  /\ erase = [t \in Threads |-> NoErase]
  /\ cleanup = [h \in Handlers |-> NoCleanup]
  /\ restore = [r \in Restores |-> RestoreRow("none", NoSnap)]
  /\ rqueue = <<>>
  /\ rcall = [r \in Restores |-> "new"]
  /\ rwork = RestoreIdle
  /\ crashes = 0
  /\ condemned = {}
  /\ late = {}

-----------------------------------------------------------------------------
(* Snapshot jobs *)

\* Rows a Cleanup that already listed the snapshots cannot see.
Inserted(s) ==
  late' = IF ~conn \/ \E h \in Handlers : cleanup[h].at # "idle"
          THEN late \cup {s} ELSE late

JobStep ==
  /\ \/ \E s \in Snaps : (Insert(s) \/ InsertFails(s)) /\ Inserted(s)
     \/ \E s \in Snaps : (Send(s) \/ SendFull(s) \/ FailRow(s)) /\ UNCHANGED late
     \/ \E w \in Workers : ExecuteStep(w) /\ UNCHANGED late
  /\ UNCHANGED <<conn, eraseVars, restoreVars>>

\* A CreateSnapshot request, or a policy's cron entry.
SnapshotRequest(s) ==
  Reserve(s) /\ UNCHANGED <<conn, eraseVars, restoreVars, late>>

-----------------------------------------------------------------------------
(* DeleteSnapshot: the checks, the content, then the row.  The status it   *)
(* reads is terminal and stays so; the restores are read at the check.     *)

\* A restore of s is pending or running.
RestoreActive(s) ==
  \E r \in Restores : restore[r].snap = s /\ restore[r].status \in Active

Erasable(s) == ~RestoreActive(s)

\* The checks passed: content goes next.
BeginErase(t, s) ==
  /\ erase' = [erase EXCEPT ![t] = [at |-> "checked", snap |-> s]]
  /\ condemned' = condemned \cup {s}

\* Mutant: the status of the snapshot is not looked at.
DeleteAnyRequest(h, s) ==
  /\ erase[h] = NoErase
  /\ cleanup[h] = NoCleanup
  /\ snapshot[s].status # "none"
  /\ Erasable(s)
  /\ BeginErase(h, s)
  /\ UNCHANGED <<conn, jobVars, cleanup, restoreVars, late>>

\* A DeleteSnapshot request.
DeleteRequest(h, s) ==
  /\ erase[h] = NoErase
  /\ cleanup[h] = NoCleanup
  /\ snapshot[s].status \in Terminal
  /\ Erasable(s)
  /\ BeginErase(h, s)
  /\ UNCHANGED <<conn, jobVars, cleanup, restoreVars, late>>

\* An error ends the whole call: the rest of the retention or the cleanup.
AbortErase(t) ==
  /\ erase' = [erase EXCEPT ![t] = NoErase]
  /\ work' = IF t \in Workers THEN [work EXCEPT ![t].victims = {}] ELSE work
  /\ cleanup' = IF t \in Handlers THEN [cleanup EXCEPT ![t] = NoCleanup]
                                  ELSE cleanup

EraseContent(t) ==
  /\ erase[t].at = "checked"
  /\ content' = IF snapshot[erase[t].snap].key
                THEN content \ {erase[t].snap} ELSE content
  /\ erase' = [erase EXCEPT ![t].at = "emptied"]
  /\ UNCHANGED <<conn, snapshot, alerts, inFlight, queue, call, work, faults,
                 cleanup, condemned, restoreVars, late>>

EraseContentFails(t) ==
  /\ erase[t].at = "checked"
  /\ snapshot[erase[t].snap].key
  /\ Fault
  /\ content' \in {content, content \ {erase[t].snap}}
  /\ AbortErase(t)
  /\ UNCHANGED <<conn, snapshot, alerts, inFlight, queue, call, condemned,
                 restoreVars, late>>

EraseRow(t) ==
  /\ erase[t].at = "emptied"
  /\ Write(erase[t].snap, NoRow)
  /\ erase' = [erase EXCEPT ![t] = NoErase]
  /\ UNCHANGED <<conn, content, alerts, inFlight, queue, call, work, faults,
                 cleanup, condemned, restoreVars, late>>

EraseRowFails(t) ==
  /\ erase[t].at = "emptied"
  /\ WriteFails(erase[t].snap, NoRow)
  /\ AbortErase(t)
  /\ UNCHANGED <<conn, content, alerts, inFlight, queue, call, condemned,
                 restoreVars, late>>

EraseStep(t) ==
  \/ EraseContent(t) \/ EraseContentFails(t)
  \/ EraseRow(t) \/ EraseRowFails(t)

-----------------------------------------------------------------------------
(* applyRetention's loop: newest victim first, a restored one is skipped   *)

Newest(S) == {s \in S : \A t \in S : t <= s}

Prune(w) ==
  /\ work[w].at = "pruning"
  /\ erase[w] = NoErase
  /\ \E v \in Newest(work[w].victims) :
       /\ work' = [work EXCEPT ![w].victims = @ \ {v}]
       /\ IF Erasable(v) THEN BeginErase(w, v) ELSE UNCHANGED <<erase, condemned>>
  /\ UNCHANGED <<conn, snapshot, content, alerts, inFlight, queue, call, faults,
                 cleanup, restoreVars, late>>

\* ListRestores failed: the rest waits for the next scheduled run.
PruneFails(w) ==
  /\ work[w].at = "pruning"
  /\ erase[w] = NoErase
  /\ work[w].victims # {}
  /\ Fault
  /\ work' = [work EXCEPT ![w].victims = {}]
  /\ UNCHANGED <<conn, snapshot, content, alerts, inFlight, queue, call,
                 eraseVars, restoreVars, late>>

PruneDone(w) ==
  /\ work[w].at = "pruning"
  /\ erase[w] = NoErase
  /\ work[w].victims = {}
  /\ Return(w)
  /\ UNCHANGED <<conn, snapshot, content, alerts, queue, call, faults,
                 eraseVars, restoreVars, late>>

-----------------------------------------------------------------------------
(* Deleting the connection: connection.Service.Delete runs provider.Cleanup*)
(* and then deletes the row.                                               *)

Stored == {s \in Snaps : snapshot[s].status # "none"}

\* Lists the snapshots; refuses while one is pending or running.
ListForCleanup(h) ==
  /\ Deletable
  /\ conn
  /\ erase[h] = NoErase
  /\ cleanup[h] = NoCleanup
  /\ \A s \in Snaps : snapshot[s].status \notin Active
  /\ cleanup' = [cleanup EXCEPT ![h] = [at |-> "listed", snaps |-> Stored]]
  /\ UNCHANGED <<conn, jobVars, erase, condemned, restoreVars, late>>

\* Refuses while a restore is pending or running.
CheckRestores(h) ==
  /\ cleanup[h].at = "listed"
  /\ cleanup' = [cleanup EXCEPT ![h] =
                   IF \E r \in Restores : restore[r].status \in Active
                   THEN NoCleanup ELSE [@ EXCEPT !.at = "deleting"]]
  /\ UNCHANGED <<conn, jobVars, erase, condemned, restoreVars, late>>

\* Mutant: a snapshot that is being restored is passed over, as retention does.
CleanNextSkipping(h) ==
  /\ cleanup[h].at = "deleting"
  /\ erase[h] = NoErase
  /\ \E s \in Newest(cleanup[h].snaps) :
       /\ cleanup' = [cleanup EXCEPT ![h].snaps = @ \ {s}]
       /\ IF Erasable(s) THEN BeginErase(h, s) ELSE UNCHANGED <<erase, condemned>>
  /\ UNCHANGED <<conn, jobVars, restoreVars, late>>

\* DeleteSnapshot of the next listed snapshot; a refusal ends the cleanup.
CleanNext(h) ==
  /\ cleanup[h].at = "deleting"
  /\ erase[h] = NoErase
  /\ \E s \in Newest(cleanup[h].snaps) :
       IF Erasable(s)
       THEN /\ cleanup' = [cleanup EXCEPT ![h].snaps = @ \ {s}]
            /\ BeginErase(h, s)
       ELSE /\ cleanup' = [cleanup EXCEPT ![h] = NoCleanup]
            /\ UNCHANGED <<erase, condemned>>
  /\ UNCHANGED <<conn, jobVars, restoreVars, late>>

\* DeleteRestoresForConnection, after the policies and file sources.
DropRestores(h) ==
  /\ cleanup[h].at = "deleting"
  /\ erase[h] = NoErase
  /\ cleanup[h].snaps = {}
  /\ restore' = [r \in Restores |-> [restore[r] EXCEPT !.status = "none"]]
  /\ cleanup' = [cleanup EXCEPT ![h].at = "purged"]
  /\ UNCHANGED <<conn, jobVars, erase, condemned, rqueue, rcall, rwork, late>>

DropConnection(h) ==
  /\ cleanup[h].at = "purged"
  /\ conn' = FALSE
  /\ cleanup' = [cleanup EXCEPT ![h] = NoCleanup]
  /\ UNCHANGED <<jobVars, erase, condemned, restoreVars, late>>

\* A database call between the deletions of two snapshots, or after the
\* last, failed.
CleanupFails(h) ==
  /\ cleanup[h] # NoCleanup
  /\ erase[h] = NoErase
  /\ Fault
  /\ cleanup' = [cleanup EXCEPT ![h] = NoCleanup]
  /\ UNCHANGED <<conn, snapshot, content, alerts, inFlight, queue, call, work,
                 erase, condemned, restoreVars, late>>

CleanupStep(h) ==
  \/ CheckRestores(h) \/ CleanNext(h) \/ DropRestores(h)
  \/ DropConnection(h) \/ CleanupFails(h)

-----------------------------------------------------------------------------
(* EnqueueRestore: by a RestoreSnapshot request *)

SetRCall(r, c) == rcall' = [rcall EXCEPT ![r] = c]

SetRestore(r, status) == restore' = [restore EXCEPT ![r].status = status]

\* UpdateRestore of a row that is gone reports ErrNotFound.
RestoreStored(r) == restore[r].status # "none"

\* Reads the snapshot and the target connection.
RequestRestore(r, s) ==
  /\ rcall[r] = "new"
  /\ conn
  /\ snapshot[s].status = "succeeded"
  /\ restore' = [restore EXCEPT ![r].snap = s]
  /\ SetRCall(r, "checked")
  /\ UNCHANGED <<conn, jobVars, eraseVars, rqueue, rwork, late>>

InsertRestore(r) ==
  /\ rcall[r] = "checked"
  /\ SetRestore(r, "pending")
  /\ SetRCall(r, "inserted")
  /\ UNCHANGED <<jobVars, rqueue, rwork>>

InsertRestoreFails(r) ==
  /\ rcall[r] = "checked"
  /\ Fault
  /\ \/ SetRestore(r, "pending")
     \/ UNCHANGED restore
  /\ SetRCall(r, "done")
  /\ UNCHANGED <<snapshot, content, alerts, inFlight, queue, call, work, rqueue, rwork>>

SendRestore(r) ==
  /\ rcall[r] = "inserted"
  /\ IF Len(rqueue) < QueueSize
     THEN rqueue' = Append(rqueue, r) /\ SetRCall(r, "done")
     ELSE SetRCall(r, "full") /\ UNCHANGED rqueue
  /\ UNCHANGED <<jobVars, restore, rwork>>

FailRestore(r) ==
  /\ rcall[r] = "full"
  /\ IF RestoreStored(r) THEN SetRestore(r, "failed") ELSE UNCHANGED restore
  /\ SetRCall(r, "done")
  /\ UNCHANGED <<jobVars, rqueue, rwork>>

FailRestoreFails(r) ==
  /\ rcall[r] = "full"
  /\ Fault
  /\ SetRCall(r, "done")
  /\ UNCHANGED <<snapshot, content, alerts, inFlight, queue, call, work,
                 restore, rqueue, rwork>>

-----------------------------------------------------------------------------
(* executeRestore, run by the one restore worker *)

TakeRestore ==
  /\ rwork = RestoreIdle
  /\ rqueue # <<>>
  /\ rqueue' = Tail(rqueue)
  /\ IF RestoreStored(Head(rqueue))
     THEN rwork' = [at |-> "loaded", restore |-> Head(rqueue)]
     ELSE UNCHANGED rwork
  /\ UNCHANGED <<jobVars, restore, rcall>>

\* GetRestore or the first UpdateRestore failed: the row stays active.
DropRestore ==
  /\ Fault
  /\ \/ /\ rwork = RestoreIdle /\ rqueue # <<>>
        /\ rqueue' = Tail(rqueue)
        /\ UNCHANGED <<restore, rwork>>
     \/ /\ rwork.at = "loaded"
        /\ rwork' = RestoreIdle
        /\ RestoreStored(rwork.restore)
        /\ SetRestore(rwork.restore, "running") \/ UNCHANGED restore
        /\ UNCHANGED rqueue
  /\ UNCHANGED <<snapshot, content, alerts, inFlight, queue, call, work, rcall>>

StartRestore ==
  /\ rwork.at = "loaded"
  /\ IF RestoreStored(rwork.restore)
     THEN SetRestore(rwork.restore, "running") /\ rwork' = [rwork EXCEPT !.at = "started"]
     ELSE UNCHANGED restore /\ rwork' = RestoreIdle
  /\ UNCHANGED <<jobVars, rqueue, rcall>>

\* Mutant: a restore whose snapshot is gone returns at once.
OpenRestoreOrReturn ==
  /\ rwork.at = "started"
  /\ LET s == restore[rwork.restore].snap IN
       rwork' = IF conn /\ snapshot[s] = Row("succeeded", TRUE) /\ s \in content
                THEN [rwork EXCEPT !.at = "reading"] ELSE RestoreIdle
  /\ UNCHANGED <<jobVars, restore, rqueue, rcall>>

\* Loads the snapshot and the connection and opens the content.
OpenRestore ==
  /\ rwork.at = "started"
  /\ LET s == restore[rwork.restore].snap IN
       rwork' = [rwork EXCEPT !.at =
                   IF /\ conn
                      /\ snapshot[s] = Row("succeeded", TRUE)
                      /\ s \in content
                   THEN "reading" ELSE "failed"]
  /\ UNCHANGED <<jobVars, restore, rqueue, rcall>>

\* The Base is built, or NocoDB or the blob store answered an error.
EndRestore ==
  /\ rwork.at = "reading"
  /\ \E outcome \in {"ok", "failed"} : rwork' = [rwork EXCEPT !.at = outcome]
  /\ UNCHANGED <<jobVars, restore, rqueue, rcall>>

FinishRestore ==
  /\ rwork.at \in {"ok", "failed"}
  /\ \/ /\ IF RestoreStored(rwork.restore)
           THEN SetRestore(rwork.restore,
                           IF rwork.at = "ok" THEN "succeeded" ELSE "failed")
           ELSE UNCHANGED restore
        /\ UNCHANGED faults
     \/ Fault /\ UNCHANGED restore
  /\ rwork' = RestoreIdle
  /\ UNCHANGED <<snapshot, content, alerts, inFlight, queue, call, work, rqueue, rcall>>

RestoreStep ==
  \/ \E r \in Restores : \/ InsertRestore(r) \/ InsertRestoreFails(r)
                         \/ SendRestore(r)
                         \/ FailRestore(r) \/ FailRestoreFails(r)
  \/ TakeRestore \/ DropRestore \/ StartRestore
  \/ OpenRestore \/ EndRestore \/ FinishRestore

-----------------------------------------------------------------------------
(* Crash and Start *)

Forgotten(calls) == [i \in DOMAIN calls |-> IF calls[i] = "new" THEN "new" ELSE "done"]

\* Everything in memory is lost; rows and blobs stay.
Crash ==
  /\ up
  /\ crashes < MaxCrashes
  /\ crashes' = crashes + 1
  /\ up' = FALSE
  /\ inFlight' = [b \in Bases |-> NoSnap]
  /\ queue' = <<>>
  /\ call' = Forgotten(call)
  /\ work' = [w \in Workers |-> Idle]
  /\ erase' = [t \in Threads |-> NoErase]
  /\ cleanup' = [h \in Handlers |-> NoCleanup]
  /\ rqueue' = <<>>
  /\ rcall' = Forgotten(rcall)
  /\ rwork' = RestoreIdle
  /\ UNCHANGED <<conn, snapshot, content, alerts, faults, restore, condemned, late>>

\* Mutant: pending rows are left alone.
FailedRunning(rows) ==
  [i \in DOMAIN rows |-> IF rows[i].status = "running"
                         THEN [rows[i] EXCEPT !.status = "failed"] ELSE rows[i]]

\* Mutant: every row is failed.
FailedAll(rows) ==
  [i \in DOMAIN rows |-> IF rows[i].status # "none"
                         THEN [rows[i] EXCEPT !.status = "failed"] ELSE rows[i]]

Failed(rows) ==
  [i \in DOMAIN rows |-> IF rows[i].status \in Active
                         THEN [rows[i] EXCEPT !.status = "failed"] ELSE rows[i]]

\* Start fails what was interrupted, before the workers and requests run.
Start ==
  /\ ~up
  /\ up' = TRUE
  /\ snapshot' = Failed(snapshot)
  /\ restore' = Failed(restore)
  /\ faults' = 0
  /\ UNCHANGED <<conn, content, alerts, inFlight, queue, call, work, eraseVars,
                 rqueue, rcall, rwork, crashes, late>>

-----------------------------------------------------------------------------
Requests ==
  \/ \E s \in Snaps : SnapshotRequest(s)
  \/ \E h \in Handlers, s \in Snaps : DeleteRequest(h, s)
  \/ \E h \in Handlers : ListForCleanup(h)
  \/ \E r \in Restores, s \in Snaps : RequestRestore(r, s)

\* What the goroutines of the process go on doing by themselves: the workers
\* and Enqueue calls, the deletions of one handler, the restores.
RetentionStep(w) == EraseStep(w) \/ Prune(w) \/ PruneFails(w) \/ PruneDone(w)

JobProgress ==
  up /\ (JobStep \/ \E w \in Workers : RetentionStep(w)) /\ UNCHANGED <<up, crashes>>

HandlerProgress(h) ==
  up /\ (EraseStep(h) \/ CleanupStep(h)) /\ UNCHANGED <<up, crashes>>

RestoreProgress ==
  up /\ RestoreStep /\ UNCHANGED <<up, conn, eraseVars, crashes, late>>

Request == up /\ Requests /\ UNCHANGED <<up, crashes>>

Next ==
  \/ Request
  \/ JobProgress
  \/ \E h \in Handlers : HandlerProgress(h)
  \/ RestoreProgress
  \/ Crash
  \/ Start

\* Goroutines run and calls to NocoDB, the database and the blob store
\* return (every one has a deadline); a crashed process is started again.
\* Nobody has to send requests.
Fairness ==
  /\ WF_vars(JobProgress)
  /\ \A h \in Handlers : WF_vars(HandlerProgress(h))
  /\ WF_vars(RestoreProgress)
  /\ WF_vars(Start)

Spec == Init /\ [][Next]_vars /\ Fairness

-----------------------------------------------------------------------------
(* What the snapshot jobs promise *)

\* A base has one snapshot job at most - an Enqueue call about to send, a
\* place in the queue or a worker - and no job is in two places: the
\* in-flight map keeps two workers from ever capturing one base together,
\* whatever calls fail and however crashes interleave.
OneJobPerBase ==
  /\ \A s, t \in Snaps : Job(s) /\ Job(t) /\ BaseOf[s] = BaseOf[t] => s = t
  /\ \A i, j \in 1..Len(queue) : queue[i] = queue[j] => i = j
  /\ \A v, w \in Workers :
       work[v].at # "idle" /\ work[w].at # "idle" /\ work[v].snap = work[w].snap
       => v = w
  /\ \A s \in Snaps : ~(Calling(s) /\ Queued(s)) /\ ~(Queued(s) /\ Executing(s))

\* Until its job finishes it, a row says what the job is doing: no deletion,
\* retention, cleanup or late failure touches the row of a live job.
JobOwnsRow ==
  /\ \A s \in Snaps : Queued(s) => snapshot[s] = Row("pending", FALSE)
  /\ \A w \in Workers : work[w].at \in {"building", "captured", "failing"}
                        => snapshot[work[w].snap] = Row("running", FALSE)

\* A finished row is only ever deleted: DeleteSnapshot, retention and
\* EnqueueRestore act on copies read earlier and rely on it.
TerminalIsFinal ==
  [][\A s \in Snaps : snapshot[s].status \in Terminal
                      => snapshot'[s] \in {snapshot[s], NoRow}]_vars

\* A succeeded snapshot can be downloaded and restored until a deletion of
\* it passed its checks.
SucceededHasContent ==
  \A s \in Snaps : snapshot[s].status = "succeeded"
                   => snapshot[s].key /\ (s \in content \/ s \in condemned)

InRestoreQueue(r) == \E i \in 1..Len(rqueue) : rqueue[i] = r

\* While no database or blob call has failed since Start, every pending or
\* running row belongs to something that will finish it.
NothingStranded ==
  up /\ faults = 0 =>
    /\ \A s \in Snaps : snapshot[s].status \in Active => Job(s) \/ call[s] = "full"
    /\ \A r \in Restores : restore[r].status \in Active =>
         \/ rcall[r] \in {"inserted", "full"}
         \/ InRestoreQueue(r)
         \/ rwork.restore = r

Succeeded(b) ==
  {s \in Scheduled : BaseOf[s] = b /\ snapshot[s].status = "succeeded"}

\* A base at rest holds no scheduled snapshot beyond the newest Retention,
\* but for one that a restore was reading: no later run may take the base
\* before retention ends.
RetentionHolds ==
  up /\ conn /\ Retention > 0 /\ faults = 0 /\ crashes = 0 =>
    \A b \in Bases : inFlight[b] = NoSnap =>
      \A s \in Succeeded(b) :
        \/ Cardinality({t \in Succeeded(b) : t > s}) < Retention
        \/ \E r \in Restores : restore[r].snap = s

\* What a worker deletes is scheduled, and Retention newer scheduled
\* snapshots of its base succeeded; manual snapshots are never pruned.
RetentionSparesNewest ==
  \A w \in Workers : erase[w].at # "idle" =>
    LET v == erase[w].snap IN
      /\ v \in Scheduled
      /\ Cardinality({t \in Scheduled :
            /\ BaseOf[t] = BaseOf[v]
            /\ t > v
            /\ snapshot[t].status = "succeeded" \/ t \in condemned}) >= Retention

\* Once the connection is deleted, only snapshots whose rows were inserted
\* after its cleanup listed them are left.
CleanupMissesOnlyLate == ~conn => Stored \subseteq late

\* "A Snapshot can't be deleted while a Restore of it is pending or running"
\* (CONTEXT.md).  DeleteSnapshot lists the restores before it deletes, and
\* nothing keeps one from being recorded in between.
NotDeletedUnderRestore ==
  [][\A s \in Snaps : snapshot[s].status # "none" /\ snapshot'[s] = NoRow
                      => ~RestoreActive(s)]_vars

\* "Neo Box raises an alert when a scheduled snapshot or a restore fails"
\* (README.md): not for a snapshot that finds the queue full, nor for one a
\* restart interrupts.
FailuresAreAlerted ==
  \A s \in Scheduled : snapshot[s].status = "failed" ~> s \in alerts

\* Every snapshot that is recorded ends, and so does every restore, unless
\* a call fails: crashes included, whose interrupted rows Start fails.
WorkSettles ==
  /\ \A s \in Snaps : snapshot[s].status \in Active
                      ~> snapshot[s].status \notin Active \/ faults > 0
  /\ \A r \in Restores : restore[r].status \in Active
                         ~> restore[r].status \notin Active \/ faults > 0

\* A base that is in flight becomes free again, unless a call fails.
BaseFreed ==
  \A b \in Bases : inFlight[b] # NoSnap ~> inFlight[b] = NoSnap \/ faults > 0
=============================================================================
