---------------------------- MODULE SnapshotJobs ----------------------------
(***************************************************************************)
(* Snapshot jobs of internal/backup: Manager.Enqueue, the bounded queue,   *)
(* the in-flight map, and the workers that run Manager.execute up to the   *)
(* point where a scheduled run prunes old snapshots (module Backup).       *)
(*                                                                         *)
(* One step is one critical section of Manager.mu, one channel operation   *)
(* or one database or blob call, so calls, workers and crashes interleave  *)
(* between any two of them.  A database write that reports an error may    *)
(* have been applied all the same; such errors are counted by faults.      *)
(***************************************************************************)
EXTENDS Integers, Sequences, FiniteSets

CONSTANTS Snaps,      \* snapshot ids; each is the number of its CreatedAt
          Bases,      \* policyKey: (connection, base) pairs of one connection
          BaseOf,     \* the base each snapshot captures
          Scheduled,  \* snapshots whose trigger is scheduled, not manual
          Workers,    \* Config.Workers goroutines
          QueueSize,  \* Config.QueueSize
          Retention,  \* the Backup Policies' retention count, 0 for "keep all"
          MaxFaults   \* failing database and blob calls per process life

ASSUME JobConstants ==
  /\ Snaps \subseteq Nat \ {0}
  /\ BaseOf \in [Snaps -> Bases]
  /\ Scheduled \subseteq Snaps
  /\ QueueSize \in Nat \ {0}
  /\ Retention \in Nat
  /\ MaxFaults \in Nat

VARIABLES
  up,        \* the process serves requests and runs jobs
  conn,      \* the connection's row is stored
  snapshot,  \* the nocodb_snapshots row of each id
  content,   \* ids whose gzip document is in the blob store
  alerts,    \* ids of snapshots the notifier was told about
  inFlight,  \* Manager.inFlight: the snapshot holding each base, or NoSnap
  queue,     \* Manager.queue
  call,      \* how far the Enqueue call that made each id has come
  work,      \* what each worker goroutine is doing
  faults     \* failed calls since the process started

jobVars == <<snapshot, content, alerts, inFlight, queue, call, work, faults>>

NoSnap == 0

Active   == {"pending", "running"}
Terminal == {"succeeded", "failed"}

\* key says whether the ObjectKey column is set.
Row(status, key) == [status |-> status, key |-> key]
NoRow == Row("none", FALSE)

Rows == [status : {"none"} \cup Active \cup Terminal, key : BOOLEAN]

Calls == {"new", "reserved", "inserted", "full", "done"}

Steps == {"idle", "loaded", "building", "captured", "failing", "alerting",
          "listing", "pruning"}

Idle == [at |-> "idle", snap |-> NoSnap, victims |-> {}]

Jobs == [at : Steps, snap : Snaps \cup {NoSnap}, victims : SUBSET Snaps]

JobsTypeOK ==
  /\ up \in BOOLEAN
  /\ conn \in BOOLEAN
  /\ snapshot \in [Snaps -> Rows]
  /\ content \subseteq Snaps
  /\ alerts \subseteq Snaps
  /\ inFlight \in [Bases -> Snaps \cup {NoSnap}]
  /\ queue \in Seq(Snaps)
  /\ call \in [Snaps -> Calls]
  /\ work \in [Workers -> Jobs]
  /\ faults \in 0..MaxFaults

JobsInit ==
  /\ up = TRUE
  /\ conn = TRUE
  /\ snapshot = [s \in Snaps |-> NoRow]
  /\ content = {}
  /\ alerts = {}
  /\ inFlight = [b \in Bases |-> NoSnap]
  /\ queue = <<>>
  /\ call = [s \in Snaps |-> "new"]
  /\ work = [w \in Workers |-> Idle]
  /\ faults = 0

-----------------------------------------------------------------------------
(* Helpers *)

Fault == faults < MaxFaults /\ faults' = faults + 1

\* release(key): the base may be enqueued again.
Release(s) == inFlight' = [inFlight EXCEPT ![BaseOf[s]] = NoSnap]

SetCall(s, c) == call' = [call EXCEPT ![s] = c]

Goto(w, step) == work' = [work EXCEPT ![w].at = step]

\* Mutant: execute returns without its deferred release.
ReturnHolding(w) ==
  work' = [work EXCEPT ![w] = Idle] /\ UNCHANGED inFlight

\* execute returns: its deferred release runs last.
Return(w) ==
  /\ work' = [work EXCEPT ![w] = Idle]
  /\ Release(work[w].snap)

Write(s, row) == snapshot' = [snapshot EXCEPT ![s] = row]

\* The call reports an error; the row may have been written all the same.
WriteFails(s, row) ==
  /\ Fault
  /\ Write(s, row) \/ UNCHANGED snapshot

-----------------------------------------------------------------------------
(* Enqueue: by a CreateSnapshot request or by a policy's cron entry.  A    *)
(* base that is in flight answers ErrSnapshotInProgress: no step.          *)

\* Mutant: the in-flight map is not consulted.
ReserveUnchecked(s) ==
  /\ conn
  /\ call[s] = "new"
  /\ inFlight' = [inFlight EXCEPT ![BaseOf[s]] = s]
  /\ SetCall(s, "reserved")
  /\ UNCHANGED <<snapshot, content, alerts, queue, work, faults>>

\* Mutant: the map is given the base, not the snapshot.
ReserveBase(s) ==
  /\ conn
  /\ call[s] = "new"
  /\ inFlight[BaseOf[s]] = NoSnap
  /\ inFlight' = [inFlight EXCEPT ![BaseOf[s]] = BaseOf[s]]
  /\ SetCall(s, "reserved")
  /\ UNCHANGED <<snapshot, content, alerts, queue, work, faults>>

Reserve(s) ==
  /\ conn
  /\ call[s] = "new"
  /\ inFlight[BaseOf[s]] = NoSnap
  /\ inFlight' = [inFlight EXCEPT ![BaseOf[s]] = s]
  /\ SetCall(s, "reserved")
  /\ UNCHANGED <<snapshot, content, alerts, queue, work, faults>>

Insert(s) ==
  /\ call[s] = "reserved"
  /\ Write(s, Row("pending", FALSE))
  /\ SetCall(s, "inserted")
  /\ UNCHANGED <<content, alerts, inFlight, queue, work, faults>>

InsertFails(s) ==
  /\ call[s] = "reserved"
  /\ WriteFails(s, Row("pending", FALSE))
  /\ SetCall(s, "done")
  /\ Release(s)
  /\ UNCHANGED <<content, alerts, queue, work>>

\* The non-blocking send: a full queue gives the base back at once and
\* fails the row in a later step.
Send(s) ==
  /\ call[s] = "inserted"
  /\ Len(queue) < QueueSize
  /\ queue' = Append(queue, s)
  /\ SetCall(s, "done")
  /\ UNCHANGED <<snapshot, content, alerts, inFlight, work, faults>>

SendFull(s) ==
  /\ call[s] = "inserted"
  /\ Len(queue) = QueueSize
  /\ SetCall(s, "full")
  /\ Release(s)
  /\ UNCHANGED <<snapshot, content, alerts, queue, work, faults>>

FailRow(s) ==
  /\ call[s] = "full"
  /\ \/ Write(s, Row("failed", FALSE)) /\ UNCHANGED faults
     \/ WriteFails(s, Row("failed", FALSE))
  /\ SetCall(s, "done")
  /\ UNCHANGED <<content, alerts, inFlight, queue, work>>

EnqueueStep(s) ==
  \/ Insert(s) \/ InsertFails(s) \/ Send(s) \/ SendFull(s) \/ FailRow(s)

-----------------------------------------------------------------------------
(* execute, run by a worker goroutine *)

Take(w) ==
  /\ work[w].at = "idle"
  /\ queue # <<>>
  /\ queue' = Tail(queue)
  /\ work' = [work EXCEPT ![w] =
                [at |-> "loaded", snap |-> Head(queue), victims |-> {}]]
  /\ UNCHANGED <<snapshot, content, alerts, inFlight, call, faults>>

\* GetSnapshot failed: execute returns before it defers the release, so the
\* base stays in flight until the process restarts.
LookupFails(w) ==
  /\ work[w].at = "idle"
  /\ queue # <<>>
  /\ Fault
  /\ queue' = Tail(queue)
  /\ UNCHANGED <<snapshot, content, alerts, inFlight, call, work>>

\* Marks the row running; capture then loads the connection.
StartRun(w) ==
  /\ work[w].at = "loaded"
  /\ Write(work[w].snap, Row("running", FALSE))
  /\ Goto(w, IF conn THEN "building" ELSE "failing")
  /\ UNCHANGED <<content, alerts, inFlight, queue, call, faults>>

StartRunFails(w) ==
  /\ work[w].at = "loaded"
  /\ WriteFails(work[w].snap, Row("running", FALSE))
  /\ Return(w)
  /\ UNCHANGED <<content, alerts, queue, call>>

\* Mutant: an error of blobs.Put is ignored.
CaptureRegardless(w) ==
  /\ work[w].at = "building"
  /\ content' \in {content, content \cup {work[w].snap}}
  /\ Goto(w, "captured")
  /\ UNCHANGED <<snapshot, alerts, inFlight, queue, call, faults>>

\* blobs.Put succeeded; the object key is set in memory only.
Capture(w) ==
  /\ work[w].at = "building"
  /\ content' = content \cup {work[w].snap}
  /\ Goto(w, "captured")
  /\ UNCHANGED <<snapshot, alerts, inFlight, queue, call, faults>>

\* NocoDB answered an error, or the run timed out.
CaptureFails(w) ==
  /\ work[w].at = "building"
  /\ Goto(w, "failing")
  /\ UNCHANGED <<snapshot, content, alerts, inFlight, queue, call, faults>>

\* blobs.Put reported an error though the object was stored.
PutFails(w) ==
  /\ work[w].at = "building"
  /\ Fault
  /\ content' = content \cup {work[w].snap}
  /\ Goto(w, "failing")
  /\ UNCHANGED <<snapshot, alerts, inFlight, queue, call>>

FinishRow(w) ==
  IF work[w].at = "captured" THEN Row("succeeded", TRUE)
                             ELSE Row("failed", FALSE)

\* The terminal UpdateSnapshot; a manual run then returns, a scheduled one
\* raises its alert or applies retention while it still holds its base.
Finish(w) ==
  /\ work[w].at \in {"captured", "failing"}
  /\ Write(work[w].snap, FinishRow(w))
  /\ IF work[w].snap \in Scheduled
     THEN /\ Goto(w, IF work[w].at = "captured" THEN "listing" ELSE "alerting")
          /\ UNCHANGED inFlight
     ELSE Return(w)
  /\ UNCHANGED <<content, alerts, queue, call, faults>>

FinishFails(w) ==
  /\ work[w].at \in {"captured", "failing"}
  /\ WriteFails(work[w].snap, FinishRow(w))
  /\ Return(w)
  /\ UNCHANGED <<content, alerts, queue, call>>

RaiseAlert(w) ==
  /\ work[w].at = "alerting"
  /\ alerts' = alerts \cup {work[w].snap}
  /\ Return(w)
  /\ UNCHANGED <<snapshot, content, queue, call, faults>>

-----------------------------------------------------------------------------
(* applyRetention: what it lists; module Backup deletes it *)

\* The succeeded scheduled snapshots of a base.
Kept(b) == {s \in Scheduled : BaseOf[s] = b /\ snapshot[s].status = "succeeded"}

\* Mutant: the list is sorted the other way round.
BeyondOldest(b) ==
  {s \in Kept(b) : Cardinality({t \in Kept(b) : t < s}) >= Retention}

\* Those beyond the newest Retention.
Beyond(b) ==
  {s \in Kept(b) : Cardinality({t \in Kept(b) : t > s}) >= Retention}

\* Mutant: the list is cut one snapshot too late.
ListVictimsLate(w) ==
  /\ work[w].at = "listing"
  /\ conn
  /\ Retention > 0
  /\ LET b == BaseOf[work[w].snap] IN
     work' = [work EXCEPT ![w].at = "pruning",
                          ![w].victims =
       {s \in Kept(b) : Cardinality({t \in Kept(b) : t > s}) > Retention}]
  /\ UNCHANGED <<snapshot, content, alerts, inFlight, queue, call, faults>>

ListVictims(w) ==
  /\ work[w].at = "listing"
  /\ conn
  /\ Retention > 0
  /\ work' = [work EXCEPT ![w].at = "pruning",
                          ![w].victims = Beyond(BaseOf[work[w].snap])]
  /\ UNCHANGED <<snapshot, content, alerts, inFlight, queue, call, faults>>

\* No connection, no policy or retention 0; or one of the three reads failed.
SkipRetention(w) ==
  /\ work[w].at = "listing"
  /\ IF conn /\ Retention > 0 THEN Fault ELSE UNCHANGED faults
  /\ Return(w)
  /\ UNCHANGED <<snapshot, content, alerts, queue, call>>

ExecuteStep(w) ==
  \/ Take(w) \/ LookupFails(w) \/ StartRun(w) \/ StartRunFails(w)
  \/ Capture(w) \/ CaptureFails(w) \/ PutFails(w)
  \/ Finish(w) \/ FinishFails(w) \/ RaiseAlert(w)
  \/ ListVictims(w) \/ SkipRetention(w)

-----------------------------------------------------------------------------
(* The job of a snapshot: an Enqueue call before its send, a place in the  *)
(* queue, or a worker.                                                     *)

Calling(s)   == call[s] \in {"reserved", "inserted"}
Queued(s)    == \E i \in 1..Len(queue) : queue[i] = s
Executing(s) == \E w \in Workers : work[w].at # "idle" /\ work[w].snap = s
Job(s)       == Calling(s) \/ Queued(s) \/ Executing(s)
=============================================================================
