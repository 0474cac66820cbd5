---------------------------- MODULE BackupProofs ----------------------------
(***************************************************************************)
(* Proofs about Backup for any number of snapshots, bases, workers, delete *)
(* handlers and restores, any queue size and retention count, and any      *)
(* number of failing calls and crashes.                                    *)
(***************************************************************************)
EXTENDS Backup, FiniteSetTheorems, TLAPS

-----------------------------------------------------------------------------
(* The inductive invariant *)

\* How far the Enqueue call of s is decides its row and who holds its base.
CallOK(s) ==
  /\ call[s] \in {"new", "reserved"} => snapshot[s] = NoRow
  /\ call[s] \in {"inserted", "full"} => snapshot[s] = Row("pending", FALSE)
  /\ Calling(s) => inFlight[BaseOf[s]] = s

CallInv == \A s \in Snaps : CallOK(s)

\* s waits for a worker: it is pending, holds its base and is not being run.
Waits(s) ==
  /\ call[s] = "done"
  /\ snapshot[s] = Row("pending", FALSE)
  /\ inFlight[BaseOf[s]] = s
  /\ \A w \in Workers : work[w].at # "idle" => work[w].snap # s

QueueInv ==
  /\ \A i \in 1..Len(queue) : Waits(queue[i])
  /\ \A i, j \in 1..Len(queue) : queue[i] = queue[j] => i = j

\* The snapshot worker w runs holds its base; its row says how far it is.
WorkOK(w) ==
  /\ work[w].snap \in Snaps
  /\ call[work[w].snap] = "done"
  /\ inFlight[BaseOf[work[w].snap]] = work[w].snap
  /\ work[w].at = "loaded" => snapshot[work[w].snap] = Row("pending", FALSE)
  /\ work[w].at \in {"building", "captured", "failing"}
       => snapshot[work[w].snap] = Row("running", FALSE)
  /\ work[w].at = "captured" => work[w].snap \in content
  /\ work[w].at \in {"alerting", "listing", "pruning"}
       => snapshot[work[w].snap].status \notin Active

WorkInv ==
  /\ \A w \in Workers : work[w].at # "idle" => WorkOK(w)
  /\ \A v, w \in Workers :
       work[v].at # "idle" /\ work[w].at # "idle" /\ work[v].snap = work[w].snap
       => v = w

\* No job of s is left, and none will come.
Settled(s) ==
  s \in Snaps /\ call[s] = "done" /\ snapshot[s].status \notin Active

\* Only settled snapshots are deleted, or listed to be.
EraseInv ==
  /\ \A t \in Threads : erase[t].at # "idle" =>
       Settled(erase[t].snap) /\ erase[t].snap \in condemned
  /\ \A w \in Workers : \A v \in work[w].victims : Settled(v)
  /\ \A h \in Handlers : \A s \in cleanup[h].snaps : Settled(s)

\* What a cleanup has still to delete, or cannot see.
CleanInv ==
  /\ \A h \in Handlers : cleanup[h].at # "idle" =>
       \A s \in Stored : \/ s \in late \cup cleanup[h].snaps
                         \/ erase[h].at # "idle" /\ erase[h].snap = s
  /\ \A h \in Handlers : cleanup[h].at = "purged" =>
       cleanup[h].snaps = {} /\ erase[h] = NoErase
  /\ CleanupMissesOnlyLate

IInv ==
  /\ TypeOK
  /\ CallInv
  /\ QueueInv
  /\ WorkInv
  /\ EraseInv
  /\ SucceededHasContent
  /\ CleanInv

\* Nothing in memory survives a crash.
DownInv ==
  ~up => /\ queue = <<>>
         /\ \A w \in Workers : work[w] = Idle
         /\ \A t \in Threads : erase[t] = NoErase
         /\ \A h \in Handlers : cleanup[h] = NoCleanup
         /\ \A s \in Snaps : call[s] \in {"new", "done"}

-----------------------------------------------------------------------------
(* Lemmas about the helpers *)

\* Row makes rows.
LEMMA RowType ==
  ASSUME NEW status \in {"none"} \cup Active \cup Terminal, NEW key \in BOOLEAN
  PROVE  /\ Row(status, key) \in Rows
         /\ Row(status, key).status = status
         /\ Row(status, key).key = key
BY DEF Row, Rows

\* A write, whether it reports an error or not, changes one row or none.
LEMMA WriteRow ==
  ASSUME TypeOK, NEW s \in Snaps, NEW row \in Rows,
         Write(s, row) \/ WriteFails(s, row)
  PROVE  /\ snapshot' \in [Snaps -> Rows]
         /\ \A t \in Snaps : t # s => snapshot'[t] = snapshot[t]
         /\ snapshot'[s] \in {snapshot[s], row}
         /\ Write(s, row) => snapshot'[s] = row
<1>1. CASE UNCHANGED snapshot
  BY <1>1 DEF TypeOK, JobsTypeOK, Write
<1>2. CASE Write(s, row)
  BY <1>2 DEF TypeOK, JobsTypeOK, Write
<1> QED BY <1>1, <1>2 DEF WriteFails

\* A call fails.
LEMMA FaultType == ASSUME TypeOK, Fault PROVE faults' \in 0..MaxFaults
BY JobConstants DEF TypeOK, JobsTypeOK, Fault

\* A worker moves on.
LEMMA GotoFacts ==
  ASSUME TypeOK, NEW w \in Workers, NEW step \in Steps, Goto(w, step)
  PROVE  /\ work' \in [Workers -> Jobs]
         /\ \A v \in Workers : v # w => work'[v] = work[v]
         /\ work'[w].at = step
         /\ work'[w].snap = work[w].snap
         /\ work'[w].victims = work[w].victims
<1>1. work \in [Workers -> Jobs]
  BY DEF TypeOK, JobsTypeOK
<1>2. [work[w] EXCEPT !.at = step] \in Jobs
  BY <1>1 DEF Jobs
<1> QED BY <1>1, <1>2 DEF Goto, Jobs

\* A worker returns from execute.
LEMMA ReturnFacts ==
  ASSUME TypeOK, NEW w \in Workers, work[w].snap \in Snaps, Return(w)
  PROVE  /\ work' \in [Workers -> Jobs]
         /\ inFlight' \in [Bases -> Snaps \cup {NoSnap}]
         /\ \A v \in Workers : v # w => work'[v] = work[v]
         /\ work'[w] = Idle
         /\ Release(work[w].snap)
<1>1. Idle \in Jobs
  BY DEF Idle, Jobs, Steps
<1> QED BY <1>1 DEF TypeOK, JobsTypeOK, Return, Release

\* The list of a retention is set, and nothing else of its worker.
LEMMA VictimsFacts ==
  ASSUME TypeOK, NEW w \in Workers, NEW step \in Steps, NEW S \in SUBSET Snaps,
         work' = [work EXCEPT ![w].at = step, ![w].victims = S]
  PROVE  /\ work' \in [Workers -> Jobs]
         /\ \A v \in Workers : v # w => work'[v] = work[v]
         /\ work'[w].at = step
         /\ work'[w].snap = work[w].snap
         /\ work'[w].victims = S
<1>1. work \in [Workers -> Jobs]
  BY DEF TypeOK, JobsTypeOK
<1>2. [[work[w] EXCEPT !.at = step] EXCEPT !.victims = S] \in Jobs
  BY <1>1 DEF Jobs
<1> QED BY <1>1, <1>2 DEF Jobs

\* The list of a retention gets shorter, and nothing else changes.
Shorter ==
  \A w \in Workers : /\ work'[w].at = work[w].at
                     /\ work'[w].snap = work[w].snap
                     /\ work'[w].victims \subseteq work[w].victims

\* A victim leaves the list.
LEMMA ShorterFacts ==
  ASSUME TypeOK, NEW w \in Workers, NEW S, S \subseteq work[w].victims,
         work' = [work EXCEPT ![w].victims = S]
  PROVE  work' \in [Workers -> Jobs] /\ Shorter
<1>1. work \in [Workers -> Jobs]
  BY DEF TypeOK, JobsTypeOK
<1>2. [work[w] EXCEPT !.victims = S] \in Jobs
  BY <1>1 DEF Jobs
<1> QED BY <1>1, <1>2 DEF Jobs, Shorter

\* The list is given up.
LEMMA ClearFacts ==
  ASSUME TypeOK, NEW w \in Workers, work' = [work EXCEPT ![w].victims = {}]
  PROVE  work' \in [Workers -> Jobs] /\ Shorter
<1>1. work \in [Workers -> Jobs]
  BY DEF TypeOK, JobsTypeOK
<1>2. [work[w] EXCEPT !.victims = {}] \in Jobs
  BY <1>1 DEF Jobs
<1> QED BY <1>1, <1>2 DEF Jobs, Shorter

\* An error ends the deletion of thread t and what it was part of.
LEMMA AbortFacts ==
  ASSUME TypeOK, NEW t \in Threads, AbortErase(t)
  PROVE  /\ erase' \in [Threads -> Erasures]
         /\ work' \in [Workers -> Jobs]
         /\ cleanup' \in [Handlers -> Cleanups]
         /\ \A u \in Threads : u # t => erase'[u] = erase[u]
         /\ erase'[t] = NoErase
         /\ Shorter
         /\ \A h \in Handlers : cleanup'[h] \in {cleanup[h], NoCleanup}
         /\ t \in Handlers => cleanup'[t] = NoCleanup
<1>1. NoErase \in Erasures /\ NoCleanup \in Cleanups
  BY DEF NoErase, Erasures, NoCleanup, Cleanups
<1>2. /\ erase \in [Threads -> Erasures]
      /\ work \in [Workers -> Jobs]
      /\ cleanup \in [Handlers -> Cleanups]
  BY DEF TypeOK, JobsTypeOK
<1>3. /\ erase' \in [Threads -> Erasures]
      /\ \A u \in Threads : u # t => erase'[u] = erase[u]
      /\ erase'[t] = NoErase
  BY <1>1, <1>2 DEF AbortErase
<1>4. /\ cleanup' \in [Handlers -> Cleanups]
      /\ \A h \in Handlers : cleanup'[h] \in {cleanup[h], NoCleanup}
      /\ t \in Handlers => cleanup'[t] = NoCleanup
  BY <1>1, <1>2 DEF AbortErase
<1>5. work' \in [Workers -> Jobs] /\ Shorter
  <2>1. CASE t \in Workers
    <3>1. work' = [work EXCEPT ![t].victims = {}]
      BY <2>1 DEF AbortErase
    <3> QED BY <2>1, <3>1, ClearFacts
  <2>2. CASE t \notin Workers
    BY <2>2, <1>2 DEF AbortErase, Shorter
  <2> QED BY <2>1, <2>2
<1> QED BY <1>3, <1>4, <1>5

\* The checks of a deletion of s passed.
LEMMA BeginFacts ==
  ASSUME TypeOK, NEW t \in Threads, NEW s \in Snaps, BeginErase(t, s)
  PROVE  /\ erase' \in [Threads -> Erasures]
         /\ condemned' \subseteq Snaps
         /\ condemned \subseteq condemned'
         /\ s \in condemned'
         /\ \A u \in Threads : u # t => erase'[u] = erase[u]
         /\ erase'[t].at # "idle"
         /\ erase'[t].snap = s
BY DEF TypeOK, BeginErase, Erasures

\* No job of a finished snapshot is left.
LEMMA TerminalSettled ==
  ASSUME CallInv, TypeOK, NEW s \in Snaps, snapshot[s].status \in Terminal
  PROVE  Settled(s)
BY DEF CallInv, CallOK, TypeOK, JobsTypeOK, Calls, Settled, Terminal, Active,
       Row, NoRow

\* Retention lists finished snapshots.
LEMMA BeyondSettled ==
  ASSUME CallInv, TypeOK, NEW b
  PROVE  Beyond(b) \subseteq Snaps /\ \A s \in Beyond(b) : Settled(s)
<1>1. Beyond(b) \subseteq {s \in Snaps : snapshot[s].status = "succeeded"}
  BY JobConstants DEF Beyond, Kept
<1> QED BY <1>1, TerminalSettled DEF Terminal

\* A queue that does not change goes on holding waiting snapshots.
LEMMA QueueKept ==
  ASSUME QueueInv, queue \in Seq(Snaps), UNCHANGED queue,
         \A s \in Snaps : Waits(s) => Waits(s)'
  PROVE  QueueInv'
<1>1. ASSUME NEW i \in 1..Len(queue) PROVE Waits(queue[i])'
  <2>1. queue[i] \in Snaps
    OBVIOUS
  <2>2. PICK s \in Snaps : s = queue[i]
    BY <2>1
  <2>3. Waits(s)'
    BY <2>2 DEF QueueInv
  <2> QED BY <2>2, <2>3 DEF Waits
<1> QED BY <1>1 DEF QueueInv

-----------------------------------------------------------------------------
(* The kinds of step, each of which preserves the invariant.  TypeOK is    *)
(* left to the actions.                                                    *)

\* Worker w moves on with its job, or ends it: no other row changes, and a
\* row that is finished stays as it is.
LEMMA JobMoves ==
  ASSUME IInv, TypeOK', NEW w \in Workers, work[w].at # "idle",
         UNCHANGED <<call, queue, erase, cleanup, condemned, conn, late>>,
         content \subseteq content',
         \A s \in Snaps : s # work[w].snap => snapshot'[s] = snapshot[s],
         snapshot[work[w].snap].status \notin Active
           => snapshot'[work[w].snap] = snapshot[work[w].snap],
         \/ snapshot'[work[w].snap] = snapshot[work[w].snap]
         \/ snapshot'[work[w].snap].status # "succeeded"
         \/ snapshot'[work[w].snap].key /\ work[w].snap \in content',
         \A v \in Workers : v # w => work'[v] = work[v],
         \A s \in work'[w].victims : Settled(s),
         \/ /\ work'[w].snap = work[w].snap
            /\ WorkOK(w)'
            /\ UNCHANGED inFlight
         \/ work'[w] = Idle /\ Release(work[w].snap)
  PROVE  IInv'
<1> DEFINE S == work[w].snap
<1>1. /\ S \in Snaps
      /\ call[S] = "done"
      /\ inFlight[BaseOf[S]] = S
  BY DEF IInv, WorkInv, WorkOK
<1>2. /\ inFlight \in [Bases -> Snaps \cup {NoSnap}]
      /\ BaseOf \in [Snaps -> Bases]
      /\ queue \in Seq(Snaps)
      /\ S \in Nat \ {0}
  BY <1>1, JobConstants DEF IInv, TypeOK, JobsTypeOK
<1>3. \A s \in Snaps : s # S /\ inFlight[BaseOf[s]] = s
                         => inFlight'[BaseOf[s]] = s
  BY <1>1, <1>2 DEF Release
<1>4. \A v \in Workers : work'[v].at # "idle" =>
                            work[v].at # "idle" /\ work'[v].snap = work[v].snap
  BY DEF Idle
<1>5. \A s : Settled(s) => Settled(s)'
  BY DEF Settled
<1>6. CallInv'
  BY <1>1, <1>3 DEF IInv, CallInv, CallOK, Calling
<1>7. QueueInv'
  <2>1. \A s \in Snaps : Waits(s) => Waits(s)'
    BY <1>3, <1>4 DEF Waits
  <2> QED BY <2>1, <1>2, QueueKept DEF IInv
<1>8. WorkInv'
  <2>1. ASSUME NEW v \in Workers, v # w, work[v].at # "idle"
        PROVE  WorkOK(v)'
    <3>1. WorkOK(v) /\ work[v].snap # S /\ work'[v] = work[v]
      BY <2>1 DEF IInv, WorkInv
    <3> QED BY <3>1, <1>3 DEF WorkOK
  <2>2. work'[w].at # "idle" => WorkOK(w)' /\ work'[w].snap = S
    BY DEF Idle
  <2> QED BY <2>1, <2>2 DEF IInv, WorkInv
<1>9. EraseInv'
  BY <1>5 DEF IInv, EraseInv
<1>10. SucceededHasContent'
  BY <1>1 DEF IInv, SucceededHasContent
<1>11. CleanInv'
  <2>1. Stored' \subseteq Stored
    BY <1>1 DEF Stored, Active
  <2> QED BY <2>1 DEF IInv, CleanInv, CleanupMissesOnlyLate
<1> QED BY <1>6, <1>7, <1>8, <1>9, <1>10, <1>11 DEF IInv

\* The Enqueue call of s moves on: it may insert or fail the row of s, take,
\* send or release its base, and nothing else.
LEMMA CallMoves ==
  ASSUME IInv, TypeOK', NEW s \in Snaps, call[s] # "done",
         UNCHANGED <<content, erase, cleanup, condemned, conn, work>>,
         \A r \in Snaps : r # s => snapshot'[r] = snapshot[r] /\ call'[r] = call[r],
         snapshot'[s].status # "succeeded",
         \A r \in Snaps : r # s /\ inFlight[BaseOf[r]] = r
                            => inFlight'[BaseOf[r]] = r,
         CallOK(s)',
         \/ UNCHANGED queue
         \/ /\ queue' = Append(queue, s)
            /\ call'[s] = "done"
            /\ snapshot'[s] = Row("pending", FALSE)
            /\ inFlight'[BaseOf[s]] = s,
         \/ Inserted(s)
         \/ UNCHANGED late /\ s \in Stored
         \/ UNCHANGED late /\ snapshot'[s].status = "none"
  PROVE  IInv'
<1>1. queue \in Seq(Snaps) /\ queue' \in Seq(Snaps)
  BY DEF IInv, TypeOK, JobsTypeOK
<1>2. /\ ~Settled(s)
      /\ \A w \in Workers : work[w].at # "idle" => work[w].snap # s
  BY DEF IInv, Settled, WorkInv, WorkOK
<1>3. CallInv'
  BY DEF IInv, CallInv, CallOK, Calling
<1>5. QueueInv'
  <2>0. \A r \in Snaps : Waits(r) => Waits(r)' /\ r # s
    BY DEF Waits
  <2>1. CASE UNCHANGED queue
    BY <2>0, <2>1, <1>1, QueueKept DEF IInv
  <2>2. CASE /\ queue' = Append(queue, s)
             /\ call'[s] = "done"
             /\ snapshot'[s] = Row("pending", FALSE)
             /\ inFlight'[BaseOf[s]] = s
    <3>1. /\ Len(queue') = Len(queue) + 1
          /\ Len(queue) \in Nat
          /\ \A i \in 1..Len(queue) : queue'[i] = queue[i] /\ queue[i] \in Snaps
          /\ queue'[Len(queue) + 1] = s
      BY <2>2, <1>1
    <3>2. \A i \in 1..Len(queue') : i \in 1..Len(queue) \/ i = Len(queue) + 1
      BY <3>1
    <3>3. ASSUME NEW i \in 1..Len(queue) PROVE Waits(queue[i])' /\ queue'[i] # s
      <4>1. PICK r \in Snaps : r = queue[i] /\ queue'[i] = r
        BY <3>1
      <4>2. Waits(r)' /\ r # s
        BY <4>1, <2>0 DEF IInv, QueueInv
      <4> QED BY <4>1, <4>2 DEF Waits
    <3>4. (queue'[Len(queue) + 1] = s) /\ Waits(s)'
      BY <2>2, <3>1, <1>2 DEF Waits
    <3>5. \A i, j \in 1..Len(queue) : queue[i] = queue[j] => i = j
      BY DEF IInv, QueueInv
    <3> QED BY <3>1, <3>2, <3>3, <3>4, <3>5 DEF QueueInv
  <2> QED BY <2>1, <2>2
<1>6. WorkInv'
  BY <1>2 DEF IInv, WorkInv, WorkOK
<1>7. EraseInv'
  BY <1>2 DEF IInv, EraseInv, Settled
<1>8. SucceededHasContent'
  BY DEF IInv, SucceededHasContent
<1>9. CleanInv'
  <2>1. \A r \in Stored' : r \in Stored \/ r = s
    BY DEF Stored
  <2>2. late \subseteq late'
    BY DEF Inserted
  <2> QED BY <2>1, <2>2 DEF IInv, CleanInv, CleanupMissesOnlyLate, Stored, Inserted
<1> QED BY <1>3, <1>5, <1>6, <1>7, <1>8, <1>9 DEF IInv

\* Thread t goes on deleting, or gives up, together with what the deletion
\* was part of.
LEMMA EraseMoves ==
  ASSUME IInv, TypeOK', NEW t \in Threads, erase[t].at # "idle",
         UNCHANGED <<call, queue, inFlight, condemned, conn, late>>,
         content \subseteq content' \cup {erase[t].snap},
         \A s \in Snaps : s # erase[t].snap => snapshot'[s] = snapshot[s],
         snapshot'[erase[t].snap] \in {snapshot[erase[t].snap], NoRow},
         Shorter,
         \A u \in Threads : u # t => erase'[u] = erase[u],
         \A h \in Handlers : cleanup'[h] \in {cleanup[h], NoCleanup},
         \/ erase'[t].at # "idle" /\ erase'[t].snap = erase[t].snap
         \/ erase'[t] = NoErase /\ erase[t].snap \notin Stored'
         \/ erase'[t] = NoErase /\ (t \in Handlers => cleanup'[t] = NoCleanup)
  PROVE  IInv'
<1> DEFINE S == erase[t].snap
<1>1. Settled(S) /\ S \in condemned
  BY DEF IInv, EraseInv
<1>2. queue \in Seq(Snaps)
  BY DEF IInv, TypeOK, JobsTypeOK
<1>4. \A s : Settled(s) => Settled(s)'
  BY <1>1 DEF Settled, NoRow, Row, Active
<1>5. CallInv'
  BY <1>1 DEF IInv, CallInv, CallOK, Calling, Settled
<1>6. QueueInv'
  <2>1. \A s \in Snaps : Waits(s) => Waits(s)'
    BY <1>1 DEF Waits, Settled, Row, Active, Shorter
  <2> QED BY <2>1, <1>2, QueueKept DEF IInv
<1>7. WorkInv'
  BY <1>1, <1>4 DEF IInv, WorkInv, WorkOK, Shorter, Settled, Row, Active
<1>8. EraseInv'
  BY <1>1, <1>4 DEF IInv, EraseInv, Shorter, NoErase, NoCleanup, Threads
<1>9. SucceededHasContent'
  BY <1>1 DEF IInv, SucceededHasContent, NoRow, Row, Settled
<1>10. CleanInv'
  <2>1. Stored' \subseteq Stored
    BY <1>1 DEF Stored, Settled, NoRow, Row
  <2> QED BY <2>1 DEF IInv, CleanInv, CleanupMissesOnlyLate, NoErase, NoCleanup, Threads
<1> QED BY <1>5, <1>6, <1>7, <1>8, <1>9, <1>10 DEF IInv

\* Only deletions and cleanups are begun, listed or dropped.
LEMMA ListsMove ==
  ASSUME IInv, TypeOK', UNCHANGED <<snapshot, content, call, queue, inFlight>>,
         Shorter, condemned \subseteq condemned', EraseInv', CleanInv'
  PROVE  IInv'
<1>1. queue \in Seq(Snaps)
  BY DEF IInv, TypeOK, JobsTypeOK
<1>2. CallInv'
  BY DEF IInv, CallInv, CallOK, Calling
<1>3. QueueInv'
  <2>1. \A s \in Snaps : Waits(s) => Waits(s)'
    BY DEF Waits, Shorter
  <2> QED BY <2>1, <1>1, QueueKept DEF IInv
<1>4. WorkInv'
  BY DEF IInv, WorkInv, WorkOK, Shorter
<1>5. SucceededHasContent'
  BY DEF IInv, SucceededHasContent
<1> QED BY <1>2, <1>3, <1>4, <1>5 DEF IInv

\* Restores touch nothing else.
LEMMA RestoreMoves ==
  ASSUME IInv, TypeOK',
         UNCHANGED <<conn, snapshot, content, inFlight, queue, call, work,
                     eraseVars, late>>
  PROVE  IInv'
<1>1. Shorter
  BY DEF Shorter
<1>2. EraseInv'
  BY DEF IInv, EraseInv, Settled, eraseVars
<1>3. CleanInv'
  BY DEF IInv, CleanInv, CleanupMissesOnlyLate, Stored, eraseVars
<1> QED BY <1>1, <1>2, <1>3, ListsMove DEF eraseVars

-----------------------------------------------------------------------------
(* Every step preserves the invariant *)

\* A step of an Enqueue call.
LEMMA EnqueueInductive ==
  ASSUME IInv, NEW s \in Snaps,
         UNCHANGED <<conn, eraseVars, restoreVars, up, crashes>>,
         \/ (Insert(s) \/ InsertFails(s)) /\ Inserted(s)
         \/ (Reserve(s) \/ Send(s) \/ SendFull(s) \/ FailRow(s)) /\ UNCHANGED late
  PROVE  IInv'
<1>1. /\ TypeOK
      /\ JobsTypeOK
      /\ CallOK(s)
      /\ s # NoSnap
  BY JobConstants DEF IInv, TypeOK, CallInv, NoSnap
<1>2. Row("pending", FALSE) \in Rows /\ Row("failed", FALSE) \in Rows
  BY RowType DEF Active, Terminal
<1>3. ASSUME JobsTypeOK', late' \subseteq Snaps PROVE TypeOK'
  BY <1>1, <1>3 DEF TypeOK, eraseVars, restoreVars
<1>4. CASE Reserve(s) /\ UNCHANGED late
  <2>1. TypeOK'
    BY <1>1, <1>3, <1>4, JobConstants
    DEF Reserve, JobsTypeOK, TypeOK, SetCall, Calls
  <2>2. CallOK(s)'
    BY <1>1, <1>4, JobConstants
    DEF Reserve, JobsTypeOK, SetCall, CallOK, Calling, Row, NoRow
  <2>3. \A r \in Snaps : r # s => snapshot'[r] = snapshot[r] /\ call'[r] = call[r]
    BY <1>1, <1>4 DEF Reserve, JobsTypeOK, SetCall
  <2>4. \A r \in Snaps : r # s /\ inFlight[BaseOf[r]] = r
                           => inFlight'[BaseOf[r]] = r
    BY <1>1, <1>4, JobConstants DEF Reserve, JobsTypeOK, NoSnap
  <2> QED BY <1>1, <1>4, <2>1, <2>2, <2>3, <2>4, CallMoves
          DEF Reserve, eraseVars, CallOK, Row, NoRow
<1>5. CASE Insert(s) /\ Inserted(s)
  <2>1. TypeOK'
    BY <1>1, <1>2, <1>3, <1>5
    DEF Insert, JobsTypeOK, TypeOK, SetCall, Calls, Write, Inserted
  <2>2. CallOK(s)'
    BY <1>1, <1>5
    DEF Insert, JobsTypeOK, SetCall, CallOK, Calling, Row, NoRow, Write
  <2>3. \A r \in Snaps : r # s => snapshot'[r] = snapshot[r] /\ call'[r] = call[r]
    BY <1>1, <1>5 DEF Insert, JobsTypeOK, SetCall, Write
  <2> QED BY <1>1, <1>5, <2>1, <2>2, <2>3, CallMoves
          DEF Insert, Write, JobsTypeOK, eraseVars, CallOK, Row, NoRow
<1>6. CASE InsertFails(s) /\ Inserted(s)
  <2>1. /\ snapshot' \in [Snaps -> Rows]
        /\ \A r \in Snaps : r # s => snapshot'[r] = snapshot[r]
        /\ snapshot'[s] \in {snapshot[s], Row("pending", FALSE)}
    BY <1>1, <1>2, <1>6, WriteRow DEF InsertFails
  <2>2. TypeOK'
    BY <1>1, <1>3, <1>6, <2>1, FaultType
    DEF InsertFails, WriteFails, JobsTypeOK, TypeOK, SetCall, Calls, Release, Inserted
  <2>3. CallOK(s)'
    BY <1>1, <1>6 DEF InsertFails, JobsTypeOK, SetCall, CallOK, Calling
  <2>4. \A r \in Snaps : r # s => snapshot'[r] = snapshot[r] /\ call'[r] = call[r]
    BY <1>1, <1>6, <2>1 DEF InsertFails, JobsTypeOK, SetCall
  <2>5. \A r \in Snaps : r # s /\ inFlight[BaseOf[r]] = r
                           => inFlight'[BaseOf[r]] = r
    BY <1>1, <1>6, JobConstants
    DEF InsertFails, JobsTypeOK, Release, CallOK, Calling
  <2> QED BY <1>1, <1>6, <2>1, <2>2, <2>3, <2>4, <2>5, CallMoves
          DEF InsertFails, eraseVars, CallOK, Row, NoRow
<1>7. CASE Send(s) /\ UNCHANGED late
  <2>1. TypeOK'
    BY <1>1, <1>3, <1>7 DEF Send, JobsTypeOK, TypeOK, SetCall, Calls
  <2>2. CallOK(s)' /\ call'[s] = "done"
    BY <1>1, <1>7 DEF Send, JobsTypeOK, SetCall, CallOK, Calling
  <2>3. \A r \in Snaps : r # s => snapshot'[r] = snapshot[r] /\ call'[r] = call[r]
    BY <1>1, <1>7 DEF Send, JobsTypeOK, SetCall
  <2> QED BY <1>1, <1>7, <2>1, <2>2, <2>3, CallMoves
          DEF Send, eraseVars, CallOK, Calling, Row, Stored
<1>8. CASE SendFull(s) /\ UNCHANGED late
  <2>1. TypeOK'
    BY <1>1, <1>3, <1>8 DEF SendFull, JobsTypeOK, TypeOK, SetCall, Calls, Release
  <2>2. CallOK(s)'
    BY <1>1, <1>8 DEF SendFull, JobsTypeOK, SetCall, CallOK, Calling, Row
  <2>3. \A r \in Snaps : r # s => snapshot'[r] = snapshot[r] /\ call'[r] = call[r]
    BY <1>1, <1>8 DEF SendFull, JobsTypeOK, SetCall
  <2>4. \A r \in Snaps : r # s /\ inFlight[BaseOf[r]] = r
                           => inFlight'[BaseOf[r]] = r
    BY <1>1, <1>8, JobConstants DEF SendFull, JobsTypeOK, Release, CallOK, Calling
  <2> QED BY <1>1, <1>8, <2>1, <2>2, <2>3, <2>4, CallMoves
          DEF SendFull, eraseVars, CallOK, Row, Stored
<1>9. CASE FailRow(s) /\ UNCHANGED late
  <2>1. /\ snapshot' \in [Snaps -> Rows]
        /\ \A r \in Snaps : r # s => snapshot'[r] = snapshot[r]
        /\ snapshot'[s] \in {snapshot[s], Row("failed", FALSE)}
    BY <1>1, <1>2, <1>9, WriteRow DEF FailRow
  <2>2. TypeOK'
    BY <1>1, <1>3, <1>9, <2>1, FaultType
    DEF FailRow, WriteFails, JobsTypeOK, TypeOK, SetCall, Calls
  <2>3. CallOK(s)'
    BY <1>1, <1>9 DEF FailRow, JobsTypeOK, SetCall, CallOK, Calling
  <2>4. \A r \in Snaps : r # s => snapshot'[r] = snapshot[r] /\ call'[r] = call[r]
    BY <1>1, <1>9, <2>1 DEF FailRow, JobsTypeOK, SetCall
  <2> QED BY <1>1, <1>9, <2>1, <2>2, <2>3, <2>4, CallMoves
          DEF FailRow, eraseVars, CallOK, Row, Stored
<1> QED BY <1>4, <1>5, <1>6, <1>7, <1>8, <1>9

\* A step of execute, up to and with the list of the retention.
LEMMA ExecuteInductive ==
  ASSUME IInv, NEW w \in Workers, ExecuteStep(w),
         UNCHANGED <<conn, eraseVars, restoreVars, up, crashes, late>>
  PROVE  IInv'
<1> DEFINE S == work[w].snap
<1>1. /\ TypeOK
      /\ JobsTypeOK
      /\ work[w] \in Jobs
      /\ \A s \in work[w].victims : Settled(s)
  BY DEF IInv, TypeOK, JobsTypeOK, EraseInv
<1>2. ASSUME JobsTypeOK' PROVE TypeOK'
  BY <1>1, <1>2 DEF TypeOK, eraseVars, restoreVars
<1>3. work[w].at # "idle" => WorkOK(w)
  BY DEF IInv, WorkInv
<1>4. CASE Take(w)
  <2> DEFINE s == Head(queue)
  <2>1. /\ queue \in Seq(Snaps)
        /\ queue # <<>>
        /\ s = queue[1]
        /\ s \in Snaps
        /\ Len(queue) \in Nat
        /\ Len(queue) >= 1
        /\ queue' = Tail(queue)
        /\ queue' \in Seq(Snaps)
        /\ Len(queue') = Len(queue) - 1
        /\ \A i \in 1..Len(queue') : i + 1 \in 1..Len(queue) /\ queue'[i] = queue[i + 1]
    BY <1>1, <1>4 DEF Take, JobsTypeOK
  <2> HIDE DEF s
  <2>2. /\ work' \in [Workers -> Jobs]
        /\ \A v \in Workers : v # w => work'[v] = work[v]
        /\ work'[w] = [at |-> "loaded", snap |-> s, victims |-> {}]
    BY <1>1, <1>4, <2>1 DEF Take, JobsTypeOK, Jobs, Steps, s
  <2>3. UNCHANGED <<snapshot, content, alerts, inFlight, call, faults>>
    BY <1>4 DEF Take
  <2>4. TypeOK'
    BY <1>1, <1>2, <2>1, <2>2, <2>3 DEF JobsTypeOK
  <2>5. Waits(s)
    BY <2>1 DEF IInv, QueueInv
  <2>6. ASSUME NEW i \in 1..Len(queue') PROVE Waits(queue[i])'
    <3>1. PICK r \in Snaps : r = queue[i + 1] /\ r = queue'[i]
      BY <2>1
    <3>2. Waits(r) /\ r # s
      BY <3>1, <2>1 DEF IInv, QueueInv
    <3> QED BY <3>1, <3>2, <2>2, <2>3 DEF Waits, Row
  <2>7. ASSUME NEW i \in 1..Len(queue'), NEW j \in 1..Len(queue'),
               queue'[i] = queue'[j]
        PROVE  i = j
    <3>1. i + 1 = j + 1
      BY <2>1, <2>7 DEF IInv, QueueInv
    <3> QED BY <3>1, <2>1
  <2>8. QueueInv'
    BY <2>6, <2>7 DEF QueueInv
  <2>9. WorkInv'
    <3>1. WorkOK(w)'
      BY <2>1, <2>2, <2>3, <2>5 DEF Waits, WorkOK, Row
    <3>2. \A v \in Workers : v # w /\ work[v].at # "idle" => WorkOK(v)' /\ work[v].snap # s
      BY <2>2, <2>3, <2>5 DEF IInv, WorkInv, WorkOK, Waits, Row
    <3> QED BY <3>1, <3>2, <2>2 DEF IInv, WorkInv
  <2>10. CallInv'
    BY <2>3 DEF IInv, CallInv, CallOK, Calling
  <2>11. EraseInv'
    BY <2>2, <2>3 DEF IInv, EraseInv, Settled, eraseVars
  <2>12. SucceededHasContent' /\ CleanInv'
    BY <2>3 DEF IInv, SucceededHasContent, CleanInv, CleanupMissesOnlyLate,
                Stored, eraseVars
  <2> QED BY <2>4, <2>8, <2>9, <2>10, <2>11, <2>12 DEF IInv
<1>5. CASE LookupFails(w)
  <2>1. /\ queue \in Seq(Snaps)
        /\ queue # <<>>
        /\ Len(queue) \in Nat
        /\ queue' \in Seq(Snaps)
        /\ Len(queue') = Len(queue) - 1
        /\ \A i \in 1..Len(queue') : i + 1 \in 1..Len(queue) /\ queue'[i] = queue[i + 1]
    BY <1>1, <1>5 DEF LookupFails, JobsTypeOK
  <2>2. UNCHANGED <<snapshot, content, alerts, inFlight, call, work>>
    BY <1>5 DEF LookupFails
  <2>3. TypeOK'
    BY <1>1, <1>2, <1>5, <2>1, <2>2, FaultType DEF LookupFails, JobsTypeOK
  <2>4. ASSUME NEW i \in 1..Len(queue') PROVE Waits(queue[i])'
    <3>1. PICK r \in Snaps : r = queue[i + 1] /\ r = queue'[i]
      BY <2>1
    <3>2. Waits(r)
      BY <3>1, <2>1 DEF IInv, QueueInv
    <3> QED BY <3>1, <3>2, <2>2 DEF Waits
  <2>5. ASSUME NEW i \in 1..Len(queue'), NEW j \in 1..Len(queue'),
               queue'[i] = queue'[j]
        PROVE  i = j
    <3>1. i + 1 = j + 1
      BY <2>1, <2>5 DEF IInv, QueueInv
    <3> QED BY <3>1, <2>1
  <2>6. QueueInv'
    BY <2>4, <2>5 DEF QueueInv
  <2>7. CallInv' /\ WorkInv'
    BY <2>2 DEF IInv, CallInv, CallOK, Calling, WorkInv, WorkOK
  <2>8. EraseInv' /\ SucceededHasContent' /\ CleanInv'
    BY <2>2 DEF IInv, EraseInv, Settled, SucceededHasContent, CleanInv,
                CleanupMissesOnlyLate, Stored, eraseVars
  <2> QED BY <2>3, <2>6, <2>7, <2>8 DEF IInv
<1>6. CASE StartRun(w)
  <2>1. PICK step \in {"building", "failing"} : Goto(w, step)
    BY <1>6 DEF StartRun
  <2>2. /\ snapshot' \in [Snaps -> Rows]
        /\ \A s \in Snaps : s # S => snapshot'[s] = snapshot[s]
        /\ snapshot'[S] = Row("running", FALSE)
    BY <1>1, <1>3, <1>6, WriteRow, RowType DEF StartRun, WorkOK, Active
  <2>3. /\ work' \in [Workers -> Jobs]
        /\ \A v \in Workers : v # w => work'[v] = work[v]
        /\ work'[w].at = step
        /\ work'[w].snap = S
        /\ work'[w].victims = work[w].victims
    BY <1>1, <2>1, GotoFacts DEF Steps
  <2>4. TypeOK'
    BY <1>1, <1>2, <1>6, <2>2, <2>3 DEF StartRun, JobsTypeOK
  <2>5. WorkOK(w)'
    BY <1>3, <1>6, <2>2, <2>3 DEF StartRun, WorkOK
  <2> QED BY <1>1, <1>3, <1>6, <2>2, <2>3, <2>4, <2>5, JobMoves
          DEF StartRun, WorkOK, eraseVars, Row, Active
<1>7. CASE StartRunFails(w)
  <2>1. /\ snapshot' \in [Snaps -> Rows]
        /\ \A s \in Snaps : s # S => snapshot'[s] = snapshot[s]
        /\ snapshot'[S] \in {snapshot[S], Row("running", FALSE)}
    BY <1>1, <1>3, <1>7, WriteRow, RowType DEF StartRunFails, WorkOK, Active
  <2>2. /\ work' \in [Workers -> Jobs]
        /\ inFlight' \in [Bases -> Snaps \cup {NoSnap}]
        /\ \A v \in Workers : v # w => work'[v] = work[v]
        /\ work'[w] = Idle
        /\ Release(S)
    BY <1>1, <1>3, <1>7, ReturnFacts DEF StartRunFails, WorkOK
  <2>3. TypeOK'
    BY <1>1, <1>2, <1>7, <2>1, <2>2, FaultType
    DEF StartRunFails, WriteFails, JobsTypeOK
  <2> QED BY <1>1, <1>3, <1>7, <2>1, <2>2, <2>3, JobMoves
          DEF StartRunFails, WorkOK, eraseVars, Row, Active, Idle
<1>8. CASE Capture(w)
  <2>1. /\ work' \in [Workers -> Jobs]
        /\ \A v \in Workers : v # w => work'[v] = work[v]
        /\ work'[w].at = "captured"
        /\ work'[w].snap = S
        /\ work'[w].victims = work[w].victims
    BY <1>1, <1>8, GotoFacts DEF Capture, Steps
  <2>2. content' = content \cup {S} /\ S \in Snaps
    BY <1>3, <1>8 DEF Capture, WorkOK
  <2>3. TypeOK'
    BY <1>1, <1>2, <1>8, <2>1, <2>2 DEF Capture, JobsTypeOK
  <2>4. WorkOK(w)'
    BY <1>3, <1>8, <2>1, <2>2 DEF Capture, WorkOK
  <2> QED BY <1>1, <1>3, <1>8, <2>1, <2>2, <2>3, <2>4, JobMoves
          DEF Capture, WorkOK, eraseVars
<1>9. CASE CaptureFails(w)
  <2>1. /\ work' \in [Workers -> Jobs]
        /\ \A v \in Workers : v # w => work'[v] = work[v]
        /\ work'[w].at = "failing"
        /\ work'[w].snap = S
        /\ work'[w].victims = work[w].victims
    BY <1>1, <1>9, GotoFacts DEF CaptureFails, Steps
  <2>2. TypeOK'
    BY <1>1, <1>2, <1>9, <2>1 DEF CaptureFails, JobsTypeOK
  <2>3. WorkOK(w)'
    BY <1>3, <1>9, <2>1 DEF CaptureFails, WorkOK
  <2> QED BY <1>1, <1>3, <1>9, <2>1, <2>2, <2>3, JobMoves
          DEF CaptureFails, WorkOK, eraseVars, Row
<1>10. CASE PutFails(w)
  <2>1. /\ work' \in [Workers -> Jobs]
        /\ \A v \in Workers : v # w => work'[v] = work[v]
        /\ work'[w].at = "failing"
        /\ work'[w].snap = S
        /\ work'[w].victims = work[w].victims
    BY <1>1, <1>10, GotoFacts DEF PutFails, Steps
  <2>2. content' = content \cup {S} /\ S \in Snaps
    BY <1>3, <1>10 DEF PutFails, WorkOK
  <2>3. TypeOK'
    BY <1>1, <1>2, <1>10, <2>1, <2>2, FaultType DEF PutFails, JobsTypeOK
  <2>4. WorkOK(w)'
    BY <1>3, <1>10, <2>1, <2>2 DEF PutFails, WorkOK
  <2> QED BY <1>1, <1>3, <1>10, <2>1, <2>2, <2>3, <2>4, JobMoves
          DEF PutFails, WorkOK, eraseVars
<1>11. ASSUME work[w].at \in {"captured", "failing"}
       PROVE  /\ FinishRow(w) \in Rows
              /\ FinishRow(w).status \notin Active
              /\ FinishRow(w).status = "succeeded" => FinishRow(w).key /\ S \in content
              /\ snapshot[S].status \in Active
  BY <1>3, <1>11, RowType DEF FinishRow, Active, Terminal, WorkOK, Row
<1>12. CASE Finish(w)
  <2>1. /\ snapshot' \in [Snaps -> Rows]
        /\ \A s \in Snaps : s # S => snapshot'[s] = snapshot[s]
        /\ snapshot'[S] = FinishRow(w)
    BY <1>1, <1>3, <1>11, <1>12, WriteRow DEF Finish, WorkOK
  <2>2. UNCHANGED <<content, alerts, queue, call, faults>>
    BY <1>12 DEF Finish
  <2>3. CASE S \in Scheduled
    <3>1. PICK step \in {"alerting", "listing"} : Goto(w, step) /\ UNCHANGED inFlight
      BY <1>12, <2>3 DEF Finish
    <3>2. /\ work' \in [Workers -> Jobs]
          /\ \A v \in Workers : v # w => work'[v] = work[v]
          /\ work'[w].at = step
          /\ work'[w].snap = S
          /\ work'[w].victims = work[w].victims
      BY <1>1, <3>1, GotoFacts DEF Steps
    <3>3. TypeOK'
      BY <1>1, <1>2, <2>1, <2>2, <3>1, <3>2 DEF JobsTypeOK
    <3>4. WorkOK(w)'
      BY <1>3, <1>11, <1>12, <2>1, <2>2, <3>1, <3>2 DEF Finish, WorkOK
    <3> QED BY <1>1, <1>3, <1>11, <1>12, <2>1, <2>2, <3>1, <3>2, <3>3, <3>4,
               JobMoves DEF Finish, WorkOK, eraseVars
  <2>4. CASE S \notin Scheduled
    <3>1. /\ work' \in [Workers -> Jobs]
          /\ inFlight' \in [Bases -> Snaps \cup {NoSnap}]
          /\ \A v \in Workers : v # w => work'[v] = work[v]
          /\ work'[w] = Idle
          /\ Release(S)
      BY <1>1, <1>3, <1>12, <2>4, ReturnFacts DEF Finish, WorkOK
    <3>2. TypeOK'
      BY <1>1, <1>2, <2>1, <2>2, <3>1 DEF JobsTypeOK
    <3> QED BY <1>1, <1>3, <1>11, <1>12, <2>1, <2>2, <3>1, <3>2, JobMoves
            DEF Finish, WorkOK, eraseVars, Row, Idle
  <2> QED BY <2>3, <2>4
<1>13. CASE FinishFails(w)
  <2>1. /\ snapshot' \in [Snaps -> Rows]
        /\ \A s \in Snaps : s # S => snapshot'[s] = snapshot[s]
        /\ snapshot'[S] \in {snapshot[S], FinishRow(w)}
    BY <1>1, <1>3, <1>11, <1>13, WriteRow DEF FinishFails, WorkOK
  <2>2. /\ work' \in [Workers -> Jobs]
        /\ inFlight' \in [Bases -> Snaps \cup {NoSnap}]
        /\ \A v \in Workers : v # w => work'[v] = work[v]
        /\ work'[w] = Idle
        /\ Release(S)
    BY <1>1, <1>3, <1>13, ReturnFacts DEF FinishFails, WorkOK
  <2>3. TypeOK'
    BY <1>1, <1>2, <1>13, <2>1, <2>2, FaultType
    DEF FinishFails, WriteFails, JobsTypeOK
  <2> QED BY <1>1, <1>3, <1>11, <1>13, <2>1, <2>2, <2>3, JobMoves
          DEF FinishFails, WorkOK, eraseVars, Row, Idle
<1>14. ASSUME Return(w), work[w].at # "idle"
       PROVE  /\ work' \in [Workers -> Jobs]
              /\ inFlight' \in [Bases -> Snaps \cup {NoSnap}]
              /\ \A v \in Workers : v # w => work'[v] = work[v]
              /\ work'[w] = Idle
              /\ Release(S)
              /\ S \in Snaps
  BY <1>1, <1>3, <1>14, ReturnFacts DEF WorkOK
<1>15. CASE RaiseAlert(w)
  <2>1. TypeOK'
    BY <1>1, <1>2, <1>14, <1>15 DEF RaiseAlert, JobsTypeOK
  <2>2. /\ \A v \in Workers : v # w => work'[v] = work[v]
        /\ work'[w] = Idle
        /\ Release(S)
        /\ work[w].at # "idle"
        /\ \A s \in Snaps : snapshot'[s] = snapshot[s]
        /\ S \in Snaps
        /\ UNCHANGED <<content, call, queue>>
    BY <1>14, <1>15 DEF RaiseAlert
  <2>3. /\ \A s \in work'[w].victims : Settled(s)
        /\ content \subseteq content'
        /\ UNCHANGED <<erase, cleanup, condemned>>
        /\ snapshot'[S] = snapshot[S]
    BY <2>2 DEF Idle, eraseVars
  <2> QED BY <2>1, <2>2, <2>3, JobMoves DEF Idle, WorkOK, Row
<1>16. CASE ListVictims(w)
  <2> DEFINE V == Beyond(BaseOf[S])
  <2>1. V \subseteq Snaps /\ \A s \in V : Settled(s)
    BY BeyondSettled DEF IInv
  <2>2. work' = [work EXCEPT ![w].at = "pruning", ![w].victims = V]
    BY <1>16 DEF ListVictims
  <2> HIDE DEF V
  <2>3. /\ work' \in [Workers -> Jobs]
        /\ \A v \in Workers : v # w => work'[v] = work[v]
        /\ work'[w].at = "pruning"
        /\ work'[w].snap = S
        /\ work'[w].victims = V
    BY <1>1, <2>1, <2>2, VictimsFacts DEF Steps
  <2>4. TypeOK'
    BY <1>1, <1>2, <1>16, <2>3 DEF ListVictims, JobsTypeOK
  <2>5. WorkOK(w)'
    BY <1>3, <1>16, <2>3 DEF ListVictims, WorkOK
  <2>6. /\ work[w].at # "idle"
        /\ UNCHANGED <<snapshot, content, call, queue, inFlight>>
    BY <1>16 DEF ListVictims
  <2> QED BY <1>1, <1>3, <2>1, <2>3, <2>4, <2>5, <2>6, JobMoves
          DEF eraseVars, WorkOK, Row
<1>17. CASE SkipRetention(w)
  <2>1. TypeOK'
    BY <1>1, <1>2, <1>14, <1>17, FaultType DEF SkipRetention, JobsTypeOK
  <2>2. /\ \A v \in Workers : v # w => work'[v] = work[v]
        /\ work'[w] = Idle
        /\ Release(S)
        /\ work[w].at # "idle"
        /\ \A s \in Snaps : snapshot'[s] = snapshot[s]
        /\ S \in Snaps
        /\ UNCHANGED <<content, call, queue>>
    BY <1>14, <1>17 DEF SkipRetention
  <2>3. /\ \A s \in work'[w].victims : Settled(s)
        /\ content \subseteq content'
        /\ UNCHANGED <<erase, cleanup, condemned>>
        /\ snapshot'[S] = snapshot[S]
    BY <2>2 DEF Idle, eraseVars
  <2> QED BY <2>1, <2>2, <2>3, JobMoves DEF Idle, WorkOK, Row
<1> QED BY <1>4, <1>5, <1>6, <1>7, <1>8, <1>9, <1>10, <1>12, <1>13, <1>15,
           <1>16, <1>17 DEF ExecuteStep

\* Settled snapshots stay settled while no row and no call changes.
LEMMA StaySettled ==
  ASSUME UNCHANGED <<snapshot, call>>, NEW s, Settled(s)
  PROVE  Settled(s)'
BY DEF Settled

\* A step of applyRetention's loop.
LEMMA PruneInductive ==
  ASSUME IInv, NEW w \in Workers, Prune(w) \/ PruneFails(w) \/ PruneDone(w),
         UNCHANGED <<up, crashes>>
  PROVE  IInv'
<1>1. /\ TypeOK
      /\ JobsTypeOK
      /\ work[w] \in Jobs
      /\ w \in Threads
  BY DEF IInv, TypeOK, JobsTypeOK, Threads
<1>2. work[w].at # "idle" => WorkOK(w)
  BY DEF IInv, WorkInv
<1>3. \A h \in Handlers : h # w
  BY BackupConstants
<1>4. ASSUME UNCHANGED <<conn, snapshot, content, alerts, inFlight, queue, call,
                         cleanup, restoreVars, late>>,
             work' \in [Workers -> Jobs],
             faults' \in 0..MaxFaults,
             erase' \in [Threads -> Erasures],
             condemned' \subseteq Snaps
      PROVE  TypeOK'
  BY <1>1, <1>4 DEF TypeOK, JobsTypeOK, restoreVars
<1>5. ASSUME UNCHANGED <<conn, snapshot, cleanup, late>>,
             \A h \in Handlers : erase'[h] = erase[h]
      PROVE  CleanInv'
  BY <1>5 DEF IInv, CleanInv, CleanupMissesOnlyLate, Stored
<1>6. CASE Prune(w)
  <2>1. PICK v \in Newest(work[w].victims) :
          /\ work' = [work EXCEPT ![w].victims = @ \ {v}]
          /\ IF Erasable(v) THEN BeginErase(w, v)
                            ELSE UNCHANGED <<erase, condemned>>
    BY <1>6, Zenon DEF Prune
  <2>2. /\ UNCHANGED <<conn, snapshot, content, alerts, inFlight, queue, call,
                       faults, cleanup, restoreVars, late>>
        /\ work[w].victims \subseteq Snaps
    BY <1>1, <1>6 DEF Prune, Jobs
  <2>3. v \in Snaps /\ Settled(v)
    BY <2>2 DEF Newest, IInv, EraseInv
  <2>4. work' = [work EXCEPT ![w].victims = work[w].victims \ {v}]
    BY <2>1
  <2>5. work[w].victims \ {v} \subseteq work[w].victims
    OBVIOUS
  <2>6. work' \in [Workers -> Jobs] /\ Shorter
    BY <1>1, <2>4, <2>5, ShorterFacts, Zenon
  <2>7. CASE Erasable(v)
    <3>1. BeginErase(w, v)
      BY <2>1, <2>7
    <3>2. /\ erase' \in [Threads -> Erasures]
          /\ condemned' \subseteq Snaps
          /\ condemned \subseteq condemned'
          /\ v \in condemned'
          /\ \A u \in Threads : u # w => erase'[u] = erase[u]
          /\ erase'[w].snap = v
      BY <1>1, <2>3, <3>1, BeginFacts
    <3>3. TypeOK'
      BY <1>1, <1>4, <2>2, <2>6, <3>2 DEF JobsTypeOK
    <3>4. EraseInv'
      BY <2>2, <2>3, <2>6, <3>2 DEF IInv, EraseInv, Settled, Shorter
    <3>5. CleanInv'
      BY <1>3, <1>5, <2>2, <3>2 DEF Threads
    <3> QED BY <2>2, <2>6, <3>2, <3>3, <3>4, <3>5, ListsMove
  <2>8. CASE ~Erasable(v)
    <3>1. UNCHANGED <<erase, condemned>>
      BY <2>1, <2>8
    <3>2. TypeOK'
      BY <1>1, <1>4, <2>2, <2>6, <3>1 DEF TypeOK, JobsTypeOK
    <3>3. EraseInv'
      BY <2>2, <2>6, <3>1 DEF IInv, EraseInv, Settled, Shorter
    <3>4. CleanInv'
      BY <1>5, <2>2, <3>1
    <3> QED BY <2>2, <2>6, <3>1, <3>2, <3>3, <3>4, ListsMove
  <2> QED BY <2>7, <2>8
<1>7. CASE PruneFails(w)
  <2>1. /\ UNCHANGED <<conn, snapshot, content, alerts, inFlight, queue, call,
                       eraseVars, restoreVars, late>>
        /\ work' = [work EXCEPT ![w].victims = {}]
        /\ faults' \in 0..MaxFaults
    BY <1>1, <1>7, FaultType DEF PruneFails
  <2>2. work' \in [Workers -> Jobs] /\ Shorter
    BY <1>1, <2>1, ClearFacts
  <2>3. TypeOK'
    BY <1>1, <1>4, <2>1, <2>2 DEF TypeOK, eraseVars
  <2>4. EraseInv'
    BY <2>1, <2>2 DEF IInv, EraseInv, Settled, Shorter, eraseVars
  <2>5. CleanInv'
    BY <1>5, <2>1 DEF eraseVars
  <2> QED BY <2>1, <2>2, <2>3, <2>4, <2>5, ListsMove DEF eraseVars
<1>8. CASE PruneDone(w)
  <2>1. /\ work' \in [Workers -> Jobs]
        /\ inFlight' \in [Bases -> Snaps \cup {NoSnap}]
        /\ \A v \in Workers : v # w => work'[v] = work[v]
        /\ work'[w] = Idle
        /\ Release(work[w].snap)
        /\ work[w].at # "idle"
    BY <1>1, <1>2, <1>8, ReturnFacts DEF PruneDone, WorkOK
  <2>2. UNCHANGED <<conn, snapshot, content, alerts, queue, call, faults, erase,
                    cleanup, condemned, restoreVars, late>>
    BY <1>8 DEF PruneDone, eraseVars
  <2>3. TypeOK'
    BY <1>1, <2>1, <2>2 DEF TypeOK, JobsTypeOK, restoreVars
  <2>4. /\ \A s \in work'[w].victims : Settled(s)
        /\ \A s \in Snaps : snapshot'[s] = snapshot[s]
        /\ snapshot'[work[w].snap] = snapshot[work[w].snap]
        /\ content \subseteq content'
    BY <2>1, <2>2 DEF Idle
  <2> QED BY <2>1, <2>2, <2>3, <2>4, JobMoves DEF Idle, WorkOK, Row
<1> QED BY <1>6, <1>7, <1>8

\* A step of DeleteSnapshot.
LEMMA EraseInductive ==
  ASSUME IInv, NEW t \in Threads, EraseStep(t), UNCHANGED <<up, crashes>>
  PROVE  IInv'
<1> DEFINE S == erase[t].snap
<1>1. /\ TypeOK
      /\ JobsTypeOK
      /\ erase \in [Threads -> Erasures]
      /\ NoRow \in Rows
  BY RowType DEF IInv, TypeOK, NoRow
<1>2. erase[t].at # "idle" => S \in Snaps
  BY DEF IInv, EraseInv, Settled
<1>3. ASSUME UNCHANGED <<conn, alerts, inFlight, queue, call, condemned,
                         restoreVars, late>>,
             snapshot' \in [Snaps -> Rows],
             content' \subseteq Snaps,
             faults' \in 0..MaxFaults,
             work' \in [Workers -> Jobs],
             erase' \in [Threads -> Erasures],
             cleanup' \in [Handlers -> Cleanups]
      PROVE  TypeOK'
  BY <1>1, <1>3 DEF TypeOK, JobsTypeOK, restoreVars
<1>4. CASE EraseContent(t)
  <2>1. /\ UNCHANGED <<conn, snapshot, alerts, inFlight, queue, call, work,
                       faults, cleanup, condemned, restoreVars, late>>
        /\ content' \in {content, content \ {S}}
        /\ erase' = [erase EXCEPT ![t].at = "emptied"]
        /\ erase[t].at # "idle"
    BY <1>4 DEF EraseContent
  <2>2. /\ erase' \in [Threads -> Erasures]
        /\ \A u \in Threads : u # t => erase'[u] = erase[u]
        /\ erase'[t].at # "idle"
        /\ erase'[t].snap = S
    BY <1>1, <2>1 DEF Erasures
  <2>3. /\ TypeOK'
        /\ \A s \in Snaps : snapshot'[s] = snapshot[s]
        /\ snapshot'[S] = snapshot[S]
        /\ content \subseteq content' \cup {S}
        /\ \A h \in Handlers : cleanup'[h] = cleanup[h]
        /\ Shorter
    BY <1>1, <1>3, <2>1, <2>2 DEF TypeOK, JobsTypeOK, Shorter
  <2> QED BY <2>1, <2>2, <2>3, EraseMoves
<1>5. CASE EraseContentFails(t)
  <2>1. /\ UNCHANGED <<conn, snapshot, alerts, inFlight, queue, call, condemned,
                       restoreVars, late>>
        /\ content' \in {content, content \ {S}}
        /\ faults' \in 0..MaxFaults
        /\ AbortErase(t)
        /\ erase[t].at # "idle"
    BY <1>1, <1>5, FaultType DEF EraseContentFails
  <2>2. /\ erase' \in [Threads -> Erasures]
        /\ work' \in [Workers -> Jobs]
        /\ cleanup' \in [Handlers -> Cleanups]
        /\ \A u \in Threads : u # t => erase'[u] = erase[u]
        /\ erase'[t] = NoErase
        /\ Shorter
        /\ \A h \in Handlers : cleanup'[h] \in {cleanup[h], NoCleanup}
        /\ t \in Handlers => cleanup'[t] = NoCleanup
    BY <1>1, <2>1, AbortFacts
  <2>3. /\ TypeOK'
        /\ \A s \in Snaps : snapshot'[s] = snapshot[s]
        /\ snapshot'[S] = snapshot[S]
        /\ content \subseteq content' \cup {S}
    BY <1>1, <1>3, <2>1, <2>2 DEF JobsTypeOK
  <2> QED BY <2>1, <2>2, <2>3, EraseMoves
<1>6. CASE EraseRow(t)
  <2>1. /\ UNCHANGED <<conn, content, alerts, inFlight, queue, call, work,
                       faults, cleanup, condemned, restoreVars, late>>
        /\ Write(S, NoRow)
        /\ erase' = [erase EXCEPT ![t] = NoErase]
        /\ erase[t].at # "idle"
    BY <1>6 DEF EraseRow
  <2>2. /\ snapshot' \in [Snaps -> Rows]
        /\ \A s \in Snaps : s # S => snapshot'[s] = snapshot[s]
        /\ snapshot'[S] = NoRow
    BY <1>1, <1>2, <2>1, WriteRow
  <2>3. /\ erase' \in [Threads -> Erasures]
        /\ \A u \in Threads : u # t => erase'[u] = erase[u]
        /\ erase'[t] = NoErase
    BY <1>1, <2>1 DEF Erasures, NoErase
  <2>4. /\ TypeOK'
        /\ S \notin Stored'
        /\ \A h \in Handlers : cleanup'[h] = cleanup[h]
        /\ Shorter
    BY <1>1, <1>3, <2>1, <2>2, <2>3
    DEF TypeOK, JobsTypeOK, Shorter, Stored, NoRow, Row
  <2> QED BY <2>1, <2>2, <2>3, <2>4, EraseMoves
<1>7. CASE EraseRowFails(t)
  <2>1. /\ UNCHANGED <<conn, content, alerts, inFlight, queue, call, condemned,
                       restoreVars, late>>
        /\ WriteFails(S, NoRow)
        /\ AbortErase(t)
        /\ erase[t].at # "idle"
    BY <1>7 DEF EraseRowFails
  <2>2. faults' \in 0..MaxFaults
    BY <1>1, <2>1, FaultType DEF WriteFails
  <2>3. /\ snapshot' \in [Snaps -> Rows]
        /\ \A s \in Snaps : s # S => snapshot'[s] = snapshot[s]
        /\ snapshot'[S] \in {snapshot[S], NoRow}
    BY <1>1, <1>2, <2>1, WriteRow
  <2>4. /\ erase' \in [Threads -> Erasures]
        /\ work' \in [Workers -> Jobs]
        /\ cleanup' \in [Handlers -> Cleanups]
        /\ \A u \in Threads : u # t => erase'[u] = erase[u]
        /\ erase'[t] = NoErase
        /\ Shorter
        /\ \A h \in Handlers : cleanup'[h] \in {cleanup[h], NoCleanup}
        /\ t \in Handlers => cleanup'[t] = NoCleanup
    BY <1>1, <2>1, AbortFacts
  <2>5. TypeOK'
    BY <1>1, <1>3, <2>1, <2>2, <2>3, <2>4 DEF JobsTypeOK
  <2> QED BY <2>1, <2>3, <2>4, <2>5, EraseMoves
<1> QED BY <1>4, <1>5, <1>6, <1>7 DEF EraseStep

\* A DeleteSnapshot request, or a step of a cleanup.
LEMMA HandlerInductive ==
  ASSUME IInv, NEW h \in Handlers, UNCHANGED <<up, crashes>>,
         \/ \E s \in Snaps : DeleteRequest(h, s)
         \/ ListForCleanup(h)
         \/ CleanupStep(h)
  PROVE  IInv'
<1>1. /\ TypeOK
      /\ JobsTypeOK
      /\ cleanup \in [Handlers -> Cleanups]
      /\ cleanup[h] \in Cleanups
      /\ NoCleanup \in Cleanups
      /\ h \in Threads
  BY DEF IInv, TypeOK, Threads, NoCleanup, Cleanups
<1>2. ASSUME UNCHANGED <<snapshot, content, alerts, inFlight, queue, call, work,
                         rqueue, rcall, rwork, late>>,
             conn' \in BOOLEAN,
             faults' \in 0..MaxFaults,
             erase' \in [Threads -> Erasures],
             cleanup' \in [Handlers -> Cleanups],
             restore' \in [Restores -> RestoreRows],
             condemned' \subseteq Snaps
      PROVE  TypeOK' /\ Shorter
  BY <1>1, <1>2 DEF TypeOK, JobsTypeOK, Shorter
<1>3. ASSUME NEW C \in Cleanups, cleanup' = [cleanup EXCEPT ![h] = C]
      PROVE  /\ cleanup' \in [Handlers -> Cleanups]
             /\ \A g \in Handlers : g # h => cleanup'[g] = cleanup[g]
             /\ cleanup'[h] = C
  BY <1>1, <1>3
<1>4. ASSUME UNCHANGED <<snapshot, call, work, erase>>,
             condemned \subseteq condemned',
             \A g \in Handlers : g # h => cleanup'[g] = cleanup[g],
             \A s \in cleanup'[h].snaps : Settled(s)
      PROVE  EraseInv'
  BY <1>4 DEF IInv, EraseInv, Settled
<1>5. ASSUME UNCHANGED <<conn, snapshot, late>>,
             \A g \in Handlers : g # h => cleanup'[g] = cleanup[g] /\ erase'[g] = erase[g],
             cleanup'[h].at # "idle" =>
               \A s \in Stored : \/ s \in late \cup cleanup'[h].snaps
                                 \/ erase'[h].at # "idle" /\ erase'[h].snap = s,
             cleanup'[h].at = "purged" => cleanup'[h].snaps = {} /\ erase'[h] = NoErase
      PROVE  CleanInv'
  BY <1>5 DEF IInv, CleanInv, CleanupMissesOnlyLate, Stored
<1>6. ASSUME UNCHANGED <<conn, jobVars, erase, condemned, restoreVars, late>>,
             NEW C \in Cleanups, cleanup' = [cleanup EXCEPT ![h] = C],
             \A s \in C.snaps : Settled(s),
             C.at # "idle" =>
               \A s \in Stored : \/ s \in late \cup C.snaps
                                 \/ erase[h].at # "idle" /\ erase[h].snap = s,
             C.at = "purged" => C.snaps = {} /\ erase[h] = NoErase
      PROVE  IInv'
  <2>1. /\ cleanup' \in [Handlers -> Cleanups]
        /\ \A g \in Handlers : g # h => cleanup'[g] = cleanup[g]
        /\ cleanup'[h] = C
    BY <1>3, <1>6
  <2>2. TypeOK' /\ Shorter
    BY <1>1, <1>2, <1>6, <2>1 DEF TypeOK, JobsTypeOK, jobVars, restoreVars
  <2>3. EraseInv'
    BY <1>4, <1>6, <2>1 DEF jobVars
  <2>4. CleanInv'
    BY <1>5, <1>6, <2>1 DEF jobVars
  <2> QED BY <1>6, <2>2, <2>3, <2>4, ListsMove DEF jobVars
<1>7. ASSUME NEW s \in Snaps, DeleteRequest(h, s) PROVE IInv'
  <2>1. /\ UNCHANGED <<conn, jobVars, cleanup, restoreVars, late>>
        /\ cleanup[h] = NoCleanup
        /\ BeginErase(h, s)
        /\ Settled(s)
    BY <1>1, <1>7, TerminalSettled DEF DeleteRequest, IInv
  <2>2. /\ erase' \in [Threads -> Erasures]
        /\ condemned' \subseteq Snaps
        /\ condemned \subseteq condemned'
        /\ s \in condemned'
        /\ \A u \in Threads : u # h => erase'[u] = erase[u]
        /\ erase'[h].snap = s
    BY <1>1, <2>1, BeginFacts
  <2>3. TypeOK' /\ Shorter
    BY <1>1, <1>2, <2>1, <2>2 DEF TypeOK, JobsTypeOK, jobVars, restoreVars
  <2>4. EraseInv'
    BY <2>1, <2>2 DEF IInv, EraseInv, Settled, jobVars
  <2>5. CleanInv'
    BY <1>5, <2>1, <2>2 DEF NoCleanup, Threads, jobVars
  <2> QED BY <2>1, <2>2, <2>3, <2>4, <2>5, ListsMove DEF jobVars
<1>8. CASE ListForCleanup(h)
  <2> DEFINE C == [at |-> "listed", snaps |-> Stored]
  <2>1. \A s \in Stored : Settled(s)
    BY <1>1, <1>8, TerminalSettled
    DEF ListForCleanup, Stored, JobsTypeOK, Rows, Terminal, IInv
  <2>2. C \in Cleanups
    BY DEF Cleanups, Stored
  <2> QED BY <1>6, <1>8, <2>1, <2>2 DEF ListForCleanup
<1>9. CASE CheckRestores(h)
  <2> DEFINE D == [cleanup[h] EXCEPT !.at = "deleting"]
  <2>1. D \in Cleanups /\ D.at = "deleting" /\ D.snaps = cleanup[h].snaps
    BY <1>1 DEF Cleanups
  <2>2. /\ cleanup[h].at = "listed"
        /\ UNCHANGED <<conn, jobVars, erase, condemned, restoreVars, late>>
        /\ \/ cleanup' = [cleanup EXCEPT ![h] = NoCleanup]
           \/ cleanup' = [cleanup EXCEPT ![h] = D]
    BY <1>9 DEF CheckRestores
  <2>3. CASE cleanup' = [cleanup EXCEPT ![h] = NoCleanup]
    BY <1>1, <1>6, <2>2, <2>3 DEF NoCleanup
  <2>4. CASE cleanup' = [cleanup EXCEPT ![h] = D]
    <3>1. \A s \in D.snaps : Settled(s)
      BY <2>1 DEF IInv, EraseInv
    <3>2. \A s \in Stored : \/ s \in late \cup D.snaps
                            \/ erase[h].at # "idle" /\ erase[h].snap = s
      BY <2>1, <2>2 DEF IInv, CleanInv
    <3> HIDE DEF D
    <3> QED BY <1>6, <2>1, <2>2, <2>4, <3>1, <3>2
  <2> QED BY <2>2, <2>3, <2>4
<1>10. CASE CleanNext(h)
  <2>1. PICK s \in Newest(cleanup[h].snaps) :
          IF Erasable(s)
          THEN /\ cleanup' = [cleanup EXCEPT ![h].snaps = @ \ {s}]
               /\ BeginErase(h, s)
          ELSE /\ cleanup' = [cleanup EXCEPT ![h] = NoCleanup]
               /\ UNCHANGED <<erase, condemned>>
    BY <1>10, Zenon DEF CleanNext
  <2>2. /\ UNCHANGED <<conn, jobVars, restoreVars, late>>
        /\ cleanup[h].at = "deleting"
        /\ erase[h] = NoErase
    BY <1>10 DEF CleanNext
  <2>3. s \in cleanup[h].snaps /\ Settled(s) /\ s \in Snaps
    BY DEF Newest, IInv, EraseInv, Settled
  <2>4. CASE Erasable(s)
    <3> DEFINE C == [cleanup[h] EXCEPT !.snaps = cleanup[h].snaps \ {s}]
    <3>1. C \in Cleanups /\ C.at = "deleting" /\ C.snaps = cleanup[h].snaps \ {s}
      BY <1>1, <2>2 DEF Cleanups
    <3>2. cleanup' = [cleanup EXCEPT ![h] = C] /\ BeginErase(h, s)
      BY <1>1, <2>1, <2>4
    <3> HIDE DEF C
    <3>3. /\ cleanup' \in [Handlers -> Cleanups]
          /\ \A g \in Handlers : g # h => cleanup'[g] = cleanup[g]
          /\ cleanup'[h] = C
      BY <1>3, <3>1, <3>2
    <3>4. /\ erase' \in [Threads -> Erasures]
          /\ condemned' \subseteq Snaps
          /\ condemned \subseteq condemned'
          /\ s \in condemned'
          /\ \A u \in Threads : u # h => erase'[u] = erase[u]
          /\ erase'[h].at # "idle"
          /\ erase'[h].snap = s
      BY <1>1, <2>3, <3>2, BeginFacts
    <3>5. TypeOK' /\ Shorter
      BY <1>1, <1>2, <2>2, <3>3, <3>4 DEF TypeOK, JobsTypeOK, jobVars, restoreVars
    <3>6. EraseInv'
      BY <2>2, <2>3, <3>1, <3>3, <3>4 DEF IInv, EraseInv, Settled, jobVars
    <3>7. \A r \in Stored : r \in late \cup cleanup'[h].snaps \/ r = s
      BY <2>2, <3>1, <3>3 DEF IInv, CleanInv, NoErase
    <3>8. CleanInv'
      BY <1>5, <2>2, <3>1, <3>3, <3>4, <3>7 DEF Threads, jobVars
    <3> QED BY <2>2, <3>4, <3>5, <3>6, <3>8, ListsMove DEF jobVars
  <2>5. CASE ~Erasable(s)
    <3>1. cleanup' = [cleanup EXCEPT ![h] = NoCleanup] /\ UNCHANGED <<erase, condemned>>
      BY <2>1, <2>5
    <3> QED BY <1>1, <1>6, <2>2, <3>1 DEF NoCleanup
  <2> QED BY <2>4, <2>5
<1>11. CASE DropRestores(h)
  <2> DEFINE C == [cleanup[h] EXCEPT !.at = "purged"]
  <2>1. C \in Cleanups /\ C.at = "purged" /\ C.snaps = cleanup[h].snaps
    BY <1>1 DEF Cleanups
  <2>2. /\ cleanup[h].at = "deleting"
        /\ erase[h] = NoErase
        /\ cleanup[h].snaps = {}
        /\ restore' = [r \in Restores |-> [restore[r] EXCEPT !.status = "none"]]
        /\ cleanup' = [cleanup EXCEPT ![h] = C]
        /\ UNCHANGED <<conn, jobVars, erase, condemned, rqueue, rcall, rwork, late>>
    BY <1>1, <1>11 DEF DropRestores
  <2> HIDE DEF C
  <2>3. /\ cleanup' \in [Handlers -> Cleanups]
        /\ \A g \in Handlers : g # h => cleanup'[g] = cleanup[g]
        /\ cleanup'[h] = C
    BY <1>3, <2>1, <2>2
  <2>4. restore' \in [Restores -> RestoreRows]
    BY <1>1, <2>2 DEF TypeOK, RestoreRows
  <2>5. TypeOK' /\ Shorter
    BY <1>1, <1>2, <2>2, <2>3, <2>4 DEF TypeOK, JobsTypeOK, jobVars
  <2>6. EraseInv'
    BY <1>4, <2>1, <2>2, <2>3 DEF jobVars
  <2>7. \A s \in Stored : s \in late \cup cleanup'[h].snaps
    BY <2>1, <2>2, <2>3 DEF IInv, CleanInv, NoErase
  <2>8. CleanInv'
    BY <1>5, <2>1, <2>2, <2>3, <2>7 DEF jobVars
  <2> QED BY <2>2, <2>5, <2>6, <2>8, ListsMove DEF jobVars
<1>12. CASE DropConnection(h)
  <2>1. /\ cleanup[h].at = "purged"
        /\ conn' = FALSE
        /\ cleanup' = [cleanup EXCEPT ![h] = NoCleanup]
        /\ UNCHANGED <<jobVars, erase, condemned, restoreVars, late>>
    BY <1>12 DEF DropConnection
  <2>2. /\ cleanup' \in [Handlers -> Cleanups]
        /\ \A g \in Handlers : g # h => cleanup'[g] = cleanup[g]
        /\ cleanup'[h] = NoCleanup
    BY <1>1, <1>3, <2>1
  <2>3. TypeOK' /\ Shorter
    BY <1>1, <1>2, <2>1, <2>2 DEF TypeOK, JobsTypeOK, jobVars, restoreVars
  <2>4. EraseInv'
    BY <1>4, <2>1, <2>2 DEF NoCleanup, jobVars
  <2>5. Stored \subseteq late
    BY <2>1 DEF IInv, CleanInv, NoErase
  <2>6. CleanInv'
    BY <2>1, <2>2, <2>5
    DEF IInv, CleanInv, CleanupMissesOnlyLate, Stored, NoCleanup, jobVars
  <2> QED BY <2>1, <2>3, <2>4, <2>6, ListsMove DEF jobVars
<1>13. CASE CleanupFails(h)
  <2>1. /\ faults' \in 0..MaxFaults
        /\ cleanup' = [cleanup EXCEPT ![h] = NoCleanup]
        /\ UNCHANGED <<conn, snapshot, content, alerts, inFlight, queue, call,
                       work, erase, condemned, restoreVars, late>>
    BY <1>1, <1>13, FaultType DEF CleanupFails
  <2>2. /\ cleanup' \in [Handlers -> Cleanups]
        /\ \A g \in Handlers : g # h => cleanup'[g] = cleanup[g]
        /\ cleanup'[h] = NoCleanup
    BY <1>1, <1>3, <2>1
  <2>3. TypeOK' /\ Shorter
    BY <1>1, <1>2, <2>1, <2>2 DEF TypeOK, JobsTypeOK, restoreVars
  <2>4. EraseInv'
    BY <1>4, <2>1, <2>2 DEF NoCleanup
  <2>5. CleanInv'
    BY <1>5, <2>1, <2>2 DEF NoCleanup
  <2> QED BY <2>1, <2>3, <2>4, <2>5, ListsMove
<1> QED BY <1>7, <1>8, <1>9, <1>10, <1>11, <1>12, <1>13 DEF CleanupStep

\* A step of a restore, or a RestoreSnapshot request: only its row, its place
\* in the queue and the restore worker change.
LEMMA RestoreInductive ==
  ASSUME IInv, UNCHANGED <<up, conn, eraseVars, crashes, late>>,
         RestoreStep \/ \E r \in Restores, s \in Snaps : RequestRestore(r, s)
  PROVE  IInv'
<1>1. /\ TypeOK
      /\ JobsTypeOK
      /\ restore \in [Restores -> RestoreRows]
      /\ rqueue \in Seq(Restores)
      /\ rcall \in [Restores -> Calls \cup {"checked"}]
      /\ rwork \in RestoreJobs
      /\ RestoreIdle \in RestoreJobs
      /\ NoRestore \notin Restores
  BY BackupConstants DEF IInv, TypeOK, RestoreIdle, RestoreJobs, NoRestore
<1>2. ASSUME UNCHANGED <<snapshot, content, alerts, inFlight, queue, call, work>>,
             faults' \in 0..MaxFaults,
             restore' \in [Restores -> RestoreRows],
             rqueue' \in Seq(Restores),
             rcall' \in [Restores -> Calls \cup {"checked"}],
             rwork' \in RestoreJobs
      PROVE  IInv'
  <2>1. TypeOK'
    BY <1>1, <1>2 DEF TypeOK, JobsTypeOK, eraseVars
  <2> QED BY <1>2, <2>1, RestoreMoves
<1>3. ASSUME NEW r \in Restores, NEW status \in {"none"} \cup Active \cup Terminal,
             SetRestore(r, status)
      PROVE  restore' \in [Restores -> RestoreRows]
  <2>1. [restore[r] EXCEPT !.status = status] \in RestoreRows
    BY <1>1 DEF RestoreRows
  <2> QED BY <1>1, <1>3, <2>1 DEF SetRestore
<1>4. ASSUME NEW r \in Restores, NEW c \in Calls \cup {"checked"}, SetRCall(r, c)
      PROVE  rcall' \in [Restores -> Calls \cup {"checked"}]
  BY <1>1, <1>4 DEF SetRCall
<1>5. ASSUME rqueue # <<>>
      PROVE  Head(rqueue) \in Restores /\ Tail(rqueue) \in Seq(Restores)
  BY <1>1, <1>5
<1>6. ASSUME NEW step \in {"idle", "loaded", "started", "reading", "ok", "failed"},
             rwork' = [rwork EXCEPT !.at = step]
      PROVE  rwork' \in RestoreJobs
  BY <1>1, <1>6 DEF RestoreJobs
<1>7. /\ {"done", "inserted", "full"} \subseteq Calls
      /\ {"pending", "running", "succeeded", "failed"} \subseteq Active \cup Terminal
      /\ UNCHANGED faults => faults' \in 0..MaxFaults
      /\ Fault => faults' \in 0..MaxFaults
  BY <1>1, FaultType DEF JobsTypeOK, Calls, Active, Terminal
<1>8. ASSUME RestoreStored(rwork.restore), NEW status \in Active \cup Terminal,
             SetRestore(rwork.restore, status)
      PROVE  restore' \in [Restores -> RestoreRows]
  <2>1. CASE rwork.restore \in Restores
    BY <1>3, <1>8, <2>1
  <2>2. CASE rwork.restore \notin Restores
    BY <1>1, <1>8, <2>2 DEF SetRestore
  <2> QED BY <2>1, <2>2
<1>9. ASSUME NEW r \in Restores, NEW s \in Snaps, RequestRestore(r, s) PROVE IInv'
  <2>1. [restore[r] EXCEPT !.snap = s] \in RestoreRows
    BY <1>1 DEF RestoreRows
  <2>2. restore' \in [Restores -> RestoreRows]
    BY <1>1, <1>9, <2>1 DEF RequestRestore
  <2> QED BY <1>1, <1>2, <1>4, <1>7, <1>9, <2>2 DEF RequestRestore, jobVars
<1>10. ASSUME NEW r \in Restores, InsertRestore(r) PROVE IInv'
  BY <1>1, <1>2, <1>3, <1>4, <1>7, <1>10 DEF InsertRestore, jobVars
<1>11. ASSUME NEW r \in Restores, InsertRestoreFails(r) PROVE IInv'
  BY <1>1, <1>2, <1>3, <1>4, <1>7, <1>11 DEF InsertRestoreFails
<1>12. ASSUME NEW r \in Restores, SendRestore(r) PROVE IInv'
  BY <1>1, <1>2, <1>4, <1>7, <1>12 DEF SendRestore, jobVars
<1>13. ASSUME NEW r \in Restores, FailRestore(r) PROVE IInv'
  BY <1>1, <1>2, <1>3, <1>4, <1>7, <1>13 DEF FailRestore, jobVars
<1>14. ASSUME NEW r \in Restores, FailRestoreFails(r) PROVE IInv'
  BY <1>1, <1>2, <1>4, <1>7, <1>14 DEF FailRestoreFails
<1>15. CASE TakeRestore
  <2>1. rwork' \in RestoreJobs
    BY <1>1, <1>5, <1>15 DEF TakeRestore, RestoreJobs
  <2> QED BY <1>1, <1>2, <1>5, <1>7, <1>15, <2>1 DEF TakeRestore, jobVars
<1>16. CASE DropRestore
  BY <1>1, <1>2, <1>5, <1>7, <1>8, <1>16 DEF DropRestore
<1>17. CASE StartRestore
  BY <1>1, <1>2, <1>6, <1>7, <1>8, <1>17 DEF StartRestore, jobVars
<1>18. CASE OpenRestore
  <2>1. PICK step \in {"reading", "failed"} : rwork' = [rwork EXCEPT !.at = step]
    BY <1>18 DEF OpenRestore
  <2> QED BY <1>1, <1>2, <1>6, <1>7, <1>18, <2>1 DEF OpenRestore, jobVars
<1>19. CASE EndRestore
  BY <1>1, <1>2, <1>6, <1>7, <1>19 DEF EndRestore, jobVars
<1>20. CASE FinishRestore
  BY <1>1, <1>2, <1>7, <1>8, <1>20 DEF FinishRestore
<1> QED BY <1>9, <1>10, <1>11, <1>12, <1>13, <1>14, <1>15, <1>16, <1>17, <1>18,
           <1>19, <1>20 DEF RestoreStep

\* The process dies, and what it held in memory with it.
LEMMA CrashInductive ==
  ASSUME IInv, Crash
  PROVE  IInv' /\ DownInv'
<1>1. TypeOK /\ JobsTypeOK
  BY DEF IInv, TypeOK
<1>2. /\ call' \in [Snaps -> Calls]
      /\ \A s \in Snaps : call'[s] = IF call[s] = "new" THEN "new" ELSE "done"
      /\ rcall' \in [Restores -> Calls \cup {"checked"}]
  BY <1>1 DEF Crash, Forgotten, TypeOK, JobsTypeOK, Calls
<1>3. /\ UNCHANGED <<conn, snapshot, content, alerts, faults, restore, condemned, late>>
      /\ up' = FALSE
      /\ inFlight' = [b \in Bases |-> NoSnap]
      /\ queue' = <<>>
      /\ work' = [w \in Workers |-> Idle]
      /\ erase' = [t \in Threads |-> NoErase]
      /\ cleanup' = [h \in Handlers |-> NoCleanup]
      /\ rqueue' = <<>>
      /\ rwork' = RestoreIdle
  BY DEF Crash
<1>4. JobsTypeOK'
  <2>1. Idle \in Jobs
    BY DEF Idle, Jobs, Steps
  <2>2. work' \in [Workers -> Jobs]
    BY <1>3, <2>1
  <2>3. inFlight' \in [Bases -> Snaps \cup {NoSnap}]
    BY <1>3
  <2>4. queue' \in Seq(Snaps)
    BY <1>3
  <2> QED BY <1>1, <1>2, <1>3, <2>2, <2>3, <2>4 DEF JobsTypeOK
<1>5. TypeOK'
  <2>1. NoErase \in Erasures /\ NoCleanup \in Cleanups /\ RestoreIdle \in RestoreJobs
    BY DEF NoErase, NoCleanup, RestoreIdle, Erasures, Cleanups, RestoreJobs
  <2>2. crashes' \in 0..MaxCrashes
    BY <1>1, BackupConstants DEF Crash, TypeOK
  <2> QED BY <1>1, <1>2, <1>3, <1>4, <2>1, <2>2 DEF TypeOK
<1>6. CallInv'
  BY <1>2, <1>3 DEF IInv, CallInv, CallOK, Calling
<1>7. QueueInv' /\ WorkInv'
  BY <1>3 DEF QueueInv, WorkInv, Idle
<1>8. EraseInv'
  BY <1>3 DEF EraseInv, NoErase, NoCleanup, Idle
<1>9. SucceededHasContent'
  BY <1>3 DEF IInv, SucceededHasContent
<1>10. CleanInv'
  BY <1>3 DEF IInv, CleanInv, CleanupMissesOnlyLate, Stored, NoCleanup
<1>11. DownInv'
  BY <1>2, <1>3 DEF DownInv
<1> QED BY <1>5, <1>6, <1>7, <1>8, <1>9, <1>10, <1>11 DEF IInv

\* Start fails what a crash interrupted.
LEMMA StartInductive ==
  ASSUME IInv, DownInv, Start
  PROVE  IInv'
<1>1. TypeOK /\ JobsTypeOK
  BY DEF IInv, TypeOK
<1>2. /\ snapshot' \in [Snaps -> Rows]
      /\ \A s \in Snaps : snapshot'[s] = IF snapshot[s].status \in Active
                                         THEN [snapshot[s] EXCEPT !.status = "failed"]
                                         ELSE snapshot[s]
  <2>1. \A s \in Snaps : [snapshot[s] EXCEPT !.status = "failed"] \in Rows
    BY <1>1 DEF JobsTypeOK, Rows, Terminal
  <2> QED BY <1>1, <2>1 DEF Start, Failed, JobsTypeOK
<1>3. restore' \in [Restores -> RestoreRows]
  <2>1. \A r \in Restores : [restore[r] EXCEPT !.status = "failed"] \in RestoreRows
    BY <1>1 DEF TypeOK, RestoreRows, Terminal
  <2> QED BY <1>1, <2>1 DEF Start, Failed, TypeOK
<1>4. /\ UNCHANGED <<conn, content, alerts, inFlight, queue, call, work, erase,
                     cleanup, condemned, rqueue, rcall, rwork, crashes, late>>
      /\ up' = TRUE
      /\ faults' = 0
  BY DEF Start, eraseVars
<1>5. /\ queue = <<>>
      /\ \A w \in Workers : work[w] = Idle
      /\ \A t \in Threads : erase[t] = NoErase
      /\ \A h \in Handlers : cleanup[h] = NoCleanup
      /\ \A s \in Snaps : call[s] \in {"new", "done"}
  BY DEF Start, DownInv
<1>6. TypeOK'
  BY <1>1, <1>2, <1>3, <1>4, JobConstants DEF TypeOK, JobsTypeOK
<1>7. CallInv'
  BY <1>2, <1>4, <1>5 DEF IInv, CallInv, CallOK, Calling, NoRow, Row, Active
<1>8. QueueInv' /\ WorkInv'
  BY <1>4, <1>5 DEF QueueInv, WorkInv, Idle
<1>9. EraseInv'
  BY <1>4, <1>5 DEF EraseInv, NoErase, NoCleanup, Idle
<1>10. SucceededHasContent'
  BY <1>1, <1>2, <1>4 DEF IInv, SucceededHasContent, JobsTypeOK, Rows
<1>11. CleanInv'
  <2>1. Stored' \subseteq Stored
    BY <1>2 DEF Stored, Active
  <2> QED BY <1>4, <1>5, <2>1 DEF IInv, CleanInv, CleanupMissesOnlyLate, NoCleanup
<1> QED BY <1>6, <1>7, <1>8, <1>9, <1>10, <1>11 DEF IInv

\* The invariant of every reachable state.
Inv == IInv /\ DownInv

\* Initially no row is stored, nothing is queued and nobody works.
LEMMA InitInv == ASSUME Init PROVE Inv
<1>1. /\ Idle \in Jobs
      /\ NoErase \in Erasures
      /\ NoCleanup \in Cleanups
      /\ RestoreIdle \in RestoreJobs
      /\ RestoreRow("none", NoSnap) \in RestoreRows
      /\ NoRow \in Rows
  BY RowType DEF Idle, Jobs, Steps, NoErase, Erasures, NoCleanup, Cleanups,
                 RestoreIdle, RestoreJobs, RestoreRow, RestoreRows, NoRow
<1>2. JobsTypeOK
  <2>1. inFlight \in [Bases -> Snaps \cup {NoSnap}] /\ queue \in Seq(Snaps)
    BY DEF Init, JobsInit
  <2>2. work \in [Workers -> Jobs] /\ snapshot \in [Snaps -> Rows]
    BY <1>1 DEF Init, JobsInit
  <2> QED BY <2>1, <2>2, JobConstants DEF Init, JobsInit, JobsTypeOK, Calls
<1>3. TypeOK
  <2>1. /\ erase \in [Threads -> Erasures]
        /\ cleanup \in [Handlers -> Cleanups]
        /\ restore \in [Restores -> RestoreRows]
    BY <1>1 DEF Init
  <2> QED BY <1>1, <1>2, <2>1, BackupConstants DEF Init, TypeOK, Calls
<1>4. CallInv
  BY DEF Init, JobsInit, CallInv, CallOK, Calling
<1>5. QueueInv /\ WorkInv
  BY DEF Init, JobsInit, QueueInv, WorkInv, Idle
<1>6. EraseInv
  BY DEF Init, JobsInit, EraseInv, NoErase, NoCleanup, Idle
<1>7. SucceededHasContent
  BY DEF Init, JobsInit, SucceededHasContent, NoRow, Row
<1>8. CleanInv
  BY DEF Init, JobsInit, CleanInv, CleanupMissesOnlyLate, NoCleanup
<1>9. DownInv
  BY DEF Init, JobsInit, DownInv
<1> QED BY <1>3, <1>4, <1>5, <1>6, <1>7, <1>8, <1>9 DEF Inv, IInv

\* Every step of the component preserves the invariant.
LEMMA NextInv == ASSUME Inv, [Next]_vars PROVE Inv'
<1>1. IInv
  BY DEF Inv
<1>2. ASSUME up, UNCHANGED up, IInv' PROVE Inv'
  BY <1>2 DEF Inv, DownInv
<1>3. CASE Request
  <2>1. up /\ UNCHANGED <<up, crashes>> /\ Requests
    BY <1>3 DEF Request
  <2>2. ASSUME NEW s \in Snaps, SnapshotRequest(s) PROVE IInv'
    BY <1>1, <2>1, <2>2, EnqueueInductive DEF SnapshotRequest
  <2>3. ASSUME NEW h \in Handlers, NEW s \in Snaps, DeleteRequest(h, s) PROVE IInv'
    BY <1>1, <2>1, <2>3, HandlerInductive
  <2>4. ASSUME NEW h \in Handlers, ListForCleanup(h) PROVE IInv'
    BY <1>1, <2>1, <2>4, HandlerInductive
  <2>5. ASSUME NEW r \in Restores, NEW s \in Snaps, RequestRestore(r, s) PROVE IInv'
    BY <1>1, <2>1, <2>5, RestoreInductive DEF RequestRestore
  <2> QED BY <1>2, <2>1, <2>2, <2>3, <2>4, <2>5 DEF Requests
<1>4. CASE JobProgress
  <2>1. /\ up /\ UNCHANGED <<up, crashes>>
        /\ JobStep \/ \E w \in Workers : RetentionStep(w)
    BY <1>4 DEF JobProgress
  <2>2. ASSUME JobStep PROVE IInv'
    <3>1. UNCHANGED <<conn, eraseVars, restoreVars>>
      BY <2>2 DEF JobStep
    <3>2. ASSUME NEW s \in Snaps,
                 \/ (Insert(s) \/ InsertFails(s)) /\ Inserted(s)
                 \/ (Send(s) \/ SendFull(s) \/ FailRow(s)) /\ UNCHANGED late
          PROVE  IInv'
      BY <1>1, <2>1, <3>1, <3>2, EnqueueInductive
    <3>3. ASSUME NEW w \in Workers, ExecuteStep(w), UNCHANGED late PROVE IInv'
      BY <1>1, <2>1, <3>1, <3>3, ExecuteInductive
    <3> QED BY <2>2, <3>2, <3>3 DEF JobStep
  <2>3. ASSUME NEW w \in Workers, RetentionStep(w) PROVE IInv'
    <3>1. CASE EraseStep(w)
      BY <1>1, <2>1, <3>1, EraseInductive DEF Threads
    <3>2. CASE Prune(w) \/ PruneFails(w) \/ PruneDone(w)
      BY <1>1, <2>1, <3>2, PruneInductive
    <3> QED BY <2>3, <3>1, <3>2 DEF RetentionStep
  <2> QED BY <1>2, <2>1, <2>2, <2>3
<1>5. CASE \E h \in Handlers : HandlerProgress(h)
  <2>1. PICK h \in Handlers : HandlerProgress(h)
    BY <1>5
  <2>2. up /\ UNCHANGED <<up, crashes>> /\ (EraseStep(h) \/ CleanupStep(h))
    BY <2>1 DEF HandlerProgress
  <2>3. CASE EraseStep(h)
    BY <1>1, <1>2, <2>2, <2>3, EraseInductive DEF Threads
  <2>4. CASE CleanupStep(h)
    BY <1>1, <1>2, <2>2, <2>4, HandlerInductive
  <2> QED BY <2>2, <2>3, <2>4
<1>6. CASE RestoreProgress
  BY <1>1, <1>2, <1>6, RestoreInductive DEF RestoreProgress
<1>7. CASE Crash
  BY <1>1, <1>7, CrashInductive DEF Inv
<1>8. CASE Start
  <2>1. IInv' /\ up'
    BY <1>1, <1>8, StartInductive DEF Inv, Start
  <2> QED BY <2>1 DEF Inv, DownInv
<1>9. CASE UNCHANGED vars
  <2>1. /\ UNCHANGED <<up, conn, snapshot, content, alerts, inFlight, queue, call,
                      work, faults, erase, cleanup, condemned, restore, rqueue>>
        /\ UNCHANGED <<rcall, rwork, crashes, late>>
    BY <1>9 DEF vars, jobVars, eraseVars, restoreVars
  <2>2. TypeOK'
    BY <1>1, <2>1 DEF IInv, TypeOK, JobsTypeOK
  <2>3. IInv'
    BY <1>1, <2>1, <2>2, RestoreMoves DEF eraseVars
  <2> QED BY <2>1, <2>3 DEF Inv, DownInv
<1> QED BY <1>3, <1>4, <1>5, <1>6, <1>7, <1>8, <1>9 DEF Next

\* The invariant is inductive.
THEOREM Inductive == Spec => []Inv
<1>1. Init => Inv
  BY InitInv
<1>2. Inv /\ [Next]_vars => Inv'
  BY NextInv
<1> QED BY <1>1, <1>2, PTL DEF Spec

-----------------------------------------------------------------------------
(* What follows from the invariant *)

\* Every variable of the backup component keeps its type.
THEOREM TypeCorrect == Spec => []TypeOK
<1>1. Inv => TypeOK
  BY DEF Inv, IInv
<1> QED BY <1>1, Inductive, PTL

\* A base never has two snapshot jobs, nor a job two places: Manager.inFlight
\* excludes them whatever fails, for any number of workers and requests.
THEOREM JobsExclusive == Spec => []OneJobPerBase
<1>1. ASSUME Inv PROVE OneJobPerBase
  <2>1. CallInv /\ QueueInv /\ WorkInv
    BY <1>1 DEF Inv, IInv
  <2>2. \A s : Queued(s) => Waits(s)
    BY <2>1 DEF Queued, QueueInv
  <2>3. \A s \in Snaps : Job(s) => inFlight[BaseOf[s]] = s
    <3>1. ASSUME NEW s \in Snaps, Calling(s) PROVE inFlight[BaseOf[s]] = s
      BY <2>1, <3>1 DEF CallInv, CallOK
    <3>2. ASSUME NEW s \in Snaps, Queued(s) PROVE inFlight[BaseOf[s]] = s
      BY <2>2, <3>2 DEF Waits
    <3>3. ASSUME NEW s \in Snaps, Executing(s) PROVE inFlight[BaseOf[s]] = s
      BY <2>1, <3>3 DEF Executing, WorkInv, WorkOK
    <3> QED BY <3>1, <3>2, <3>3 DEF Job
  <2>4. \A s \in Snaps : ~(Calling(s) /\ Queued(s)) /\ ~(Queued(s) /\ Executing(s))
    BY <2>2 DEF Calling, Waits, Executing
  <2>5. \A s, t \in Snaps : Job(s) /\ Job(t) /\ BaseOf[s] = BaseOf[t] => s = t
    BY <2>3
  <2> QED BY <2>1, <2>4, <2>5 DEF OneJobPerBase, QueueInv, WorkInv
<1>2. Inv => OneJobPerBase
  BY <1>1
<1> QED BY <1>2, Inductive, PTL

\* The row of a live job says what the job does, until the job finishes it.
THEOREM RowsOwned == Spec => []JobOwnsRow
<1>1. ASSUME Inv PROVE JobOwnsRow
  <2>1. QueueInv /\ WorkInv
    BY <1>1 DEF Inv, IInv
  <2> QED BY <2>1 DEF JobOwnsRow, Queued, QueueInv, Waits, WorkInv, WorkOK, Row
<1>2. Inv => JobOwnsRow
  BY <1>1
<1> QED BY <1>2, Inductive, PTL

\* A succeeded snapshot keeps its content until its deletion is decided.
THEOREM ContentKept == Spec => []SucceededHasContent
<1>1. Inv => SucceededHasContent
  BY DEF Inv, IInv
<1> QED BY <1>1, Inductive, PTL

\* A deleted connection leaves only snapshots its cleanup could not list.
THEOREM CleanupComplete == Spec => []CleanupMissesOnlyLate
<1>1. Inv => CleanupMissesOnlyLate
  BY DEF Inv, IInv, CleanInv
<1> QED BY <1>1, Inductive, PTL

-----------------------------------------------------------------------------
(* What a step may do to the rows *)

\* The row of t, if it is finished, stays, or is deleted by a deletion of t.
Final(t) ==
  snapshot[t].status \in Terminal =>
    snapshot'[t] = snapshot[t] \/ (snapshot'[t] = NoRow /\ t \in condemned)

\* The run of t succeeds.
Fresh(t) == snapshot'[t].status = "succeeded" /\ snapshot[t].status # "succeeded"

\* Finished rows are final, and no run succeeds.
RowKept(t) == Final(t) /\ ~Fresh(t)

\* If a run succeeds it is the one of worker w, which goes on to retention
\* unless the snapshot is a manual one or the call reported an error.
Completes(w) ==
  /\ \A t \in Snaps : Fresh(t) => t = work[w].snap
  /\ UNCHANGED condemned
  /\ work[w].snap \in Scheduled =>
       faults' > 0 \/ (work'[w].at = "listing" /\ work'[w].snap = work[w].snap)

\* Only a row that is not finished, or an erased one, is written.
LEMMA WriteFinal ==
  ASSUME IInv, NEW s \in Snaps, NEW row \in Rows,
         Write(s, row) \/ WriteFails(s, row),
         snapshot[s].status \notin Terminal \/ (row = NoRow /\ s \in condemned)
  PROVE  /\ \A t \in Snaps : Final(t) /\ (Fresh(t) => t = s)
         /\ row.status # "succeeded" => \A t \in Snaps : RowKept(t)
<1>1. /\ \A r \in Snaps : r # s => snapshot'[r] = snapshot[r]
      /\ snapshot'[s] \in {snapshot[s], row}
  BY WriteRow DEF IInv
<1> QED BY <1>1 DEF Final, Fresh, RowKept

\* An Enqueue call writes rows that are not finished.
LEMMA EnqueueRows ==
  ASSUME IInv, NEW s \in Snaps, EnqueueStep(s), NEW t \in Snaps
  PROVE  RowKept(t)
<1>1. CASE Send(s) \/ SendFull(s)
  BY <1>1 DEF Send, SendFull, RowKept, Final, Fresh
<1>2. CASE Insert(s) \/ InsertFails(s) \/ FailRow(s)
  <2>1. snapshot[s].status \notin Terminal
    BY <1>2 DEF IInv, Insert, InsertFails, FailRow, CallInv, CallOK, NoRow, Row, Terminal
  <2>2. /\ Row("pending", FALSE) \in Rows /\ Row("pending", FALSE).status # "succeeded"
        /\ Row("failed", FALSE) \in Rows /\ Row("failed", FALSE).status # "succeeded"
    BY DEF Row, Rows, Active, Terminal
  <2>3. PICK row \in Rows : /\ Write(s, row) \/ WriteFails(s, row)
                            /\ row.status # "succeeded"
    BY <1>2, <2>2 DEF Insert, InsertFails, FailRow
  <2> QED BY <2>1, <2>3, WriteFinal
<1> QED BY <1>1, <1>2 DEF EnqueueStep

\* A worker's run writes its own row, which is not finished before.
LEMMA ExecuteRows ==
  ASSUME IInv, NEW w \in Workers, ExecuteStep(w), UNCHANGED condemned
  PROVE  (\A t \in Snaps : RowKept(t)) \/ ((\A t \in Snaps : Final(t)) /\ Completes(w))
<1> DEFINE s == work[w].snap
<1>1. CASE UNCHANGED snapshot
  BY <1>1 DEF RowKept, Final, Fresh
<1>2. CASE StartRun(w) \/ StartRunFails(w)
  <2>1. s \in Snaps /\ snapshot[s].status \notin Terminal
    BY <1>2 DEF IInv, StartRun, StartRunFails, WorkInv, WorkOK, Row, Terminal
  <2>2. Row("running", FALSE) \in Rows /\ Row("running", FALSE).status # "succeeded"
    BY DEF Row, Rows, Active
  <2>3. Write(s, Row("running", FALSE)) \/ WriteFails(s, Row("running", FALSE))
    BY <1>2 DEF StartRun, StartRunFails
  <2> QED BY <2>1, <2>2, <2>3, WriteFinal
<1>3. CASE Finish(w) \/ FinishFails(w)
  <2>1. s \in Snaps /\ snapshot[s].status \notin Terminal
    BY <1>3 DEF IInv, Finish, FinishFails, WorkInv, WorkOK, Row, Terminal
  <2>2. /\ Write(s, FinishRow(w)) \/ WriteFails(s, FinishRow(w))
        /\ work[w].at \in {"captured", "failing"}
    BY <1>3 DEF Finish, FinishFails
  <2>3. /\ FinishRow(w) \in Rows
        /\ work[w].at = "failing" => FinishRow(w).status # "succeeded"
    <3>1. /\ Row("succeeded", TRUE) \in Rows
          /\ Row("failed", FALSE) \in Rows /\ Row("failed", FALSE).status # "succeeded"
      BY DEF Row, Rows, Terminal
    <3> QED BY <3>1 DEF FinishRow
  <2>4. /\ \A t \in Snaps : Final(t) /\ (Fresh(t) => t = s)
        /\ FinishRow(w).status # "succeeded" => \A t \in Snaps : RowKept(t)
    BY <2>1, <2>2, <2>3, WriteFinal
  <2>5. CASE work[w].at = "captured" /\ Finish(w)
    <3>1. s \in Scheduled => Goto(w, "listing")
      BY <2>5 DEF Finish
    <3>2. s \in Scheduled => work'[w].at = "listing" /\ work'[w].snap = s
      BY <3>1, GotoFacts DEF IInv, Steps
    <3> QED BY <2>4, <3>2 DEF Completes
  <2>6. CASE FinishFails(w)
    <3>1. faults' > 0
      BY <2>6 DEF FinishFails, WriteFails, Fault, IInv, TypeOK, JobsTypeOK
    <3> QED BY <2>4, <3>1 DEF Completes
  <2> QED BY <1>3, <2>2, <2>3, <2>4, <2>5, <2>6
<1>4. ASSUME \/ Take(w) \/ LookupFails(w) \/ Capture(w) \/ CaptureFails(w)
             \/ PutFails(w) \/ RaiseAlert(w) \/ ListVictims(w) \/ SkipRetention(w)
      PROVE  UNCHANGED snapshot
  BY <1>4 DEF Take, LookupFails, Capture, CaptureFails, PutFails, RaiseAlert,
              ListVictims, SkipRetention
<1> QED BY <1>1, <1>2, <1>3, <1>4 DEF ExecuteStep

\* A deletion writes the row of a snapshot that is condemned.
LEMMA EraseRows ==
  ASSUME IInv, NEW u \in Threads, EraseStep(u), NEW t \in Snaps
  PROVE  RowKept(t)
<1>1. CASE EraseRow(u) \/ EraseRowFails(u)
  <2>1. erase[u].snap \in Snaps /\ erase[u].snap \in condemned
    BY <1>1 DEF IInv, EraseRow, EraseRowFails, EraseInv, Settled
  <2>2. Write(erase[u].snap, NoRow) \/ WriteFails(erase[u].snap, NoRow)
    BY <1>1 DEF EraseRow, EraseRowFails
  <2>3. NoRow \in Rows /\ NoRow.status # "succeeded"
    BY DEF Row, Rows, NoRow
  <2> QED BY <2>1, <2>2, <2>3, WriteFinal
<1>2. CASE EraseContent(u) \/ EraseContentFails(u)
  BY <1>2 DEF EraseContent, EraseContentFails, RowKept, Final, Fresh
<1> QED BY <1>1, <1>2 DEF EraseStep

\* No step overwrites a finished row, and only a worker makes one succeed.
LEMMA NextRows ==
  ASSUME Inv, [Next]_vars
  PROVE  /\ \A t \in Snaps : Final(t)
         /\ (\A t \in Snaps : ~Fresh(t)) \/ \E w \in Workers : Completes(w)
<1>1. IInv /\ TypeOK
  BY DEF Inv, IInv
<1>2. ASSUME UNCHANGED snapshot PROVE \A t \in Snaps : RowKept(t)
  BY <1>2 DEF RowKept, Final, Fresh
<1>3. CASE Request
  <2>1. ASSUME Requests PROVE UNCHANGED snapshot
    BY <2>1 DEF Requests, SnapshotRequest, Reserve, DeleteRequest, ListForCleanup,
                RequestRestore, jobVars
  <2> QED BY <1>2, <1>3, <2>1 DEF Request, RowKept
<1>4. CASE JobProgress
  <2>1. JobStep \/ \E w \in Workers : RetentionStep(w)
    BY <1>4 DEF JobProgress
  <2>2. ASSUME JobStep
        PROVE  \/ \A t \in Snaps : RowKept(t)
               \/ (\A t \in Snaps : Final(t)) /\ \E w \in Workers : Completes(w)
    <3>1. UNCHANGED condemned
      BY <2>2 DEF JobStep, eraseVars
    <3>2. (\E s \in Snaps : EnqueueStep(s)) \/ (\E w \in Workers : ExecuteStep(w))
      BY <2>2 DEF JobStep, EnqueueStep
    <3> QED BY <1>1, <3>1, <3>2, EnqueueRows, ExecuteRows
  <2>3. ASSUME NEW w \in Workers, RetentionStep(w) PROVE \A t \in Snaps : RowKept(t)
    <3>1. ASSUME Prune(w) \/ PruneFails(w) \/ PruneDone(w) PROVE UNCHANGED snapshot
      BY <3>1 DEF Prune, PruneFails, PruneDone
    <3> QED BY <1>1, <1>2, <2>3, <3>1, EraseRows DEF RetentionStep, Threads
  <2> QED BY <2>1, <2>2, <2>3 DEF RowKept
<1>5. CASE \E h \in Handlers : HandlerProgress(h)
  <2>1. PICK h \in Handlers : EraseStep(h) \/ CleanupStep(h)
    BY <1>5 DEF HandlerProgress
  <2>2. ASSUME CleanupStep(h) PROVE UNCHANGED snapshot
    BY <2>2 DEF CleanupStep, CheckRestores, CleanNext, DropRestores,
                DropConnection, CleanupFails, jobVars
  <2> QED BY <1>1, <1>2, <2>1, <2>2, EraseRows DEF Threads, RowKept
<1>6. CASE RestoreProgress
  <2>1. ASSUME RestoreStep PROVE UNCHANGED snapshot
    BY <2>1 DEF RestoreStep, InsertRestore, InsertRestoreFails, SendRestore,
                FailRestore, FailRestoreFails, TakeRestore, DropRestore,
                StartRestore, OpenRestore, EndRestore, FinishRestore, jobVars
  <2> QED BY <1>2, <1>6, <2>1 DEF RestoreProgress, RowKept
<1>7. CASE Crash
  BY <1>2, <1>7 DEF Crash, RowKept
<1>8. CASE Start
  BY <1>1, <1>8 DEF Start, Failed, Final, Fresh, TypeOK, JobsTypeOK, Active, Terminal, Rows
<1>9. CASE UNCHANGED vars
  BY <1>2, <1>9 DEF vars, jobVars, RowKept
<1> QED BY <1>3, <1>4, <1>5, <1>6, <1>7, <1>8, <1>9 DEF Next

\* A finished row is never overwritten, only deleted: what DeleteSnapshot,
\* retention and EnqueueRestore read of it earlier still holds.
THEOREM FinishedStays == Spec => TerminalIsFinal
<1>1. Inv /\ [Next]_vars
        => [\A s \in Snaps : snapshot[s].status \in Terminal
                             => snapshot'[s] \in {snapshot[s], NoRow}]_vars
  BY NextRows DEF Final
<1> QED BY <1>1, Inductive, PTL DEF Spec, TerminalIsFinal

-----------------------------------------------------------------------------
(* What a step may do to the lists of retention *)

\* Some restore was recorded of s, or is being recorded.
Restored(s) == \E r \in Restores : restore[r].snap = s

\* No call failed, nothing crashed, and retention applies.
Healthy == up /\ conn /\ Retention > 0 /\ faults = 0 /\ crashes = 0

\* s is beyond the newest Retention, and no restore stands in the way.
Overdue(s) ==
  /\ s \in Succeeded(BaseOf[s])
  /\ Cardinality({t \in Succeeded(BaseOf[s]) : t > s}) >= Retention
  /\ ~Restored(s)

\* Worker w will list s, has it on its list, or deletes it.
Due(w, s) ==
  /\ BaseOf[work[w].snap] = BaseOf[s]
  /\ \/ work[w].at = "listing"
     \/ /\ work[w].at = "pruning"
        /\ s \in work[w].victims \/ (erase[w].at # "idle" /\ erase[w].snap = s)

\* Worker w lists what is beyond the newest Retention, and deletes nothing
\* but what is on its list.
ListStep(w) ==
  /\ \/ work'[w].victims \subseteq work[w].victims
     \/ work'[w].victims = Beyond(BaseOf[work[w].snap])
  /\ erase'[w].at # "idle" =>
       \/ erase[w].at # "idle" /\ erase'[w].snap = erase[w].snap
       \/ erase'[w].snap \in work[w].victims

\* Worker w does not lose sight of an overdue snapshot.
DueStep(w, s) ==
  Due(w, s) /\ Overdue(s) /\ Healthy' /\ Overdue(s)' => Due(w, s)'

PruneOK(w) == ListStep(w) /\ \A s \in Snaps : DueStep(w, s)

\* A worker that does not move.
LEMMA StillPruneOK ==
  ASSUME NEW w \in Workers, work'[w] = work[w], erase'[w] = erase[w]
  PROVE  PruneOK(w)
BY DEF PruneOK, ListStep, DueStep, Due

\* A worker moves on that neither lists nor prunes.
LEMMA BusyPruneOK ==
  ASSUME NEW w \in Workers, UNCHANGED erase, work[w].at \notin {"listing", "pruning"},
         work'[w].victims \subseteq work[w].victims
  PROVE  PruneOK(w)
BY DEF PruneOK, ListStep, DueStep, Due

LEMMA ExecuteLists ==
  ASSUME IInv, NEW v \in Workers, ExecuteStep(v), UNCHANGED <<conn, erase>>,
         NEW w \in Workers
  PROVE  PruneOK(w)
<1>1. work \in [Workers -> Jobs] /\ faults \in Nat
  BY JobConstants DEF IInv, TypeOK, JobsTypeOK
<1>2. CASE w # v
  <2>1. work'[w] = work[w]
    BY <1>1, <1>2 DEF ExecuteStep, Take, LookupFails, StartRun, StartRunFails, Capture,
       CaptureFails, PutFails, Finish, FinishFails, RaiseAlert, ListVictims, SkipRetention,
       Goto, Return
  <2> QED BY <2>1, StillPruneOK
<1>3. CASE w = v
  <2>1. CASE LookupFails(w)
    BY <2>1, StillPruneOK DEF LookupFails
  <2>2. CASE \/ Take(w) \/ StartRun(w) \/ StartRunFails(w) \/ Capture(w)
             \/ CaptureFails(w) \/ PutFails(w) \/ Finish(w) \/ FinishFails(w)
             \/ RaiseAlert(w)
    <3>1. work[w].at \notin {"listing", "pruning"}
      BY <2>2 DEF Take, StartRun, StartRunFails, Capture, CaptureFails, PutFails, Finish,
                  FinishFails, RaiseAlert
    <3>2. Take(w) \/ Return(w) \/ \E step : Goto(w, step)
      BY <2>2 DEF StartRun, StartRunFails, Capture, CaptureFails, PutFails, Finish,
                  FinishFails, RaiseAlert
    <3>3. work'[w].victims \subseteq work[w].victims
      <4>1. CASE Take(w) \/ Return(w)
        BY <1>1, <4>1 DEF Take, Return, Idle
      <4>2. ASSUME NEW step, Goto(w, step) PROVE work'[w].victims = work[w].victims
        BY <1>1, <4>2 DEF Goto, Jobs
      <4> QED BY <3>2, <4>1, <4>2
    <3> QED BY <3>1, <3>3, BusyPruneOK
  <2>3. CASE ListVictims(w)
    <3> DEFINE b == BaseOf[work[w].snap]
               V == Beyond(b)
    <3>1. /\ work[w].at = "listing"
          /\ work' = [work EXCEPT ![w].at = "pruning", ![w].victims = V]
      BY <2>3 DEF ListVictims
    <3>2. V \in SUBSET Snaps /\ TypeOK
      BY BeyondSettled DEF IInv
    <3>3. /\ work'[w].at = "pruning"
          /\ work'[w].snap = work[w].snap
          /\ work'[w].victims = V
      <4> HIDE DEF V
      <4> QED BY <3>1, <3>2, VictimsFacts DEF Steps
    <3>4. ASSUME NEW s \in Snaps, Due(w, s), Overdue(s) PROVE Due(w, s)'
      <4>1. BaseOf[s] = b
        BY <3>4 DEF Due
      <4>2. s \in Beyond(b)
        BY <3>4, <4>1 DEF Overdue, Beyond, Kept, Succeeded
      <4> QED BY <3>3, <4>1, <4>2 DEF Due
    <3> QED BY <3>1, <3>3, <3>4 DEF PruneOK, ListStep, DueStep
  <2>4. CASE SkipRetention(w)
    <3>1. ~Healthy'
      BY <1>1, <2>4 DEF SkipRetention, Fault, Healthy
    <3>2. work'[w].victims = {}
      BY <1>1, <2>4 DEF SkipRetention, Return, Idle
    <3> QED BY <3>1, <3>2 DEF PruneOK, ListStep, DueStep
  <2> QED BY <1>3, <2>1, <2>2, <2>3, <2>4 DEF ExecuteStep
<1> QED BY <1>2, <1>3

\* An error in a deletion that t makes ends what it was part of.
LEMMA AbortLists ==
  ASSUME IInv, NEW t \in Threads, AbortErase(t), Fault, NEW w \in Workers
  PROVE  PruneOK(w)
<1>1. /\ work'[w].victims \subseteq work[w].victims
      /\ erase'[w] = erase[w] \/ erase'[w] = NoErase
  BY AbortFacts DEF IInv, Shorter, Threads
<1>2. ~Healthy'
  BY JobConstants DEF IInv, TypeOK, JobsTypeOK, Fault, Healthy
<1> QED BY <1>1, <1>2 DEF PruneOK, ListStep, DueStep, NoErase

LEMMA EraseLists ==
  ASSUME IInv, NEW t \in Threads, EraseStep(t), NEW w \in Workers
  PROVE  PruneOK(w)
<1>1. erase \in [Threads -> Erasures] /\ w \in Threads
  BY DEF IInv, TypeOK, Threads
<1>2. CASE EraseContentFails(t) \/ EraseRowFails(t)
  BY <1>2, AbortLists DEF EraseContentFails, EraseRowFails, WriteFails
<1>3. CASE EraseContent(t)
  <2>1. UNCHANGED work /\ erase' = [erase EXCEPT ![t].at = "emptied"] /\ erase[t].at = "checked"
    BY <1>3 DEF EraseContent
  <2>2. erase'[w].snap = erase[w].snap /\ (erase'[w].at # "idle" <=> erase[w].at # "idle")
    BY <1>1, <2>1 DEF Erasures
  <2> QED BY <2>1, <2>2 DEF PruneOK, ListStep, DueStep, Due
<1>4. CASE EraseRow(t)
  <2>1. /\ UNCHANGED work /\ erase' = [erase EXCEPT ![t] = NoErase]
        /\ Write(erase[t].snap, NoRow)
    BY <1>4 DEF EraseRow
  <2>2. CASE w # t
    BY <1>1, <2>1, <2>2, StillPruneOK
  <2>3. CASE w = t
    <3>1. erase'[w] = NoErase
      BY <1>1, <2>1, <2>3
    <3>2. ASSUME NEW s \in Snaps, erase[w].snap = s PROVE ~Overdue(s)'
      <4>1. snapshot'[s] = NoRow
        BY <2>1, <2>3, <3>2 DEF Write, IInv, TypeOK, JobsTypeOK
      <4> QED BY <4>1 DEF Overdue, Succeeded, NoRow, Row
    <3> QED BY <2>1, <3>1, <3>2 DEF PruneOK, ListStep, DueStep, Due, NoErase
  <2> QED BY <2>2, <2>3
<1> QED BY <1>2, <1>3, <1>4 DEF EraseStep

LEMMA PruneLists ==
  ASSUME IInv, NEW v \in Workers, Prune(v) \/ PruneFails(v) \/ PruneDone(v),
         NEW w \in Workers
  PROVE  PruneOK(w)
<1>1. /\ work \in [Workers -> Jobs] /\ erase \in [Threads -> Erasures]
      /\ v \in Threads /\ w \in Threads
  BY DEF IInv, TypeOK, JobsTypeOK, Threads
<1>2. erase[v] = NoErase /\ work[v].at = "pruning"
  BY DEF Prune, PruneFails, PruneDone
<1>3. CASE w # v
  <2>1. work'[w] = work[w] /\ erase'[w] = erase[w]
    BY <1>1, <1>3 DEF Prune, PruneFails, PruneDone, BeginErase, Return, eraseVars
  <2> QED BY <2>1, StillPruneOK
<1>4. CASE w = v /\ Prune(w)
  <2>1. PICK x \in Newest(work[w].victims) :
          /\ work' = [work EXCEPT ![w].victims = @ \ {x}]
          /\ IF Erasable(x) THEN BeginErase(w, x) ELSE UNCHANGED <<erase, condemned>>
    BY <1>4 DEF Prune
  <2>2. x \in work[w].victims /\ x \in Snaps
    BY <1>1, <2>1 DEF Newest, Jobs
  <2>3. /\ work'[w].at = work[w].at
        /\ work'[w].snap = work[w].snap
        /\ work'[w].victims = work[w].victims \ {x}
    BY <1>1, <2>1 DEF Jobs
  <2>4. CASE Erasable(x)
    <3>1. erase'[w].at # "idle" /\ erase'[w].snap = x
      BY <2>1, <2>2, <2>4, BeginFacts, <1>1 DEF IInv
    <3> QED BY <1>2, <1>4, <2>2, <2>3, <3>1 DEF PruneOK, ListStep, DueStep, Due, NoErase
  <2>5. CASE ~Erasable(x)
    <3>1. Restored(x)
      BY <2>5 DEF Erasable, RestoreActive, Restored
    <3>2. UNCHANGED erase
      BY <2>1, <2>5
    <3> QED BY <1>2, <2>3, <3>1, <3>2 DEF PruneOK, ListStep, DueStep, Due, Overdue, NoErase
  <2> QED BY <2>4, <2>5
<1>5. CASE w = v /\ PruneFails(w)
  <2>1. ~Healthy' /\ UNCHANGED erase
    BY <1>5, JobConstants
    DEF PruneFails, IInv, TypeOK, JobsTypeOK, Fault, Healthy, eraseVars
  <2>2. work'[w].victims = {}
    BY <1>1, <1>5 DEF PruneFails, Jobs
  <2> QED BY <1>2, <2>1, <2>2 DEF PruneOK, ListStep, DueStep, NoErase
<1>6. CASE w = v /\ PruneDone(w)
  <2>1. work[w].victims = {} /\ UNCHANGED erase
    BY <1>6 DEF PruneDone, eraseVars
  <2>2. work'[w].victims = {}
    BY <1>1, <1>6 DEF PruneDone, Return, Idle
  <2> QED BY <1>2, <1>6, <2>1, <2>2 DEF PruneOK, ListStep, DueStep, Due, NoErase
<1> QED BY <1>3, <1>4, <1>5, <1>6

\* Requests and cleanups have goroutines of their own.
LEMMA HandlerLists ==
  ASSUME IInv, NEW h \in Handlers, NEW w \in Workers,
         \/ \E s \in Snaps : DeleteRequest(h, s)
         \/ ListForCleanup(h) \/ CleanupStep(h)
  PROVE  PruneOK(w)
<1>1. erase \in [Threads -> Erasures] /\ w \in Threads /\ w # h
  BY BackupConstants DEF IInv, TypeOK, Threads
<1>2. UNCHANGED work
  BY DEF DeleteRequest, ListForCleanup, CleanupStep, CheckRestores, CleanNext,
         DropRestores, DropConnection, CleanupFails, jobVars
<1>3. erase'[w] = erase[w]
  BY <1>1 DEF DeleteRequest, ListForCleanup, CleanupStep, CheckRestores, CleanNext,
              DropRestores, DropConnection, CleanupFails, BeginErase
<1> QED BY <1>2, <1>3, StillPruneOK

\* Whatever happens, a worker deletes what it listed and no more.
LEMMA NextLists ==
  ASSUME Inv, [Next]_vars, NEW w \in Workers
  PROVE  PruneOK(w)
<1>1. IInv
  BY DEF Inv
<1>2. ASSUME UNCHANGED <<work, erase>> PROVE PruneOK(w)
  BY <1>2, StillPruneOK
<1>3. CASE Request
  <2>1. ASSUME NEW s \in Snaps, SnapshotRequest(s) PROVE PruneOK(w)
    BY <1>2, <2>1 DEF SnapshotRequest, Reserve, eraseVars
  <2>2. ASSUME NEW r \in Restores, NEW s \in Snaps, RequestRestore(r, s) PROVE PruneOK(w)
    BY <1>2, <2>2 DEF RequestRestore, eraseVars, jobVars
  <2> QED BY <1>1, <1>3, <2>1, <2>2, HandlerLists DEF Request, Requests
<1>4. CASE JobProgress
  <2>1. ASSUME NEW s \in Snaps, EnqueueStep(s), UNCHANGED erase PROVE PruneOK(w)
    BY <1>2, <2>1 DEF EnqueueStep, Insert, InsertFails, Send, SendFull, FailRow
  <2>2. ASSUME JobStep PROVE PruneOK(w)
    <3>1. UNCHANGED <<conn, erase>>
      BY <2>2 DEF JobStep, eraseVars
    <3>2. (\E s \in Snaps : EnqueueStep(s)) \/ (\E v \in Workers : ExecuteStep(v))
      BY <2>2 DEF JobStep, EnqueueStep
    <3> QED BY <1>1, <2>1, <3>1, <3>2, ExecuteLists
  <2>3. ASSUME NEW v \in Workers, RetentionStep(v) PROVE PruneOK(w)
    BY <1>1, <2>3, EraseLists, PruneLists DEF RetentionStep, Threads
  <2> QED BY <1>4, <2>2, <2>3 DEF JobProgress
<1>5. CASE \E h \in Handlers : HandlerProgress(h)
  BY <1>1, <1>5, EraseLists, HandlerLists DEF HandlerProgress, Threads
<1>6. CASE RestoreProgress
  <2>1. ASSUME RestoreStep PROVE UNCHANGED work
    BY <2>1 DEF RestoreStep, InsertRestore, InsertRestoreFails, SendRestore,
                FailRestore, FailRestoreFails, TakeRestore, DropRestore,
                StartRestore, OpenRestore, EndRestore, FinishRestore, jobVars
  <2> QED BY <1>2, <1>6, <2>1 DEF RestoreProgress, eraseVars
<1>7. CASE Crash
  <2>1. work'[w] = Idle /\ erase'[w] = NoErase /\ ~Healthy'
    BY <1>7 DEF Crash, Threads, Healthy
  <2> QED BY <2>1 DEF PruneOK, ListStep, DueStep, Idle, NoErase
<1>8. CASE Start
  BY <1>2, <1>8 DEF Start, eraseVars
<1>9. CASE UNCHANGED vars
  BY <1>2, <1>9 DEF vars, jobVars, eraseVars
<1> QED BY <1>3, <1>4, <1>5, <1>6, <1>7, <1>8, <1>9 DEF Next

-----------------------------------------------------------------------------
(* What a step may do to the rest *)

\* At most one deletion passes its checks; until the next start the process
\* gets no healthier.
LEMMA NextHistory ==
  ASSUME Inv, [Next]_vars
  PROVE  /\ \/ UNCHANGED condemned
            \/ UNCHANGED snapshot /\ \E c \in Snaps : condemned' = condemned \cup {c}
         /\ \/ Start
            \/ Crash
            \/ UNCHANGED <<up, crashes>> /\ (conn' => conn) /\ faults' \in {faults, faults + 1}
<1> DEFINE Moves == /\ conn' => conn
                    /\ faults' \in {faults, faults + 1}
                    /\ \/ UNCHANGED condemned
                       \/ /\ UNCHANGED snapshot
                          /\ \E c \in Snaps : condemned' = condemned \cup {c}
<1>1. TypeOK
  BY DEF Inv, IInv
<1>2. CASE Request
  <2>1. ASSUME NEW s \in Snaps, SnapshotRequest(s) PROVE Moves
    BY <2>1 DEF SnapshotRequest, Reserve, eraseVars
  <2>2. ASSUME NEW h \in Handlers, NEW s \in Snaps, DeleteRequest(h, s) PROVE Moves
    BY <2>2 DEF DeleteRequest, BeginErase, jobVars
  <2>3. ASSUME NEW h \in Handlers, ListForCleanup(h) PROVE Moves
    BY <2>3 DEF ListForCleanup, jobVars
  <2>4. ASSUME NEW r \in Restores, NEW s \in Snaps, RequestRestore(r, s) PROVE Moves
    BY <2>4 DEF RequestRestore, jobVars, eraseVars
  <2> QED BY <1>2, <2>1, <2>2, <2>3, <2>4 DEF Request, Requests
<1>3. ASSUME NEW t \in Threads, EraseStep(t) PROVE Moves
  BY <1>3 DEF EraseStep, EraseContent, EraseContentFails, EraseRow, EraseRowFails,
              WriteFails, Fault
<1>4. CASE JobProgress
  <2>1. ASSUME JobStep PROVE Moves
    <3>1. UNCHANGED <<conn, condemned>>
      BY <2>1 DEF JobStep, eraseVars
    <3>2. ASSUME NEW s \in Snaps, EnqueueStep(s) PROVE faults' \in {faults, faults + 1}
      BY <3>2 DEF EnqueueStep, Insert, InsertFails, Send, SendFull, FailRow, WriteFails, Fault
    <3>3. ASSUME NEW w \in Workers, ExecuteStep(w) PROVE faults' \in {faults, faults + 1}
      BY <3>3 DEF ExecuteStep, Take, LookupFails, StartRun, StartRunFails, Capture,
                  CaptureFails, PutFails, Finish, FinishFails, RaiseAlert, ListVictims,
                  SkipRetention, WriteFails, Fault
    <3>4. (\E s \in Snaps : EnqueueStep(s)) \/ (\E w \in Workers : ExecuteStep(w))
      BY <2>1 DEF JobStep, EnqueueStep
    <3> QED BY <3>1, <3>2, <3>3, <3>4
  <2>2. ASSUME NEW w \in Workers, Prune(w) \/ PruneFails(w) \/ PruneDone(w) PROVE Moves
    <3>1. \A v \in Newest(work[w].victims) : v \in Snaps
      BY <1>1 DEF TypeOK, JobsTypeOK, Jobs, Newest
    <3>2. UNCHANGED <<conn, snapshot>> /\ faults' \in {faults, faults + 1}
      BY <2>2 DEF Prune, PruneFails, PruneDone, Fault
    <3>3. UNCHANGED condemned \/ \E c \in Snaps : condemned' = condemned \cup {c}
      BY <2>2, <3>1 DEF Prune, PruneFails, PruneDone, BeginErase, eraseVars
    <3> QED BY <3>2, <3>3
  <2>3. ASSUME NEW w \in Workers, RetentionStep(w) PROVE Moves
    BY <1>3, <2>2, <2>3 DEF RetentionStep, Threads
  <2> QED BY <1>4, <2>1, <2>3 DEF JobProgress
<1>5. CASE \E h \in Handlers : HandlerProgress(h)
  <2>1. PICK h \in Handlers : /\ EraseStep(h) \/ CleanupStep(h)
                              /\ UNCHANGED <<up, crashes>>
    BY <1>5 DEF HandlerProgress
  <2>2. ASSUME CleanNext(h) PROVE Moves
    <3>1. \A s \in Newest(cleanup[h].snaps) : s \in Snaps
      BY <1>1 DEF TypeOK, Cleanups, Newest
    <3> QED BY <2>2, <3>1 DEF CleanNext, BeginErase, jobVars
  <2>3. ASSUME CheckRestores(h) \/ DropRestores(h) \/ DropConnection(h) \/ CleanupFails(h)
        PROVE  Moves
    BY <2>3 DEF CheckRestores, DropRestores, DropConnection, CleanupFails, jobVars, Fault
  <2> QED BY <1>3, <2>1, <2>2, <2>3 DEF CleanupStep, Threads
<1>6. CASE RestoreProgress
  <2>1. ASSUME RestoreStep PROVE faults' \in {faults, faults + 1}
    BY <2>1 DEF RestoreStep, InsertRestore, InsertRestoreFails, SendRestore,
                FailRestore, FailRestoreFails, TakeRestore, DropRestore,
                StartRestore, OpenRestore, EndRestore, FinishRestore, jobVars, Fault
  <2> QED BY <1>6, <2>1 DEF RestoreProgress, eraseVars
<1>7. CASE Crash
  BY <1>7 DEF Crash
<1>8. CASE Start
  BY <1>8 DEF Start, eraseVars
<1>9. CASE UNCHANGED vars
  BY <1>9 DEF vars, jobVars, eraseVars
<1> QED BY <1>2, <1>4, <1>5, <1>6, <1>7, <1>8, <1>9 DEF Next

\* A restore id has its snapshot from the request on.
RestoreInv == \A r \in Restores : rcall[r] = "new" => restore[r].snap = NoSnap

\* Of whatever a restore was recorded, it stays recorded.
LEMMA NextRestored ==
  ASSUME Inv, RestoreInv, [Next]_vars
  PROVE  RestoreInv' /\ \A s \in Snaps : Restored(s) => Restored(s)'
<1>1. /\ restore \in [Restores -> RestoreRows] /\ rcall \in [Restores -> Calls \cup {"checked"}]
      /\ NoSnap \notin Snaps
  BY JobConstants DEF Inv, IInv, TypeOK, NoSnap
<1>2. ASSUME \A r \in Restores : /\ restore'[r].snap = restore[r].snap
                                 /\ rcall'[r] = "new" => rcall[r] = "new"
      PROVE  RestoreInv' /\ \A s \in Snaps : Restored(s) => Restored(s)'
  BY <1>2 DEF RestoreInv, Restored
<1>3. ASSUME UNCHANGED <<restore, rcall>>
      PROVE  RestoreInv' /\ \A s \in Snaps : Restored(s) => Restored(s)'
  BY <1>2, <1>3
<1>4. CASE Request
  <2>1. ASSUME NEW r \in Restores, NEW s \in Snaps, RequestRestore(r, s)
        PROVE  RestoreInv' /\ \A x \in Snaps : Restored(x) => Restored(x)'
    <3>1. /\ rcall[r] = "new" /\ restore[r].snap = NoSnap
          /\ rcall' = [rcall EXCEPT ![r] = "checked"]
          /\ restore' = [restore EXCEPT ![r].snap = s]
      BY <2>1 DEF RequestRestore, SetRCall, RestoreInv
    <3>2. \A q \in Restores : q # r => restore'[q] = restore[q] /\ rcall'[q] = rcall[q]
      BY <1>1, <3>1
    <3>3. rcall'[r] = "checked"
      BY <1>1, <3>1
    <3> QED BY <1>1, <3>1, <3>2, <3>3 DEF RestoreInv, Restored
  <2>2. ASSUME \/ \E s \in Snaps : SnapshotRequest(s)
               \/ \E h \in Handlers, s \in Snaps : DeleteRequest(h, s)
               \/ \E h \in Handlers : ListForCleanup(h)
        PROVE  UNCHANGED <<restore, rcall>>
    BY <2>2 DEF SnapshotRequest, DeleteRequest, ListForCleanup, restoreVars
  <2> QED BY <1>3, <1>4, <2>1, <2>2 DEF Request, Requests
<1>5. ASSUME NEW t \in Threads, EraseStep(t) PROVE UNCHANGED <<restore, rcall>>
  BY <1>5 DEF EraseStep, EraseContent, EraseContentFails, EraseRow, EraseRowFails, restoreVars
<1>6. CASE JobProgress
  <2>1. ASSUME JobStep PROVE UNCHANGED <<restore, rcall>>
    BY <2>1 DEF JobStep, restoreVars
  <2>2. ASSUME NEW w \in Workers, RetentionStep(w) PROVE UNCHANGED <<restore, rcall>>
    BY <1>5, <2>2 DEF RetentionStep, Threads, Prune, PruneFails, PruneDone, restoreVars
  <2> QED BY <1>3, <1>6, <2>1, <2>2 DEF JobProgress
<1>7. CASE \E h \in Handlers : HandlerProgress(h)
  <2>1. PICK h \in Handlers : EraseStep(h) \/ CleanupStep(h)
    BY <1>7 DEF HandlerProgress
  <2>2. CASE DropRestores(h)
    <3>1. /\ UNCHANGED rcall
          /\ \A r \in Restores : restore'[r] = [restore[r] EXCEPT !.status = "none"]
      BY <2>2 DEF DropRestores
    <3> QED BY <1>1, <1>2, <3>1 DEF RestoreRows
  <2>3. CASE CheckRestores(h) \/ CleanNext(h) \/ DropConnection(h) \/ CleanupFails(h)
    BY <1>3, <2>3 DEF CheckRestores, CleanNext, DropConnection, CleanupFails, restoreVars
  <2> QED BY <1>3, <1>5, <2>1, <2>2, <2>3 DEF CleanupStep, Threads
<1>8. CASE RestoreProgress
  <2>1. ASSUME NEW r, NEW status,
               SetRestore(r, status) \/ UNCHANGED restore
        PROVE  \A q \in Restores : restore'[q].snap = restore[q].snap
    BY <1>1, <2>1 DEF SetRestore, RestoreRows
  <2>2. ASSUME NEW r, NEW c, c # "new", SetRCall(r, c)
        PROVE  \A q \in Restores : rcall'[q] = "new" => rcall[q] = "new"
    BY <1>1, <2>2 DEF SetRCall
  <2>3. ASSUME RestoreStep
        PROVE  \E r, status : SetRestore(r, status) \/ UNCHANGED restore
    BY <2>3 DEF RestoreStep, InsertRestore, InsertRestoreFails, SendRestore,
                FailRestore, FailRestoreFails, TakeRestore, DropRestore,
                StartRestore, OpenRestore, EndRestore, FinishRestore
  <2>4. ASSUME RestoreStep
        PROVE  UNCHANGED rcall \/ \E r : \E c \in {"inserted", "full", "done"} : SetRCall(r, c)
    BY <2>4 DEF RestoreStep, InsertRestore, InsertRestoreFails, SendRestore,
                FailRestore, FailRestoreFails, TakeRestore, DropRestore,
                StartRestore, OpenRestore, EndRestore, FinishRestore
  <2> QED BY <1>2, <1>8, <2>1, <2>2, <2>3, <2>4 DEF RestoreProgress
<1>9. CASE Crash
  <2>1. UNCHANGED restore /\ rcall' = Forgotten(rcall)
    BY <1>9 DEF Crash
  <2>2. \A r \in Restores : rcall'[r] = "new" => rcall[r] = "new"
    BY <1>1, <2>1 DEF Forgotten
  <2> QED BY <1>2, <2>1, <2>2
<1>10. CASE Start
  <2>1. UNCHANGED rcall /\ restore' = Failed(restore)
    BY <1>10 DEF Start
  <2>2. \A r \in Restores : restore'[r].snap = restore[r].snap
    BY <1>1, <2>1 DEF Failed, RestoreRows
  <2> QED BY <1>2, <2>1, <2>2
<1>11. CASE UNCHANGED vars
  BY <1>3, <1>11 DEF vars, restoreVars
<1> QED BY <1>4, <1>6, <1>7, <1>8, <1>9, <1>10, <1>11 DEF Next

-----------------------------------------------------------------------------
(* Retention spares the newest *)

\* The scheduled snapshots that retention counts: each succeeded, and stays or
\* was condemned since.
Counted == {t \in Scheduled : snapshot[t].status = "succeeded" \/ t \in condemned}

Newer(v) == {t \in Counted : BaseOf[t] = BaseOf[v] /\ t > v}

Spared(v) == v \in Scheduled /\ Cardinality(Newer(v)) >= Retention

\* What a worker deletes, or has on its list, is beyond the newest. Ids may be
\* infinitely many, but finitely many snapshots were ever made.
SpareInv ==
  /\ IsFiniteSet(Counted)
  /\ \A w \in Workers : /\ \A v \in work[w].victims : Spared(v)
                        /\ erase[w].at # "idle" => Spared(erase[w].snap)

\* A set with as many members as retention keeps gets no smaller.
LEMMA EnoughStay ==
  ASSUME NEW S, IsFiniteSet(S), NEW T \in SUBSET S, Cardinality(T) >= Retention
  PROVE  Cardinality(S) >= Retention
<1>1. Cardinality(T) <= Cardinality(S) /\ IsFiniteSet(T)
  BY FS_Subset
<1>2. Cardinality(T) \in Nat /\ Cardinality(S) \in Nat
  BY <1>1, FS_CardinalityType
<1> QED BY <1>1, <1>2, JobConstants

\* What counts goes on counting; one more snapshot at most does.
LEMMA CountedGrows ==
  ASSUME Inv, [Next]_vars, IsFiniteSet(Counted)
  PROVE  Counted \subseteq Counted' /\ IsFiniteSet(Counted')
<1>1. condemned \subseteq condemned'
  BY NextHistory
<1>2. Counted \subseteq Counted'
  <2>1. ASSUME NEW t \in Counted PROVE t \in Counted'
    <3>1. t \in Scheduled /\ t \in Snaps
      BY JobConstants DEF Counted
    <3>2. CASE t \in condemned
      BY <1>1, <3>1, <3>2 DEF Counted
    <3>3. CASE snapshot[t].status = "succeeded" /\ t \notin condemned
      <4>1. Final(t)
        BY <3>1, NextRows
      <4>2. snapshot'[t] = snapshot[t]
        BY <3>3, <4>1 DEF Final, Terminal
      <4> QED BY <3>1, <3>3, <4>2 DEF Counted
    <3> QED BY <3>2, <3>3 DEF Counted
  <2> QED BY <2>1
<1>3. PICK c : Counted' \subseteq Counted \cup {c}
  <2>1. CASE UNCHANGED snapshot /\ \E c \in Snaps : condemned' = condemned \cup {c}
    BY <2>1 DEF Counted
  <2>2. CASE UNCHANGED condemned /\ \A t \in Snaps : ~Fresh(t)
    BY <2>2, JobConstants DEF Counted, Fresh
  <2>3. ASSUME UNCHANGED condemned, NEW w \in Workers, Completes(w)
        PROVE  Counted' \subseteq Counted \cup {work[w].snap}
    BY <2>3, JobConstants DEF Counted, Completes, Fresh
  <2> QED BY <2>1, <2>2, <2>3, NextHistory, NextRows
<1>4. IsFiniteSet(Counted')
  <2>1. IsFiniteSet(Counted \cup {c})
    BY FS_AddElement
  <2> QED BY <1>3, <2>1, FS_Subset
<1> QED BY <1>2, <1>4

\* Every step preserves that retention spares the newest.
LEMMA SpareNext ==
  ASSUME Inv, SpareInv, [Next]_vars
  PROVE  SpareInv'
<1>1. Counted \subseteq Counted' /\ IsFiniteSet(Counted) /\ IsFiniteSet(Counted')
  BY CountedGrows DEF SpareInv
<1>2. ASSUME NEW v, Spared(v) PROVE Spared(v)'
  <2>1. Newer(v) \subseteq Newer(v)' /\ Newer(v)' \subseteq Counted'
    BY <1>1 DEF Newer
  <2>2. IsFiniteSet(Newer(v)')
    BY <1>1, <2>1, FS_Subset
  <2> QED BY <1>2, <2>1, <2>2, EnoughStay DEF Spared
<1>3. ASSUME NEW b, NEW v \in Beyond(b) PROVE Spared(v)
  <2> DEFINE T == {t \in Kept(b) : t > v}
  <2>1. /\ v \in Scheduled /\ BaseOf[v] = b
        /\ Cardinality(T) >= Retention
    BY <1>3 DEF Beyond, Kept
  <2>2. T \subseteq Newer(v) /\ Newer(v) \subseteq Counted
    BY <2>1 DEF Kept, Newer, Counted
  <2>3. IsFiniteSet(Newer(v))
    BY <1>1, <2>2, FS_Subset
  <2> QED
    <3> HIDE DEF T
    <3> QED BY <2>1, <2>2, <2>3, EnoughStay DEF Spared
<1>4. \A v : Spared(v) => Spared(v)'
  BY <1>2
<1>5. ASSUME NEW w \in Workers
      PROVE  (/\ \A v \in work[w].victims : Spared(v)
              /\ erase[w].at # "idle" => Spared(erase[w].snap))'
  <2>1. ListStep(w)
    BY NextLists DEF PruneOK
  <2>2. /\ \A v \in work[w].victims : Spared(v)
        /\ erase[w].at # "idle" => Spared(erase[w].snap)
    BY DEF SpareInv
  <2>3. \A v \in work'[w].victims : Spared(v)
    BY <1>3, <2>1, <2>2 DEF ListStep
  <2>4. erase'[w].at # "idle" => Spared(erase'[w].snap)
    BY <2>1, <2>2 DEF ListStep
  <2> QED BY <1>4, <2>3, <2>4 DEF Spared, Newer
<1> QED BY <1>1, <1>5 DEF SpareInv

\* What a worker deletes is scheduled, and at least Retention newer scheduled
\* snapshots of its base succeeded, none of which is gone but by a deletion.
THEOREM NewestSpared == Spec => []RetentionSparesNewest
<1>1. Init => SpareInv
  <2>1. ASSUME Init PROVE Counted = {}
    BY <2>1, JobConstants DEF Init, JobsInit, Counted, NoRow, Row
  <2>2. ASSUME Init, NEW w \in Workers PROVE work[w] = Idle /\ erase[w] = NoErase
    BY <2>2 DEF Init, JobsInit, Threads
  <2> QED BY <2>1, <2>2, FS_EmptySet DEF SpareInv, Idle, NoErase
<1>2. Inv /\ SpareInv /\ [Next]_vars => SpareInv'
  BY SpareNext
<1>3. SpareInv => RetentionSparesNewest
  BY DEF SpareInv, Spared, Newer, Counted, RetentionSparesNewest
<1> QED BY <1>1, <1>2, <1>3, Inductive, PTL DEF Spec

-----------------------------------------------------------------------------
(* Retention deletes what it should *)

\* While nothing fails, what is overdue is in the hands of a worker.
DueInv == Healthy => \A s \in Snaps : Overdue(s) => \E w \in Workers : Due(w, s)

\* A process that went down crashed.
CrashInv == up \/ crashes > 0

KeepInv == SpareInv /\ RestoreInv /\ CrashInv /\ DueInv

\* Every step preserves that nobody loses sight of what is overdue.
LEMMA KeepNext ==
  ASSUME Inv, KeepInv, [Next]_vars
  PROVE  KeepInv'
<1>1. /\ SpareInv' /\ RestoreInv'
      /\ \A s \in Snaps : Restored(s) => Restored(s)'
  BY SpareNext, NextRestored DEF KeepInv
<1>2. crashes \in Nat /\ faults \in Nat
  BY BackupConstants, JobConstants DEF Inv, IInv, TypeOK, JobsTypeOK
<1>3. CrashInv' /\ (Healthy' => Healthy)
  <2>1. CASE Start
    BY <1>2, <2>1 DEF Start, KeepInv, CrashInv, Healthy
  <2>2. CASE Crash
    BY <1>2, <2>2 DEF Crash, CrashInv, Healthy
  <2>3. CASE UNCHANGED <<up, crashes>> /\ (conn' => conn) /\ faults' \in {faults, faults + 1}
    BY <1>2, <2>3 DEF KeepInv, CrashInv, Healthy
  <2> QED BY <2>1, <2>2, <2>3, NextHistory
<1>4. ASSUME Healthy', NEW s \in Snaps, Overdue(s)' PROVE \E w \in Workers : Due(w, s)'
  <2> DEFINE b == BaseOf[s]
             T == {t \in Succeeded(b) : t > s}
             U == {t \in Succeeded(b)' : t > s}
  <2>1. s \in Scheduled /\ snapshot'[s].status = "succeeded" /\ ~Restored(s)
        /\ Cardinality(U) >= Retention
    BY <1>1, <1>4 DEF Overdue, Succeeded
  <2>2. CASE \E t \in Succeeded(b)' : Fresh(t)
    <3>1. PICK t \in Scheduled : Fresh(t) /\ BaseOf[t] = b
      BY <2>2 DEF Succeeded
    <3>2. PICK w \in Workers : Completes(w)
      BY <3>1, NextRows, JobConstants
    <3>3. work[w].snap = t /\ work'[w].at = "listing" /\ work'[w].snap = t
      BY <1>4, <3>1, <3>2, JobConstants DEF Completes, Healthy
    <3> QED BY <3>1, <3>3 DEF Due
  <2>3. CASE \A t \in Succeeded(b)' : ~Fresh(t)
    <3>1. Succeeded(b)' \subseteq Succeeded(b)
      BY <2>3 DEF Succeeded, Fresh
    <3>2. s \in Succeeded(b)
      BY <2>1, <3>1 DEF Succeeded
    <3>3. Cardinality(T) >= Retention
      <4>1. U \subseteq T /\ T \subseteq Counted
        BY <3>1 DEF Succeeded, Counted
      <4>2. IsFiniteSet(T)
        BY <4>1, FS_Subset DEF KeepInv, SpareInv
      <4> HIDE DEF T, U
      <4> QED BY <2>1, <4>1, <4>2, EnoughStay
    <3>4. Overdue(s)
      BY <2>1, <3>2, <3>3 DEF Overdue
    <3>5. PICK w \in Workers : Due(w, s)
      BY <1>3, <1>4, <3>4 DEF KeepInv, DueInv
    <3>6. DueStep(w, s)
      BY NextLists DEF PruneOK
    <3> QED BY <1>4, <3>4, <3>5, <3>6 DEF DueStep
  <2> QED BY <2>2, <2>3
<1> QED BY <1>1, <1>3, <1>4 DEF KeepInv, DueInv

\* A base at rest holds nothing beyond the newest Retention but what a restore
\* was recorded of.
THEOREM RestingBasesPruned == Spec => []RetentionHolds
<1>1. Init => KeepInv
  <2>1. ASSUME Init PROVE Counted = {} /\ \A b : Succeeded(b) = {}
    BY <2>1, JobConstants DEF Init, JobsInit, Counted, Succeeded, NoRow, Row
  <2>2. ASSUME Init, NEW w \in Workers PROVE work[w] = Idle /\ erase[w] = NoErase
    BY <2>2 DEF Init, JobsInit, Threads
  <2>3. Init => RestoreInv /\ CrashInv
    BY DEF Init, JobsInit, RestoreInv, CrashInv, RestoreRow
  <2> QED BY <2>1, <2>2, <2>3, FS_EmptySet
          DEF KeepInv, SpareInv, DueInv, Overdue, Idle, NoErase
<1>2. Inv /\ KeepInv /\ [Next]_vars => KeepInv'
  BY KeepNext
<1>3. ASSUME Inv, KeepInv PROVE RetentionHolds
  <2> SUFFICES ASSUME Healthy, NEW b \in Bases, inFlight[b] = NoSnap, NEW s \in Succeeded(b),
                      ~(Cardinality({t \in Succeeded(b) : t > s}) < Retention),
                      ~Restored(s)
               PROVE  FALSE
    BY DEF RetentionHolds, Healthy, Restored
  <2> DEFINE T == {t \in Succeeded(b) : t > s}
  <2>1. s \in Snaps /\ BaseOf[s] = b
    BY JobConstants DEF Succeeded
  <2>2. Cardinality(T) \in Nat
    <3>1. T \subseteq Counted
      BY DEF Succeeded, Counted
    <3> HIDE DEF T
    <3> QED BY <1>3, <3>1, FS_Subset, FS_CardinalityType DEF KeepInv, SpareInv
  <2>3. Overdue(s)
    BY <2>1, <2>2, JobConstants DEF Overdue
  <2>4. PICK w \in Workers : Due(w, s)
    BY <1>3, <2>1, <2>3 DEF KeepInv, DueInv
  <2>5. WorkOK(w)
    BY <1>3, <2>4 DEF Due, Inv, IInv, WorkInv
  <2> QED BY <2>1, <2>4, <2>5, JobConstants DEF Due, WorkOK, NoSnap
<1>4. Inv /\ KeepInv => RetentionHolds
  BY <1>3
<1> QED BY <1>1, <1>2, <1>4, Inductive, PTL DEF Spec

-----------------------------------------------------------------------------
(* Nothing is left pending *)

\* Something will finish the row of s.
Tracked(s) == snapshot[s].status \in Active => Job(s) \/ call[s] = "full"

\* Something will finish the row of restore r.
RestoreTracked(r) ==
  restore[r].status \in Active =>
    \/ rcall[r] \in {"inserted", "full"}
    \/ InRestoreQueue(r)
    \/ rwork.restore = r

\* A step of which no call failed.
NoFault == faults' = 0

LEMMA NoFailedCall ==
  ASSUME IInv, NoFault
  PROVE  ~Fault /\ \A s, row : ~WriteFails(s, row)
<1>1. faults \in Nat
  BY JobConstants DEF IInv, TypeOK, JobsTypeOK
<1>2. ~Fault
  BY <1>1 DEF Fault, NoFault
<1> QED BY <1>2 DEF WriteFails

\* An Enqueue call hands its row on, or fails it.
LEMMA EnqueueTracks ==
  ASSUME IInv, NEW e \in Snaps, Reserve(e) \/ EnqueueStep(e), NoFault,
         NEW s \in Snaps, Tracked(s)
  PROVE  Tracked(s)'
<1>1. /\ snapshot \in [Snaps -> Rows] /\ call \in [Snaps -> Calls]
      /\ queue \in Seq(Snaps) /\ faults \in Nat
  BY JobConstants DEF IInv, TypeOK, JobsTypeOK
<1>2. UNCHANGED work
  BY DEF Reserve, EnqueueStep, Insert, InsertFails, Send, SendFull, FailRow
<1>3. Executing(s)' <=> Executing(s)
  BY <1>2 DEF Executing
<1>4. CASE Reserve(e)
  BY <1>1, <1>3, <1>4 DEF Reserve, SetCall, Tracked, Job, Calling, Queued
<1>5. CASE Insert(e)
  BY <1>1, <1>3, <1>5 DEF Insert, SetCall, Write, Tracked, Job, Calling, Queued
<1>6. CASE InsertFails(e)
  BY <1>1, <1>6 DEF InsertFails, WriteFails, Fault, NoFault
<1>7. CASE Send(e)
  <2>1. /\ queue' = Append(queue, e)
        /\ call' = [call EXCEPT ![e] = "done"]
        /\ UNCHANGED snapshot
    BY <1>7 DEF Send, SetCall
  <2>2. Queued(s) => Queued(s)'
    <3>1. ASSUME NEW i \in 1..Len(queue) PROVE i \in 1..Len(queue') /\ queue'[i] = queue[i]
      BY <1>1, <2>1
    <3> QED BY <3>1 DEF Queued
  <2>3. Queued(e)'
    <3>1. Len(queue') = Len(queue) + 1 /\ queue'[Len(queue) + 1] = e /\ Len(queue) \in Nat
      BY <1>1, <2>1
    <3>2. Len(queue) + 1 \in 1..Len(queue')
      BY <3>1
    <3> QED BY <3>1, <3>2 DEF Queued
  <2>4. s # e => call'[s] = call[s]
    BY <1>1, <2>1
  <2> QED BY <1>3, <2>1, <2>2, <2>3, <2>4 DEF Tracked, Job, Calling
<1>8. CASE SendFull(e)
  BY <1>1, <1>3, <1>8 DEF SendFull, SetCall, Tracked, Job, Calling, Queued
<1>9. CASE FailRow(e)
  <2>1. snapshot' = [snapshot EXCEPT ![e] = Row("failed", FALSE)]
    BY <1>9, NoFailedCall DEF FailRow, Write
  <2>2. /\ s # e => snapshot'[s] = snapshot[s]
        /\ snapshot'[e].status = "failed"
    BY <1>1, <2>1 DEF Row
  <2>3. UNCHANGED queue /\ (s # e => call'[s] = call[s])
    BY <1>1, <1>9 DEF FailRow, SetCall
  <2> QED BY <1>3, <2>2, <2>3 DEF Tracked, Job, Calling, Queued, Active
<1> QED BY <1>4, <1>5, <1>6, <1>7, <1>8, <1>9 DEF EnqueueStep

\* A worker moves on or returns, and then its row is finished.
LEMMA WorkerTracks ==
  ASSUME IInv, NEW w \in Workers, UNCHANGED <<queue, call>>, work[w].at # "idle",
         \A v \in Workers : v # w => work'[v] = work[v],
         \/ work'[w].at # "idle" /\ work'[w].snap = work[w].snap
         \/ snapshot'[work[w].snap].status \notin Active,
         NEW s \in Snaps, Tracked(s),
         s # work[w].snap => snapshot'[s] = snapshot[s]
  PROVE  Tracked(s)'
<1>1. CASE s = work[w].snap
  <2>1. s # s \/ Executing(s)' \/ snapshot'[s].status \notin Active
    BY <1>1 DEF Executing
  <2> QED BY <2>1 DEF Tracked, Job
<1>2. CASE s # work[w].snap
  <2>1. Executing(s) => Executing(s)'
    BY <1>2 DEF Executing
  <2> QED BY <1>2, <2>1 DEF Tracked, Job, Calling, Queued
<1> QED BY <1>1, <1>2

LEMMA ExecuteTracks ==
  ASSUME IInv, NEW w \in Workers, ExecuteStep(w), NoFault, conn' = conn,
         NEW s \in Snaps, Tracked(s)
  PROVE  Tracked(s)'
<1>1. /\ snapshot \in [Snaps -> Rows] /\ work \in [Workers -> Jobs]
      /\ queue \in Seq(Snaps) /\ faults \in Nat /\ TypeOK
  BY JobConstants DEF IInv, TypeOK, JobsTypeOK
<1>2. CASE Take(w)
  <2>1. /\ queue # <<>> /\ queue' = Tail(queue) /\ work[w].at = "idle"
        /\ work'[w].at = "loaded" /\ work'[w].snap = Head(queue)
        /\ \A v \in Workers : v # w => work'[v] = work[v]
        /\ UNCHANGED <<snapshot, call>>
    BY <1>1, <1>2 DEF Take
  <2>2. Executing(s) => Executing(s)'
    BY <2>1 DEF Executing
  <2>3. Queued(s) => Queued(s)' \/ Executing(s)'
    <3> SUFFICES ASSUME NEW i \in 1..Len(queue), queue[i] = s
                 PROVE  Queued(s)' \/ Executing(s)'
      BY DEF Queued
    <3>1. CASE i = 1
      BY <1>1, <2>1, <3>1 DEF Executing
    <3>2. CASE i # 1
      <4>1. i - 1 \in 1..Len(queue') /\ queue'[i - 1] = s
        BY <1>1, <2>1, <3>2
      <4> QED BY <4>1 DEF Queued
    <3> QED BY <3>1, <3>2
  <2> QED BY <2>1, <2>2, <2>3 DEF Tracked, Job, Calling
<1>3. CASE LookupFails(w)
  BY <1>1, <1>3 DEF LookupFails, Fault, NoFault
<1>4. ASSUME work[w].at # "idle" PROVE WorkOK(w)
  BY <1>4 DEF IInv, WorkInv
<1>5. CASE StartRun(w)
  <2>1. /\ work[w].at = "loaded" /\ UNCHANGED <<queue, call>>
        /\ snapshot' = [snapshot EXCEPT ![work[w].snap] = Row("running", FALSE)]
        /\ \E step \in {"building", "failing"} : Goto(w, step)
    BY <1>5 DEF StartRun, Write
  <2>2. /\ work'[w].at # "idle" /\ work'[w].snap = work[w].snap
        /\ \A v \in Workers : v # w => work'[v] = work[v]
    BY <1>1, <2>1, GotoFacts DEF Steps
  <2> QED BY <1>1, <2>1, <2>2, WorkerTracks
<1>6. CASE StartRunFails(w) \/ FinishFails(w) \/ PutFails(w)
  BY <1>6, NoFailedCall DEF StartRunFails, FinishFails, PutFails
<1>7. CASE Capture(w) \/ CaptureFails(w)
  <2>1. /\ work[w].at = "building" /\ UNCHANGED <<queue, call, snapshot>>
        /\ \E step \in {"captured", "failing"} : Goto(w, step)
    BY <1>7 DEF Capture, CaptureFails
  <2>2. /\ work'[w].at # "idle" /\ work'[w].snap = work[w].snap
        /\ \A v \in Workers : v # w => work'[v] = work[v]
    BY <1>1, <2>1, GotoFacts DEF Steps
  <2> QED BY <2>1, <2>2, WorkerTracks
<1>8. CASE Finish(w)
  <2>1. /\ work[w].at \in {"captured", "failing"} /\ UNCHANGED <<queue, call>>
        /\ snapshot' = [snapshot EXCEPT ![work[w].snap] = FinishRow(w)]
        /\ Return(w) \/ \E step : Goto(w, step)
    BY <1>8 DEF Finish, Write
  <2>2. \A v \in Workers : v # w => work'[v] = work[v]
    BY <1>1, <2>1 DEF Return, Goto
  <2>3. snapshot'[work[w].snap].status \notin Active
    BY <1>1, <1>4, <2>1 DEF FinishRow, Row, Active, WorkOK
  <2> QED BY <1>1, <2>1, <2>2, <2>3, WorkerTracks
<1>9. CASE RaiseAlert(w) \/ SkipRetention(w)
  <2>1. /\ work[w].at \in {"alerting", "listing"} /\ UNCHANGED <<queue, call, snapshot>>
        /\ Return(w)
    BY <1>9 DEF RaiseAlert, SkipRetention
  <2>2. \A v \in Workers : v # w => work'[v] = work[v]
    BY <1>1, <2>1 DEF Return
  <2>3. snapshot'[work[w].snap].status \notin Active
    BY <1>4, <2>1 DEF WorkOK
  <2> QED BY <2>1, <2>2, <2>3, WorkerTracks
<1>10. CASE ListVictims(w)
  <2>1. /\ work[w].at = "listing" /\ UNCHANGED <<queue, call, snapshot>>
        /\ \A v \in Workers : v # w => work'[v] = work[v]
    BY <1>1, <1>10 DEF ListVictims
  <2>2. snapshot'[work[w].snap].status \notin Active
    BY <1>4, <2>1 DEF WorkOK
  <2> QED BY <2>1, <2>2, WorkerTracks
<1> QED BY <1>2, <1>3, <1>5, <1>6, <1>7, <1>8, <1>9, <1>10 DEF ExecuteStep

\* Deletions, and retention as a whole, leave the rows of jobs alone.
LEMMA RetentionTracks ==
  ASSUME IInv, NoFault, NEW s \in Snaps, Tracked(s),
         \/ \E t \in Threads : EraseStep(t)
         \/ \E w \in Workers : Prune(w) \/ PruneFails(w) \/ PruneDone(w)
  PROVE  Tracked(s)'
<1>1. /\ snapshot \in [Snaps -> Rows] /\ work \in [Workers -> Jobs] /\ faults \in Nat
  BY JobConstants DEF IInv, TypeOK, JobsTypeOK
<1>2. ASSUME NEW t \in Threads, EraseStep(t) PROVE Tracked(s)'
  <2>1. EraseContent(t) \/ EraseRow(t)
    BY <1>1, <1>2 DEF EraseStep, EraseContentFails, EraseRowFails, WriteFails, Fault, NoFault
  <2>2. UNCHANGED <<queue, call, work>>
    BY <2>1 DEF EraseContent, EraseRow
  <2>3. snapshot'[s] \in {snapshot[s], NoRow}
    BY <1>1, <2>1 DEF EraseContent, EraseRow, Write
  <2> QED BY <2>2, <2>3 DEF Tracked, Job, Calling, Queued, Executing, NoRow, Row, Active
<1>3. ASSUME NEW w \in Workers, PruneFails(w) PROVE Tracked(s)'
  BY <1>1, <1>3 DEF PruneFails, Fault, NoFault
<1>4. ASSUME NEW w \in Workers, Prune(w) \/ PruneDone(w) PROVE Tracked(s)'
  <2>1. work[w].at = "pruning" /\ UNCHANGED <<queue, call, snapshot>>
    BY <1>4 DEF Prune, PruneDone
  <2>2. \A v \in Workers : v # w => work'[v] = work[v]
    BY <1>1, <1>4 DEF Prune, PruneDone, Return
  <2>3. snapshot'[work[w].snap].status \notin Active
    BY <2>1 DEF IInv, WorkInv, WorkOK
  <2> QED BY <2>1, <2>2, <2>3, WorkerTracks
<1> QED BY <1>2, <1>3, <1>4

\* A step in which no call failed loses sight of no restore.
LEMMA RestoreTracks ==
  ASSUME IInv, RestoreStep, NoFault, NEW r \in Restores, RestoreTracked(r)
  PROVE  RestoreTracked(r)'
<1>1. /\ restore \in [Restores -> RestoreRows] /\ rcall \in [Restores -> Calls \cup {"checked"}]
      /\ rqueue \in Seq(Restores) /\ rwork \in RestoreJobs /\ faults \in Nat
      /\ NoRestore \notin Restores
  BY JobConstants, BackupConstants DEF IInv, TypeOK, JobsTypeOK, NoRestore
<1> DEFINE Writes(q, status) == restore' = [restore EXCEPT ![q].status = status]
<1>2. ASSUME NEW q \in Restores, InsertRestore(q) PROVE RestoreTracked(r)'
  <2>1. /\ rcall' = [rcall EXCEPT ![q] = "inserted"] /\ Writes(q, "pending")
        /\ UNCHANGED <<rqueue, rwork>>
    BY <1>2 DEF InsertRestore, SetRestore, SetRCall
  <2>2. /\ r # q => restore'[r] = restore[r] /\ rcall'[r] = rcall[r]
        /\ rcall'[q] = "inserted"
    BY <1>1, <2>1
  <2> QED BY <2>1, <2>2 DEF RestoreTracked, InRestoreQueue
<1>3. ASSUME NEW q \in Restores, InsertRestoreFails(q) \/ FailRestoreFails(q)
      PROVE  RestoreTracked(r)'
  BY <1>1, <1>3 DEF InsertRestoreFails, FailRestoreFails, Fault, NoFault
<1>4. ASSUME NEW q \in Restores, SendRestore(q) PROVE RestoreTracked(r)'
  <2>1. UNCHANGED <<restore, rwork>> /\ rcall[q] = "inserted"
    BY <1>4 DEF SendRestore
  <2>2. CASE rqueue' = Append(rqueue, q) /\ SetRCall(q, "done")
    <3>1. InRestoreQueue(r) => InRestoreQueue(r)'
      <4>1. ASSUME NEW i \in 1..Len(rqueue)
            PROVE  i \in 1..Len(rqueue') /\ rqueue'[i] = rqueue[i]
        BY <1>1, <2>2
      <4> QED BY <4>1 DEF InRestoreQueue
    <3>2. InRestoreQueue(q)'
      <4>1. /\ Len(rqueue') = Len(rqueue) + 1 /\ rqueue'[Len(rqueue) + 1] = q
            /\ Len(rqueue) \in Nat
        BY <1>1, <2>2
      <4>2. Len(rqueue) + 1 \in 1..Len(rqueue')
        BY <4>1
      <4> QED BY <4>1, <4>2 DEF InRestoreQueue
    <3>3. r # q => rcall'[r] = rcall[r]
      BY <1>1, <2>2 DEF SetRCall
    <3> QED BY <2>1, <3>1, <3>2, <3>3 DEF RestoreTracked
  <2>3. CASE SetRCall(q, "full") /\ UNCHANGED rqueue
    BY <1>1, <2>1, <2>3 DEF SetRCall, RestoreTracked, InRestoreQueue
  <2> QED BY <1>4, <2>2, <2>3 DEF SendRestore
<1>5. ASSUME NEW q \in Restores, FailRestore(q) PROVE RestoreTracked(r)'
  <2>1. /\ rcall' = [rcall EXCEPT ![q] = "done"] /\ UNCHANGED <<rqueue, rwork>>
        /\ IF RestoreStored(q) THEN Writes(q, "failed") ELSE UNCHANGED restore
    BY <1>5 DEF FailRestore, SetRestore, SetRCall
  <2>2. /\ r # q => restore'[r] = restore[r] /\ rcall'[r] = rcall[r]
        /\ restore'[q].status \notin Active
    BY <1>1, <2>1 DEF RestoreStored, RestoreRows, Active
  <2> QED BY <2>1, <2>2 DEF RestoreTracked, InRestoreQueue
<1>6. CASE TakeRestore
  <2>1. /\ rwork.restore = NoRestore /\ rqueue # <<>> /\ rqueue' = Tail(rqueue)
        /\ restore[Head(rqueue)].status # "none" => rwork'.restore = Head(rqueue)
        /\ UNCHANGED <<restore, rcall>>
    BY <1>6 DEF TakeRestore, RestoreIdle, RestoreStored
  <2>2. InRestoreQueue(r) /\ restore[r].status \in Active
        => InRestoreQueue(r)' \/ rwork'.restore = r
    <3> SUFFICES ASSUME NEW i \in 1..Len(rqueue), rqueue[i] = r, restore[r].status \in Active
                 PROVE  InRestoreQueue(r)' \/ rwork'.restore = r
      BY DEF InRestoreQueue
    <3>1. CASE i = 1
      BY <1>1, <2>1, <3>1 DEF Active
    <3>2. CASE i # 1
      <4>1. i - 1 \in 1..Len(rqueue') /\ rqueue'[i - 1] = r
        BY <1>1, <2>1, <3>2
      <4> QED BY <4>1 DEF InRestoreQueue
    <3> QED BY <3>1, <3>2
  <2> QED BY <1>1, <2>1, <2>2 DEF RestoreTracked
<1>7. CASE DropRestore
  BY <1>1, <1>7 DEF DropRestore, Fault, NoFault
<1>8. CASE StartRestore
  <2> DEFINE q == rwork.restore
  <2>1. /\ rwork.at = "loaded" /\ UNCHANGED <<rqueue, rcall>>
        /\ IF RestoreStored(q) THEN Writes(q, "running") /\ rwork' = [rwork EXCEPT !.at = "started"]
                               ELSE UNCHANGED restore /\ rwork' = RestoreIdle
    BY <1>8 DEF StartRestore, SetRestore
  <2>2. CASE RestoreStored(q)
    <3>1. rwork'.restore = q /\ (r # q => restore'[r] = restore[r])
      BY <1>1, <2>1, <2>2 DEF RestoreJobs
    <3> QED BY <2>1, <3>1 DEF RestoreTracked, InRestoreQueue
  <2>3. CASE ~RestoreStored(q)
    <3>1. UNCHANGED restore /\ (r = q => restore[r].status \notin Active)
      BY <2>1, <2>3 DEF RestoreStored, Active
    <3> QED BY <2>1, <3>1 DEF RestoreTracked, InRestoreQueue
  <2> QED BY <2>2, <2>3
<1>9. CASE OpenRestore \/ EndRestore
  <2>1. UNCHANGED <<restore, rqueue, rcall>> /\ \E at : rwork' = [rwork EXCEPT !.at = at]
    BY <1>9 DEF OpenRestore, EndRestore
  <2>2. rwork'.restore = rwork.restore
    BY <1>1, <2>1 DEF RestoreJobs
  <2> QED BY <2>1, <2>2 DEF RestoreTracked, InRestoreQueue
<1>10. CASE FinishRestore
  <2> DEFINE q == rwork.restore
  <2>1. /\ UNCHANGED <<rqueue, rcall>>
        /\ IF RestoreStored(q)
           THEN \E status \in {"succeeded", "failed"} : Writes(q, status)
           ELSE UNCHANGED restore
    BY <1>1, <1>10 DEF FinishRestore, SetRestore, Fault, NoFault
  <2>2. /\ r # q => restore'[r] = restore[r]
        /\ r = q => restore'[r].status \notin Active
    BY <1>1, <2>1 DEF RestoreStored, RestoreRows, Active
  <2> QED BY <2>1, <2>2 DEF RestoreTracked, InRestoreQueue
<1> QED BY <1>2, <1>3, <1>4, <1>5, <1>6, <1>7, <1>8, <1>9, <1>10 DEF RestoreStep

\* Every step preserves that nothing is stranded.
LEMMA StrandedNext ==
  ASSUME Inv, NothingStranded, [Next]_vars
  PROVE  NothingStranded'
<1>1. IInv /\ faults \in Nat
  BY JobConstants DEF Inv, IInv, TypeOK, JobsTypeOK
<1>2. CASE Start
  <2>1. /\ \A s \in Snaps : snapshot'[s].status \notin Active
        /\ \A r \in Restores : restore'[r].status \notin Active
    BY <1>1, <1>2 DEF Start, Failed, IInv, TypeOK, JobsTypeOK, Active, Rows, RestoreRows
  <2> QED BY <2>1 DEF NothingStranded
<1>3. CASE Crash
  BY <1>3 DEF Crash, NothingStranded
<1>4. ASSUME ~Start, ~Crash, up', NoFault
      PROVE  /\ \A s \in Snaps : Tracked(s)'
             /\ \A r \in Restores : RestoreTracked(r)'
  <2>1. up /\ faults = 0
    <3>1. UNCHANGED up /\ faults' \in {faults, faults + 1}
      BY <1>4, NextHistory
    <3> QED BY <1>1, <1>4, <3>1 DEF NoFault
  <2>2. /\ \A s \in Snaps : Tracked(s)
        /\ \A r \in Restores : RestoreTracked(r)
    BY <2>1 DEF NothingStranded, Tracked, RestoreTracked
  <2>3. ASSUME UNCHANGED <<snapshot, call, queue, work>> PROVE \A s \in Snaps : Tracked(s)'
    BY <2>2, <2>3 DEF Tracked, Job, Calling, Queued, Executing
  <2>4. ASSUME UNCHANGED <<restore, rcall, rqueue, rwork>>
        PROVE  \A r \in Restores : RestoreTracked(r)'
    BY <2>2, <2>4 DEF RestoreTracked, InRestoreQueue
  <2> DEFINE Goal == /\ \A s \in Snaps : Tracked(s)'
                     /\ \A r \in Restores : RestoreTracked(r)'
  <2>5. CASE Request
    <3>1. ASSUME NEW s \in Snaps, SnapshotRequest(s) PROVE Goal
      BY <1>1, <1>4, <2>2, <2>4, <3>1, EnqueueTracks DEF SnapshotRequest, restoreVars
    <3>2. ASSUME \/ \E h \in Handlers, s \in Snaps : DeleteRequest(h, s)
                 \/ \E h \in Handlers : ListForCleanup(h)
          PROVE  Goal
      BY <2>3, <2>4, <3>2 DEF DeleteRequest, ListForCleanup, jobVars, restoreVars
    <3>3. ASSUME NEW r \in Restores, NEW s \in Snaps, RequestRestore(r, s) PROVE Goal
      <4>1. /\ restore' = [restore EXCEPT ![r].snap = s]
            /\ rcall[r] = "new" /\ rcall' = [rcall EXCEPT ![r] = "checked"]
            /\ UNCHANGED <<rqueue, rwork>> /\ UNCHANGED <<snapshot, call, queue, work>>
        BY <3>3 DEF RequestRestore, SetRCall, jobVars
      <4>2. \A q \in Restores : /\ restore'[q].status = restore[q].status
                                /\ q # r => rcall'[q] = rcall[q]
        BY <1>1, <4>1 DEF IInv, TypeOK, RestoreRows
      <4>3. \A q \in Restores : RestoreTracked(q)'
        BY <2>2, <4>1, <4>2 DEF RestoreTracked, InRestoreQueue
      <4> QED BY <2>3, <4>1, <4>3
    <3> QED BY <2>5, <3>1, <3>2, <3>3 DEF Request, Requests
  <2>6. CASE JobProgress
    <3>1. ASSUME JobStep PROVE Goal
      <4>1. UNCHANGED conn /\ UNCHANGED <<restore, rcall, rqueue, rwork>>
        BY <3>1 DEF JobStep, restoreVars
      <4>2. (\E s \in Snaps : EnqueueStep(s)) \/ (\E w \in Workers : ExecuteStep(w))
        BY <3>1 DEF JobStep, EnqueueStep
      <4> QED BY <1>1, <1>4, <2>2, <2>4, <4>1, <4>2, EnqueueTracks, ExecuteTracks
    <3>2. ASSUME NEW w \in Workers, RetentionStep(w) PROVE Goal
      <4>1. UNCHANGED <<restore, rcall, rqueue, rwork>>
        BY <3>2 DEF RetentionStep, EraseStep, EraseContent, EraseContentFails, EraseRow,
                    EraseRowFails, Prune, PruneFails, PruneDone, restoreVars
      <4> QED BY <1>1, <1>4, <2>2, <2>4, <3>2, <4>1, RetentionTracks DEF RetentionStep, Threads
    <3> QED BY <2>6, <3>1, <3>2 DEF JobProgress
  <2>7. CASE \E h \in Handlers : HandlerProgress(h)
    <3>1. PICK h \in Handlers : EraseStep(h) \/ CleanupStep(h)
      BY <2>7 DEF HandlerProgress
    <3>2. CASE EraseStep(h)
      <4>1. UNCHANGED <<restore, rcall, rqueue, rwork>>
        BY <3>2 DEF EraseStep, EraseContent, EraseContentFails, EraseRow,
                    EraseRowFails, restoreVars
      <4> QED BY <1>1, <1>4, <2>2, <2>4, <3>2, <4>1, RetentionTracks DEF Threads
    <3>3. CASE DropRestores(h)
      <4>1. \A r \in Restores : restore'[r].status = "none"
        BY <1>1, <3>3 DEF DropRestores, IInv, TypeOK, RestoreRows
      <4> QED BY <2>3, <3>3, <4>1 DEF DropRestores, jobVars, RestoreTracked, Active
    <3>4. CASE CheckRestores(h) \/ CleanNext(h) \/ DropConnection(h) \/ CleanupFails(h)
      BY <2>3, <2>4, <3>4
      DEF CheckRestores, CleanNext, DropConnection, CleanupFails, jobVars, restoreVars
    <3> QED BY <3>1, <3>2, <3>3, <3>4 DEF CleanupStep
  <2>8. CASE RestoreProgress
    <3>1. ASSUME RestoreStep PROVE UNCHANGED <<snapshot, call, queue, work>>
      BY <3>1 DEF RestoreStep, InsertRestore, InsertRestoreFails, SendRestore,
                  FailRestore, FailRestoreFails, TakeRestore, DropRestore,
                  StartRestore, OpenRestore, EndRestore, FinishRestore, jobVars
    <3> QED BY <1>1, <1>4, <2>2, <2>3, <2>8, <3>1, RestoreTracks DEF RestoreProgress
  <2>9. CASE UNCHANGED vars
    BY <2>3, <2>4, <2>9 DEF vars, jobVars, restoreVars
  <2> QED BY <1>4, <2>5, <2>6, <2>7, <2>8, <2>9 DEF Next
<1>5. ASSUME ~Start, ~Crash PROVE NothingStranded'
  BY <1>4, <1>5 DEF NothingStranded, NoFault, Tracked, RestoreTracked
<1> QED BY <1>2, <1>3, <1>5

\* As long as no call has failed since the start, every pending or running row
\* has something that will finish it.
THEOREM NothingIsStranded == Spec => []NothingStranded
<1>1. Init => NothingStranded
  BY DEF Init, JobsInit, NothingStranded, NoRow, Row, RestoreRow, Active
<1>2. Inv /\ NothingStranded /\ [Next]_vars => NothingStranded'
  BY StrandedNext
<1> QED BY <1>1, <1>2, Inductive, PTL DEF Spec

=============================================================================
