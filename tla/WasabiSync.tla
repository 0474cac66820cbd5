----------------------------- MODULE WasabiSync -----------------------------
(***************************************************************************)
(* The Wasabi sync manager: the queue of syncs and its one worker, the     *)
(* backfill of a new connection chunk by chunk, the daily pull and the     *)
(* refresh, the deletion of a connection beside them, crashes and starts.  *)
(* Days are numbered; 0 is the zero time.  Wasabi publishes a day's usage  *)
(* on the next day.                                                        *)
(***************************************************************************)
EXTENDS Integers, Sequences, FiniteSets

CONSTANTS Conns,        \* Wasabi connections
          BackfillDays, \* Config.BackfillDays
          RefreshDays,  \* Config.RefreshDays
          ChunkDays,    \* chunkDays
          QueueCap,     \* capacity of Manager.queue
          MaxDay,       \* the last day there is
          Deletable     \* connections that people may delete

ASSUME SyncConstants ==
  /\ BackfillDays \in Nat \ {0}
  /\ RefreshDays \in Nat \ {0}
  /\ ChunkDays \in Nat \ {0}
  /\ QueueCap \in Nat \ {0}
  /\ MaxDay \in Nat /\ MaxDay > BackfillDays
  /\ Deletable \subseteq Conns

VARIABLES
  up, day, published,
  conn,      \* the connection row
  state,     \* its wasabi_sync_states row
  usage,     \* days of its wasabi_daily_usage rows
  settings,  \* connections with wasabi_bucket_configs rows
  queue,     \* Manager.queue
  pending,   \* Manager.pending
  cancelled, \* Manager.cancelled
  running,   \* Manager.running
  work,      \* how far the worker is
  listed,    \* connections queueAll listed and has not come to
  catching,  \* the same for catchUp
  deleting,  \* the DeleteConnection request of each connection
  skipped,   \* history: days a resumed backfill starts behind
  attempted, \* history: connections whose deletion got past forget
  raced      \* history: connections queued while they were being deleted

queueVars == <<queue, pending, cancelled, running>>
loops     == <<listed, catching>>
tables    == <<state, usage, settings>>
time      == <<day, published>>
history   == <<skipped, attempted, raced>>
vars == <<up, time, conn, tables, queueVars, work, loops, deleting, history>>

None    == "none"
Days    == 1..MaxDay
NoState == [last |-> 0, from |-> 0, through |-> 0, done |-> FALSE, success |-> 0]
States  == [last : 0..MaxDay, from : 0..MaxDay, through : 0..MaxDay,
            done : BOOLEAN, success : 0..MaxDay]
Jobs    == [conn : Conns, refresh : BOOLEAN]
Syncs   == [at : {"idle", "taken", "begun", "loaded", "fetch", "save", "finish",
                  "report", "settings", "keep", "end"},
            conn : Conns \cup {None}, refresh : BOOLEAN, today : 0..MaxDay,
            from : Int, state : States]
Idle    == [at |-> "idle", conn |-> None, refresh |-> FALSE, today |-> 0,
            from |-> 0, state |-> NoState]

TypeOK ==
  /\ up \in BOOLEAN
  /\ day \in Days /\ published \in 0..MaxDay
  /\ conn \in [Conns -> {"none", "kept", "gone"}]
  /\ state \in [Conns -> States]
  /\ usage \in [Conns -> SUBSET Days]
  /\ settings \subseteq Conns
  /\ queue \in Seq(Jobs)
  /\ pending \subseteq Conns /\ cancelled \subseteq Conns
  /\ running \in Conns \cup {None}
  /\ work \in Syncs
  /\ listed \subseteq Conns /\ catching \subseteq Conns
  /\ deleting \in [Conns -> {"idle", "loaded", "forgotten", "wiping", "wiped"}]
  /\ skipped \in [Conns -> SUBSET Days]
  /\ attempted \subseteq Conns /\ raced \subseteq Conns

Init ==
  /\ up = FALSE
  /\ day = BackfillDays + 1
  /\ published = BackfillDays - 1
  /\ conn = [c \in Conns |-> "none"]
  /\ state = [c \in Conns |-> NoState]
  /\ usage = [c \in Conns |-> {}]
  /\ settings = {}
  /\ queue = <<>>
  /\ pending = {}
  /\ cancelled = {}
  /\ running = None
  /\ work = Idle
  /\ listed = {}
  /\ catching = {}
  /\ deleting = [c \in Conns |-> "idle"]
  /\ skipped = [c \in Conns |-> {}]
  /\ attempted = {}
  /\ raced = {}

-----------------------------------------------------------------------------
(* Time: a day's usage is out before the next day ends.  SyncTimeout is too
   short for a sync to see both midnight and the publication that follows. *)

NextDay ==
  /\ day < MaxDay
  /\ published = day - 1
  /\ day' = day + 1
  /\ UNCHANGED <<up, published, conn, tables, queueVars, work, loops,
                 deleting, history>>

Publish ==
  /\ published < day - 1
  /\ work.today \in {0, day}
  /\ published' = published + 1
  /\ UNCHANGED <<up, day, conn, tables, queueVars, work, loops, deleting,
                 history>>

-----------------------------------------------------------------------------
(* Queueing *)

Dying(c) == conn[c] = "gone" \/ deleting[c] \in {"forgotten", "wiping", "wiped"}

\* A connection that is queued or running is not queued again; a full queue
\* skips it.
Enqueue(c, refresh) ==
  IF c \notin pending /\ Len(queue) < QueueCap
    THEN /\ queue' = Append(queue, [conn |-> c, refresh |-> refresh])
         /\ pending' = pending \cup {c}
         /\ cancelled' = cancelled \ {c}
         /\ raced' = IF Dying(c) THEN raced \cup {c} ELSE raced
    ELSE UNCHANGED <<queue, pending, cancelled, raced>>

\* Creating a connection activates it; so does an update of its settings.
Create(c) ==
  /\ up
  /\ conn[c] = "none"
  /\ conn' = [conn EXCEPT ![c] = "kept"]
  /\ UNCHANGED <<up, time, tables, queueVars, work, loops, deleting, history>>

\* The request loaded the row before: it may be gone by now.
Activate(c) ==
  /\ up
  /\ conn[c] # "none"
  /\ Enqueue(c, FALSE)
  /\ UNCHANGED <<up, time, conn, tables, running, work, loops, deleting,
                 skipped, attempted>>

Refresh(c) ==
  /\ up
  /\ conn[c] # "none"
  /\ Enqueue(c, TRUE)
  /\ UNCHANGED <<up, time, conn, tables, running, work, loops, deleting,
                 skipped, attempted>>

Kept == {c \in Conns : conn[c] = "kept"}

\* The cron entry: list the connections, then queue each.
QueueAll ==
  /\ up
  /\ listed = {}
  /\ listed' = Kept
  /\ UNCHANGED <<up, time, conn, tables, queueVars, work, catching,
                 deleting, history>>

QueueNext(c) ==
  /\ c \in listed
  /\ listed' = listed \ {c}
  /\ Enqueue(c, FALSE)
  /\ UNCHANGED <<up, time, conn, tables, running, work, catching, deleting,
                 skipped, attempted>>

\* No backfill yet, or no success for over a day: a success of the day before
\* may be more or less than 24 hours old.
MayHaveMissed(c) == ~state[c].done \/ state[c].success < day

\* catchUp passes over a connection that missed nothing, or whose state it cannot
\* read.
CatchUp(c) ==
  /\ c \in catching
  /\ catching' = catching \ {c}
  /\ \/ MayHaveMissed(c) /\ Enqueue(c, FALSE)
     \/ UNCHANGED <<queue, pending, cancelled, raced>>
  /\ UNCHANGED <<up, time, conn, tables, running, work, listed, deleting,
                 skipped, attempted>>

-----------------------------------------------------------------------------
(* The worker *)

Take ==
  /\ up
  /\ work = Idle
  /\ queue # <<>>
  /\ queue' = Tail(queue)
  /\ work' = [at |-> "taken", conn |-> Head(queue).conn, refresh |-> Head(queue).refresh,
              today |-> 0, from |-> 0, state |-> NoState]
  /\ UNCHANGED <<up, time, conn, tables, pending, cancelled, running, loops,
                 deleting, history>>

Goes(at, today, from, s) ==
  work' = [at |-> at, conn |-> work.conn, refresh |-> work.refresh, today |-> today,
           from |-> from, state |-> s]

Continue(at) == Goes(at, work.today, work.from, work.state)

\* Under the lock: a cancelled job is dropped, another one is now running.
Begin ==
  LET c == work.conn IN
  /\ work.at = "taken"
  /\ IF c \in cancelled
       THEN /\ cancelled' = cancelled \ {c}
            /\ pending' = pending \ {c}
            /\ work' = Idle
            /\ UNCHANGED running
       ELSE /\ running' = c
            /\ Continue("begun")
            /\ UNCHANGED <<pending, cancelled>>
  /\ UNCHANGED <<up, time, conn, tables, queue, loops, deleting, history>>

RunUnchanged ==
  UNCHANGED <<up, time, conn, queueVars, loops, deleting, attempted, raced>>

\* GetByID: a connection that is gone, or cannot be read, ends the run; one
\* whose credentials or state cannot be read is reported.
Load ==
  /\ work.at = "begun"
  /\ \/ conn[work.conn] = "kept" /\ Continue("loaded")
     \/ conn[work.conn] = "kept" /\ Continue("report")
     \/ Continue("end")
  /\ RunUnchanged
  /\ UNCHANGED <<tables, skipped>>

\* Mutant: a backfill goes on with the chunk after the next one.
BackfillStartLate(s) == IF s.through = 0 THEN s.from ELSE s.through + 2

\* From where a backfill goes on.
BackfillStart(s) == IF s.through = 0 THEN s.from ELSE s.through + 1

\* From where a daily pull or a refresh starts: the last synced day, or
\* RefreshDays back when that is earlier and asked for.
PullStart(s, today, refresh) ==
  LET recent == today - (RefreshDays - 1) IN
  IF s.last = 0 \/ (refresh /\ recent < s.last) THEN recent ELSE s.last

\* A backfill's first day is set by its first run.
Started(s) ==
  IF s.from = 0 /\ ~s.done THEN [s EXCEPT !.from = day - BackfillDays] ELSE s

\* A sync that went through.
Synced(s) == [last |-> s.last, from |-> s.from, through |-> s.through, done |-> TRUE,
              success |-> day]

\* sync reads the state and the clock, once.
LoadState ==
  LET c == work.conn
      s == Started(state[c])
      from == IF s.done THEN PullStart(s, day, work.refresh) ELSE BackfillStart(s)
  IN
  /\ work.at = "loaded"
  /\ IF s.done \/ from <= day THEN Goes("fetch", day, from, s)
                               ELSE Goes("finish", day, from, Synced(s))
  /\ skipped' = IF s.done THEN skipped
                ELSE [skipped EXCEPT ![c] = @ \cup ((s.last + 1 .. s.through) \ usage[c])]
  /\ RunUnchanged
  /\ UNCHANGED tables

\* Mutant: a chunk reaches beyond today.
FetchEndWhole ==
  IF work.state.done THEN work.today ELSE work.from + ChunkDays - 1

\* The last day of the chunk, or of the pull.
FetchEnd ==
  LET to == work.from + ChunkDays - 1 IN
  IF work.state.done \/ to > work.today THEN work.today ELSE to

\* What Wasabi has of the days asked for.
Available(from, to) == {d \in Days : from <= d /\ d <= to /\ d <= published}

Newest(days, last) ==
  IF \E d \in days : d > last THEN CHOOSE d \in days : \A e \in days : e <= d ELSE last

Fetch ==
  LET c == work.conn
      days == Available(work.from, FetchEnd)
      s == [work.state EXCEPT !.last = Newest(days, @)]
  IN
  /\ work.at = "fetch"
  /\ usage' = [usage EXCEPT ![c] = @ \cup days]
  /\ IF s.done
       THEN Goes("finish", work.today, work.from, Synced(s))
       ELSE Goes("save", work.today, work.from, [s EXCEPT !.through = FetchEnd])
  /\ RunUnchanged
  /\ UNCHANGED <<state, settings, skipped>>

\* The Stats API fails, or the upsert does after some batches; or the sync ran
\* out of time.
FetchFails ==
  LET c == work.conn IN
  /\ work.at = "fetch"
  /\ \E days \in SUBSET Available(work.from, FetchEnd) :
       usage' = [usage EXCEPT ![c] = @ \cup days]
  /\ Continue("report")
  /\ RunUnchanged
  /\ UNCHANGED <<state, settings, skipped>>

\* The progress of a chunk is saved; after the last one the backfill is done.
SaveChunk ==
  LET s == work.state IN
  /\ work.at = "save"
  /\ state' = [state EXCEPT ![work.conn] = s]
  /\ IF s.through < work.today THEN Goes("fetch", work.today, s.through + 1, s)
                               ELSE Goes("finish", work.today, work.from, Synced(s))
  /\ RunUnchanged
  /\ UNCHANGED <<usage, settings, skipped>>

SaveFails ==
  /\ work.at \in {"save", "finish"}
  /\ Continue("report")
  /\ RunUnchanged
  /\ UNCHANGED <<tables, skipped>>

\* The last save of a sync; RecordStatus follows and the bucket settings.
Finish ==
  /\ work.at = "finish"
  /\ state' = [state EXCEPT ![work.conn] = work.state]
  /\ Continue("settings")
  /\ RunUnchanged
  /\ UNCHANGED <<usage, settings, skipped>>

\* RecordStatus with the error; nothing else is done.
Report ==
  /\ work.at = "report"
  /\ Continue("end")
  /\ RunUnchanged
  /\ UNCHANGED <<tables, skipped>>

\* readBucketConfigs reads the state once more.
LoadSettings ==
  /\ work.at = "settings"
  /\ \/ /\ state[work.conn] # NoState
        /\ Goes("keep", work.today, work.from, state[work.conn])
     \/ Continue("end")
  /\ RunUnchanged
  /\ UNCHANGED <<tables, skipped>>

\* Then it stores the settings, unless they cannot be listed, and writes the
\* state back with what came of it.
KeepSettings ==
  /\ work.at = "keep"
  /\ settings' \in {settings, settings \cup {work.conn}}
  /\ state' \in {state, [state EXCEPT ![work.conn] = work.state]}
  /\ Continue("end")
  /\ RunUnchanged
  /\ UNCHANGED <<usage, skipped>>

End ==
  /\ work.at = "end"
  /\ running' = None
  /\ pending' = pending \ {work.conn}
  /\ work' = Idle
  /\ UNCHANGED <<up, time, conn, tables, queue, cancelled, loops, deleting,
                 history>>

Worker ==
  \/ Take \/ Begin \/ Load \/ LoadState \/ Fetch \/ FetchFails \/ SaveChunk
  \/ SaveFails \/ Finish \/ Report \/ LoadSettings \/ KeepSettings \/ End

-----------------------------------------------------------------------------
(* Deleting a connection: Cleanup, then its row *)

LoadForDelete(c) ==
  /\ up
  /\ c \in Deletable
  /\ conn[c] = "kept"
  /\ deleting[c] = "idle"
  /\ deleting' = [deleting EXCEPT ![c] = "loaded"]
  /\ UNCHANGED <<up, time, conn, tables, queueVars, work, loops, history>>

\* Mutant: a queued sync is left alone.
ForgetRunning(c) ==
  /\ deleting[c] = "loaded"
  /\ IF running = c
       THEN /\ deleting' = [deleting EXCEPT ![c] = "idle"]
            /\ UNCHANGED attempted
       ELSE /\ deleting' = [deleting EXCEPT ![c] = "forgotten"]
            /\ attempted' = attempted \cup {c}
  /\ UNCHANGED <<up, time, conn, tables, queueVars, work, loops,
                 skipped, raced>>

\* Mutant: forget marks connections that are not queued too.
ForgetAlways(c) ==
  /\ deleting[c] = "loaded"
  /\ IF running = c
       THEN /\ deleting' = [deleting EXCEPT ![c] = "idle"]
            /\ UNCHANGED <<cancelled, attempted>>
       ELSE /\ deleting' = [deleting EXCEPT ![c] = "forgotten"]
            /\ cancelled' = cancelled \cup {c}
            /\ attempted' = attempted \cup {c}
  /\ UNCHANGED <<up, time, conn, tables, queue, pending, running, work, loops,
                 skipped, raced>>

\* forget refuses while the sync runs, and marks a queued one as cancelled.
Forget(c) ==
  /\ deleting[c] = "loaded"
  /\ IF running = c
       THEN /\ deleting' = [deleting EXCEPT ![c] = "idle"]
            /\ UNCHANGED <<cancelled, attempted>>
       ELSE /\ deleting' = [deleting EXCEPT ![c] = "forgotten"]
            /\ cancelled' = IF c \in pending THEN cancelled \cup {c} ELSE cancelled
            /\ attempted' = attempted \cup {c}
  /\ UNCHANGED <<up, time, conn, tables, queue, pending, running, work, loops,
                 skipped, raced>>

WipeUsage(c) ==
  /\ deleting[c] = "forgotten"
  /\ usage' = [usage EXCEPT ![c] = {}]
  /\ settings' \in {settings, settings \ {c}}
  /\ deleting' = [deleting EXCEPT ![c] = IF c \in settings' THEN "idle" ELSE "wiping"]
  /\ UNCHANGED <<up, time, conn, state, queueVars, work, loops, history>>

WipeState(c) ==
  /\ deleting[c] = "wiping"
  /\ state' = [state EXCEPT ![c] = NoState]
  /\ deleting' = [deleting EXCEPT ![c] = "wiped"]
  /\ UNCHANGED <<up, time, conn, usage, settings, queueVars, work, loops,
                 history>>

DeleteRow(c) ==
  /\ deleting[c] = "wiped"
  /\ conn' = [conn EXCEPT ![c] = "gone"]
  /\ deleting' = [deleting EXCEPT ![c] = "idle"]
  /\ UNCHANGED <<up, time, tables, queueVars, work, loops, history>>

\* A statement fails and the request ends.
DeleteFails(c) ==
  /\ deleting[c] \in {"forgotten", "wiping", "wiped"}
  /\ deleting' = [deleting EXCEPT ![c] = "idle"]
  /\ UNCHANGED <<up, time, conn, tables, queueVars, work, loops, history>>

-----------------------------------------------------------------------------
\* Start launches the worker and the schedule, then runs catchUp.
Start ==
  /\ ~up
  /\ up' = TRUE
  /\ catching' = Kept
  /\ UNCHANGED <<time, conn, tables, queueVars, work, listed, deleting, history>>

Crash ==
  /\ up
  /\ up' = FALSE
  /\ queue' = <<>>
  /\ pending' = {}
  /\ cancelled' = {}
  /\ running' = None
  /\ work' = Idle
  /\ listed' = {}
  /\ catching' = {}
  /\ deleting' = [c \in Conns |-> "idle"]
  /\ UNCHANGED <<time, conn, tables, history>>

Next ==
  \/ NextDay \/ Publish
  \/ \E c \in Conns :
       \/ Create(c) \/ Activate(c) \/ Refresh(c) \/ QueueNext(c) \/ CatchUp(c)
       \/ LoadForDelete(c) \/ Forget(c) \/ WipeUsage(c) \/ WipeState(c)
       \/ DeleteRow(c) \/ DeleteFails(c)
  \/ QueueAll
  \/ Worker
  \/ Start \/ Crash

Spec == Init /\ [][Next]_vars

-----------------------------------------------------------------------------
(* Properties *)

Queued(c) == \E i \in 1..Len(queue) : queue[i].conn = c
InHand(c) == work.at # "idle" /\ work.conn = c

\* pending is what is queued or in the worker's hands, each once; cancelled only
\* marks jobs that are queued or just taken.  A stale mark of either kind would
\* keep a connection from ever being synced again.
PendingExact ==
  /\ \A c \in Conns : c \in pending <=> Queued(c) \/ InHand(c)
  /\ \A i, j \in 1..Len(queue) : queue[i].conn = queue[j].conn => i = j
  /\ \A c \in Conns : Queued(c) => ~InHand(c)
  /\ \A c \in cancelled : Queued(c) \/ (InHand(c) /\ work.at = "taken")
  /\ running = IF work.at \in {"idle", "taken"} THEN None ELSE work.conn

\* Every published day from the start of the backfill to the last synced one is
\* stored, except days a resumed backfill started behind before they were out.
NoDayLost ==
  \A c \in Conns \ attempted :
    state[c].last > 0 =>
      (state[c].from .. state[c].last) \ usage[c] \subseteq skipped[c]

\* A deleted connection leaves no usage, settings or state behind, unless a sync
\* was queued while it was being deleted.
NoOrphans ==
  \A c \in Conns \ raced :
    conn[c] = "gone" => usage[c] = {} /\ state[c] = NoState /\ c \notin settings

=============================================================================
