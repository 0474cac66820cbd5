-------------------------- MODULE WasabiSyncProofs --------------------------
(***************************************************************************)
(* Theorems of WasabiSync, for any connections, any number of days and any *)
(* capacity of the queue: the books of the queue, and what a deleted       *)
(* connection leaves behind.                                               *)
(***************************************************************************)
EXTENDS WasabiSync, TLAPS

\* What the worker knows of the days it works on.
WorkInv ==
  /\ day > BackfillDays
  /\ work.at # "idle" => work.conn \in Conns
  /\ work.at \in {"fetch", "save", "finish"} => work.today \in Days
  /\ work.at = "fetch" /\ ~work.state.done => work.from \in 1..work.today

\* No sync of c reaches the tables any more: what is queued of it is cancelled.
Barred(c) ==
  /\ Queued(c) => c \in cancelled
  /\ InHand(c) => work.at = "taken" /\ c \in cancelled

DyingInv == \A c \in Conns \ raced : Dying(c) => Barred(c)

\* What a deletion has wiped stays wiped.
WipedInv ==
  \A c \in Conns \ raced :
    /\ deleting[c] \in {"wiping", "wiped"} => usage[c] = {} /\ c \notin settings
    /\ deleting[c] = "wiped" => state[c] = NoState

DeletionInv == DyingInv /\ WipedInv /\ NoOrphans

IInv == TypeOK /\ WorkInv /\ PendingExact /\ DeletionInv

-----------------------------------------------------------------------------
(* The queue *)

Distinct == \A i, j \in 1..Len(queue) : queue[i].conn = queue[j].conn => i = j

LEMMA QueueGrows ==
  ASSUME queue \in Seq(Jobs), Distinct, NEW c \in Conns, NEW r \in BOOLEAN, ~Queued(c),
         queue' = Append(queue, [conn |-> c, refresh |-> r])
  PROVE  /\ queue' \in Seq(Jobs) /\ Distinct'
         /\ \A d \in Conns : Queued(d)' <=> Queued(d) \/ d = c
<1>1. [conn |-> c, refresh |-> r] \in Jobs
  BY DEF Jobs
<1>2. /\ Len(queue') = Len(queue) + 1 /\ Len(queue) \in Nat /\ queue' \in Seq(Jobs)
      /\ \A i \in 1..Len(queue) : queue'[i] = queue[i]
      /\ queue'[Len(queue) + 1] = [conn |-> c, refresh |-> r]
  BY <1>1
<1>3. \A i \in 1..Len(queue) : queue[i].conn # c
  BY DEF Queued
<1>4. Distinct'
  BY <1>2, <1>3 DEF Distinct
<1>5. \A d \in Conns : Queued(d)' <=> Queued(d) \/ d = c
  BY <1>2 DEF Queued
<1> QED BY <1>2, <1>4, <1>5

LEMMA QueueShrinks ==
  ASSUME queue \in Seq(Jobs), Distinct, queue # <<>>, queue' = Tail(queue)
  PROVE  /\ Head(queue) \in Jobs /\ Queued(Head(queue).conn)
         /\ queue' \in Seq(Jobs) /\ Distinct'
         /\ \A d \in Conns : Queued(d)' <=> Queued(d) /\ d # Head(queue).conn
<1>1. Len(queue) \in Nat \ {0} /\ Len(queue') = Len(queue) - 1 /\ Head(queue) = queue[1]
  OBVIOUS
<1>2. \A i \in 1..Len(queue') : queue'[i] = queue[i + 1]
  OBVIOUS
<1>3. Head(queue) \in Jobs /\ Queued(Head(queue).conn)
  BY <1>1 DEF Queued
<1>4. Distinct'
  BY <1>1, <1>2 DEF Distinct
<1>5. ASSUME NEW d \in Conns PROVE Queued(d)' <=> Queued(d) /\ d # Head(queue).conn
  <2>1. ASSUME Queued(d)' PROVE Queued(d) /\ d # Head(queue).conn
    BY <1>1, <1>2, <2>1 DEF Queued, Distinct
  <2>2. ASSUME Queued(d), d # Head(queue).conn PROVE Queued(d)'
    <3>1. PICK i \in 1..Len(queue) : queue[i].conn = d
      BY <2>2 DEF Queued
    <3>2. i - 1 \in 1..Len(queue') /\ queue'[i - 1].conn = d
      BY <1>1, <1>2, <2>2, <3>1
    <3> QED BY <3>2 DEF Queued
  <2> QED BY <2>1, <2>2
<1> QED BY <1>3, <1>4, <1>5

-----------------------------------------------------------------------------

LEMMA InitInv == Init => IInv
<1> SUFFICES ASSUME Init PROVE IInv
  OBVIOUS
<1>1. TypeOK
  <2>1. NoState \in States
    BY SyncConstants DEF NoState, States
  <2>2. work \in Syncs
    BY <2>1, SyncConstants DEF Init, Idle, Syncs
  <2>3. day \in Days /\ published \in 0..MaxDay
    BY SyncConstants DEF Init, Days
  <2>4. state \in [Conns -> States]
    BY <2>1 DEF Init
  <2>5. up \in BOOLEAN
    BY DEF Init
  <2>6. /\ usage \in [Conns -> SUBSET Days] /\ skipped \in [Conns -> SUBSET Days]
        /\ conn \in [Conns -> {"none", "kept", "gone"}]
        /\ deleting \in [Conns -> {"idle", "loaded", "forgotten", "wiping", "wiped"}]
        /\ queue \in Seq(Jobs)
    BY DEF Init
  <2>7. /\ pending \subseteq Conns /\ cancelled \subseteq Conns /\ settings \subseteq Conns
        /\ running \in Conns \cup {None} /\ listed \subseteq Conns /\ catching \subseteq Conns
        /\ attempted \subseteq Conns /\ raced \subseteq Conns
    BY DEF Init
  <2> QED BY <2>2, <2>3, <2>4, <2>5, <2>6, <2>7 DEF TypeOK
<1>2. WorkInv
  BY SyncConstants DEF Init, WorkInv, Idle
<1>3. PendingExact
  BY DEF Init, PendingExact, Queued, InHand, Idle
<1>4. DeletionInv
  BY DEF Init, DeletionInv, DyingInv, Dying, Barred, WipedInv, NoOrphans, Queued, InHand, Idle
<1> QED BY <1>1, <1>2, <1>3, <1>4 DEF IInv

\* Nothing that is said of the queue or of deletions depends on the rest.
LEMMA Frame ==
  ASSUME PendingExact, DeletionInv,
         UNCHANGED <<conn, state, usage, settings, queue, pending, cancelled, running, work,
                     deleting, raced>>
  PROVE  PendingExact' /\ DeletionInv'
BY DEF PendingExact, DeletionInv, DyingInv, WipedInv, NoOrphans, Dying, Barred, Queued, InHand

\* A connection is queued, or skipped.
LEMMA EnqueueInv ==
  ASSUME IInv, NEW c \in Conns, NEW r \in BOOLEAN, Enqueue(c, r),
         UNCHANGED <<conn, state, usage, settings, running, work, deleting>>
  PROVE  /\ queue' \in Seq(Jobs) /\ pending' \subseteq Conns /\ cancelled' \subseteq Conns
         /\ raced' \subseteq Conns
         /\ PendingExact' /\ DeletionInv'
<1>1. queue \in Seq(Jobs) /\ Distinct /\ pending \subseteq Conns /\ cancelled \subseteq Conns
      /\ raced \subseteq Conns
  BY DEF IInv, TypeOK, PendingExact, Distinct
<1>2. CASE UNCHANGED <<queue, pending, cancelled, raced>>
  BY <1>1, <1>2, Frame DEF IInv
<1>3. CASE /\ c \notin pending
           /\ queue' = Append(queue, [conn |-> c, refresh |-> r])
           /\ pending' = pending \cup {c}
           /\ cancelled' = cancelled \ {c}
           /\ raced' = IF Dying(c) THEN raced \cup {c} ELSE raced
  <2>1. ~Queued(c) /\ ~InHand(c)
    BY <1>3 DEF IInv, PendingExact
  <2>2. /\ queue' \in Seq(Jobs) /\ Distinct'
        /\ \A d \in Conns : Queued(d)' <=> Queued(d) \/ d = c
    BY <1>1, <1>3, <2>1, QueueGrows
  <2>3. \A d \in Conns : InHand(d)' <=> InHand(d)
    BY DEF InHand
  <2>4. PendingExact'
    BY <1>1, <1>3, <2>1, <2>2, <2>3 DEF IInv, PendingExact, Distinct
  <2>5. \A d \in Conns : Dying(d)' <=> Dying(d)
    BY DEF Dying
  <2>6. DyingInv'
    BY <1>3, <2>2, <2>3, <2>5 DEF IInv, DeletionInv, DyingInv, Barred
  <2>7. WipedInv' /\ NoOrphans'
    BY <1>3 DEF IInv, DeletionInv, WipedInv, NoOrphans
  <2> QED BY <1>1, <1>3, <2>2, <2>4, <2>6, <2>7 DEF DeletionInv
<1> QED BY <1>2, <1>3 DEF Enqueue

\* A step of a sync writes rows of its own connection only, and that one is not
\* being deleted.
LEMMA WithinInv ==
  ASSUME IInv, work.at \notin {"idle", "taken"}, work'.at \notin {"idle", "taken"},
         work'.conn = work.conn,
         UNCHANGED <<conn, queue, pending, cancelled, running, deleting, raced>>,
         \A d \in Conns : d # work.conn =>
           /\ usage'[d] = usage[d] /\ state'[d] = state[d] /\ (d \in settings' <=> d \in settings)
  PROVE  PendingExact' /\ DeletionInv'
<1>1. \A d \in Conns : /\ (InHand(d)' <=> InHand(d)) /\ (Queued(d)' <=> Queued(d))
                       /\ (Dying(d)' <=> Dying(d))
  BY DEF InHand, Queued, Dying
<1>2. PendingExact'
  <2>1. running' = work.conn /\ work.conn = work'.conn
    BY DEF IInv, PendingExact
  <2>2. \A d \in cancelled : Queued(d)
    BY DEF IInv, PendingExact
  <2>3. \A d \in cancelled : d \in Conns
    BY DEF IInv, TypeOK
  <2> QED BY <1>1, <2>1, <2>2, <2>3 DEF IInv, PendingExact
<1>3. \A d \in Conns \ raced : Dying(d) => d # work.conn
  BY DEF IInv, DeletionInv, DyingInv, Barred, InHand
<1>4. DyingInv'
  BY <1>1, <1>3 DEF IInv, DeletionInv, DyingInv, Barred, InHand
<1>5. WipedInv' /\ NoOrphans'
  BY <1>3 DEF IInv, DeletionInv, WipedInv, NoOrphans, Dying
<1> QED BY <1>2, <1>4, <1>5 DEF DeletionInv

-----------------------------------------------------------------------------
(* The worker *)

\* The worker takes a sync off the queue.
LEMMA TakeInv == ASSUME IInv, Take PROVE IInv'
<1>1. PICK c \in Conns, r \in BOOLEAN : Head(queue) = [conn |-> c, refresh |-> r]
  <2>1. Head(queue) \in Jobs
    BY QueueShrinks DEF Take, IInv, TypeOK, PendingExact, Distinct
  <2> QED BY <2>1 DEF Jobs
<1>2. /\ work.at = "idle" /\ queue # <<>> /\ queue' = Tail(queue)
      /\ UNCHANGED <<up, day, published, conn, state, usage, settings, pending, cancelled, running,
                     listed, catching, deleting, skipped, attempted, raced>>
  BY DEF Take, Idle, time, tables, loops, history
<1>3. work' = [at |-> "taken", conn |-> c, refresh |-> r, today |-> 0, from |-> 0,
               state |-> NoState]
  BY <1>1 DEF Take, Idle
<1>4. /\ Queued(c) /\ queue' \in Seq(Jobs) /\ Distinct'
      /\ \A d \in Conns : Queued(d)' <=> Queued(d) /\ d # c
  <2>1. queue \in Seq(Jobs) /\ Distinct
    BY DEF IInv, TypeOK, PendingExact, Distinct
  <2>2. Head(queue).conn = c
    BY <1>1
  <2> QED BY <1>2, <2>1, <2>2, QueueShrinks
<1>5. \A d \in Conns : ~InHand(d) /\ (InHand(d)' <=> d = c)
  BY <1>2, <1>3 DEF InHand
<1>6. TypeOK'
  <2>1. work' \in Syncs
    BY <1>3, SyncConstants DEF Syncs, States, NoState
  <2> QED BY <1>2, <1>4, <2>1 DEF IInv, TypeOK
<1>7. WorkInv'
  BY <1>2, <1>3 DEF IInv, WorkInv
<1>8. PendingExact'
  <2>1. running' = None /\ work'.at = "taken" /\ work'.conn = c
    BY <1>2, <1>3 DEF IInv, PendingExact
  <2>2. cancelled \subseteq Conns
    BY DEF IInv, TypeOK
  <2> QED BY <1>2, <1>4, <1>5, <2>1, <2>2 DEF IInv, PendingExact, Distinct
<1>9. DyingInv'
  <2>1. \A d \in Conns : Dying(d)' <=> Dying(d)
    BY <1>2 DEF Dying
  <2> QED BY <1>2, <1>3, <1>4, <1>5, <2>1 DEF IInv, DeletionInv, DyingInv, Barred
<1>10. WipedInv' /\ NoOrphans'
  BY <1>2 DEF IInv, DeletionInv, WipedInv, NoOrphans
<1> QED BY <1>6, <1>7, <1>8, <1>9, <1>10 DEF IInv, DeletionInv

\* The sync begins, unless it was cancelled; or it ends.
LEMMA BeginInv == ASSUME IInv, Begin \/ End PROVE IInv'
<1>1. PICK c \in Conns : c = work.conn
  BY DEF Begin, End, IInv, WorkInv
<1>2. /\ work.at # "idle"
      /\ UNCHANGED <<up, day, published, conn, state, usage, settings, queue,
                     listed, catching, deleting, skipped, attempted, raced>>
  BY DEF Begin, End, time, tables, loops, history
<1>3. \A d \in Conns : /\ (InHand(d) <=> d = c) /\ (Queued(d)' <=> Queued(d))
                       /\ (Dying(d)' <=> Dying(d))
  BY <1>1, <1>2 DEF InHand, Queued, Dying
<1>4. ~Queued(c) /\ c \in pending
  BY <1>3 DEF IInv, PendingExact
<1>5. WipedInv' /\ NoOrphans'
  BY <1>2 DEF IInv, DeletionInv, WipedInv, NoOrphans
<1>6. cancelled \subseteq Conns /\ pending \subseteq Conns /\ work \in Syncs
  BY DEF IInv, TypeOK
<1>7. CASE /\ work.at = "taken" /\ c \notin cancelled
           /\ running' = c /\ Continue("begun")
           /\ UNCHANGED <<pending, cancelled>>
  <2>1. work'.at = "begun" /\ work'.conn = c /\ work' \in Syncs
    BY <1>1, <1>6, <1>7 DEF Syncs, Continue, Goes
  <2>2. TypeOK' /\ WorkInv'
    BY <1>2, <1>7, <2>1 DEF IInv, TypeOK, WorkInv
  <2>3. \A d \in Conns : InHand(d)' <=> d = c
    BY <2>1 DEF InHand
  <2>4. PendingExact'
    BY <1>2, <1>3, <1>6, <1>7, <2>1, <2>3 DEF IInv, PendingExact
  <2>5. DyingInv'
    BY <1>2, <1>3, <1>7, <2>1, <2>3 DEF IInv, DeletionInv, DyingInv, Barred
  <2> QED BY <1>5, <2>2, <2>4, <2>5 DEF IInv, DeletionInv
<1>8. CASE /\ work' = Idle /\ running' = None /\ pending' = pending \ {c}
           /\ cancelled' = cancelled \ {c}
  <2>1. work'.at = "idle" /\ work' \in Syncs
    BY <1>8, SyncConstants DEF Syncs, Idle, States, NoState
  <2>2. TypeOK' /\ WorkInv'
    BY <1>2, <1>6, <1>8, <2>1 DEF IInv, TypeOK, WorkInv
  <2>3. \A d \in Conns : ~InHand(d)'
    BY <2>1 DEF InHand
  <2>4. PendingExact'
    BY <1>2, <1>3, <1>4, <1>6, <1>8, <2>1, <2>3 DEF IInv, PendingExact
  <2>5. DyingInv'
    BY <1>2, <1>3, <1>4, <1>8, <2>1, <2>3 DEF IInv, DeletionInv, DyingInv, Barred
  <2> QED BY <1>5, <2>2, <2>4, <2>5 DEF IInv, DeletionInv
<1>9. End => c \notin cancelled
  BY <1>1, <1>4 DEF End, IInv, PendingExact
<1>10. Begin /\ c \in cancelled => running' = None
  BY <1>1 DEF Begin, IInv, PendingExact
<1> QED BY <1>1, <1>7, <1>8, <1>9, <1>10 DEF Begin, End

\* The steps of a sync.
LEMMA RunInv ==
  ASSUME IInv, work.at \notin {"idle", "taken"},
         NEW at \in {"begun", "loaded", "fetch", "save", "finish", "report", "settings", "keep",
                     "end"},
         NEW today \in 0..MaxDay, NEW from \in Int, NEW s \in States,
         Goes(at, today, from, s), RunUnchanged,
         at \in {"fetch", "save", "finish"} => today \in Days,
         at = "fetch" /\ ~s.done => from \in 1..today,
         usage' \in [Conns -> SUBSET Days], state' \in [Conns -> States],
         settings' \subseteq Conns, skipped' \in [Conns -> SUBSET Days],
         \A d \in Conns : d # work.conn =>
           /\ usage'[d] = usage[d] /\ state'[d] = state[d] /\ (d \in settings' <=> d \in settings)
  PROVE  IInv'
<1>1. work \in Syncs /\ work.conn \in Conns
  BY DEF IInv, TypeOK, WorkInv
<1>2. /\ work'.at = at /\ work'.conn = work.conn /\ work'.today = today /\ work'.from = from
      /\ work'.state = s /\ work' \in Syncs
  BY <1>1 DEF Goes, Syncs
<1>3. UNCHANGED <<up, day, published, conn, queue, pending, cancelled, running, listed, catching,
                  deleting, attempted, raced>>
  BY DEF RunUnchanged, time, queueVars, loops
<1>4. TypeOK'
  BY <1>2, <1>3 DEF IInv, TypeOK
<1>5. WorkInv'
  BY <1>1, <1>2, <1>3 DEF IInv, WorkInv
<1>6. PendingExact' /\ DeletionInv'
  BY <1>2, <1>3, WithinInv
<1> QED BY <1>4, <1>5, <1>6 DEF IInv

\* Those that write no table and keep the days they work on.
LEMMA ContinueInv ==
  ASSUME IInv, work.at \notin {"idle", "taken"}, RunUnchanged, UNCHANGED <<tables, skipped>>,
         NEW at \in {"begun", "loaded", "report", "end"}, Continue(at)
  PROVE  IInv'
<1>1. work.today \in 0..MaxDay /\ work.from \in Int /\ work.state \in States
  BY DEF IInv, TypeOK, Syncs
<1>2. UNCHANGED <<usage, state, settings>>
  BY DEF tables
<1> QED BY <1>1, <1>2, RunInv DEF Continue, IInv, TypeOK

LEMMA SyncedIn == ASSUME NEW s \in States, day \in Days PROVE Synced(s) \in States
BY SyncConstants DEF Synced, States, Days

LEMMA LoadInv == ASSUME IInv, Load \/ SaveFails \/ Report PROVE IInv'
<1>1. work.at \notin {"idle", "taken"} /\ RunUnchanged /\ UNCHANGED <<tables, skipped>>
  BY DEF Load, SaveFails, Report
<1>2. Continue("loaded") \/ Continue("report") \/ Continue("end")
  BY DEF Load, SaveFails, Report
<1> QED BY <1>1, <1>2, ContinueInv

LEMMA LoadStateInv == ASSUME IInv, LoadState PROVE IInv'
<1> DEFINE s == Started(state[work.conn])
           from == IF s.done THEN PullStart(s, day, work.refresh) ELSE BackfillStart(s)
<1>1. /\ work.conn \in Conns /\ state[work.conn] \in States /\ day \in Days /\ day > BackfillDays
      /\ work \in Syncs
  BY DEF LoadState, IInv, TypeOK, WorkInv
<1>2. /\ s \in States
      /\ ~s.done => s.from \in 1..MaxDay
  BY <1>1, SyncConstants DEF Started, States, Days
<1>3. from \in Int /\ (~s.done => from >= 1)
  BY <1>1, <1>2, SyncConstants DEF PullStart, BackfillStart, States, Days
<1>4. /\ work.at = "loaded" /\ RunUnchanged /\ UNCHANGED <<usage, state, settings>>
      /\ IF s.done \/ from <= day THEN Goes("fetch", day, from, s)
                                  ELSE Goes("finish", day, from, Synced(s))
  BY DEF LoadState, tables
<1>5. skipped' \in [Conns -> SUBSET Days]
  <2>1. (s.last + 1 .. s.through) \subseteq Days
    BY <1>2, SyncConstants DEF States, Days
  <2>2. skipped \in [Conns -> SUBSET Days]
    BY DEF IInv, TypeOK
  <2>3. skipped' = skipped \/ skipped' = [skipped EXCEPT ![work.conn] =
                                            @ \cup ((s.last + 1 .. s.through) \ usage[work.conn])]
    BY DEF LoadState
  <2> QED BY <2>1, <2>2, <2>3
<1>6. /\ usage \in [Conns -> SUBSET Days] /\ state \in [Conns -> States] /\ settings \subseteq Conns
      /\ day \in 0..MaxDay
  BY <1>1, SyncConstants DEF IInv, TypeOK, Days
<1>7. Synced(s) \in States
  BY <1>1, <1>2, SyncedIn
<1> HIDE DEF s, from
<1>8. CASE s.done \/ from <= day
  <2>1. Goes("fetch", day, from, s)
    BY <1>4, <1>8
  <2>2. ~s.done => from \in 1..day
    BY <1>1, <1>3, <1>8 DEF Days
  <2> QED BY <1>1, <1>2, <1>3, <1>4, <1>5, <1>6, <2>1, <2>2, RunInv
<1>9. CASE ~(s.done \/ from <= day)
  <2>1. Goes("finish", day, from, Synced(s))
    BY <1>4, <1>9
  <2> QED BY <1>1, <1>3, <1>4, <1>5, <1>6, <1>7, <2>1, RunInv
<1> QED BY <1>8, <1>9

LEMMA FetchInv == ASSUME IInv, Fetch PROVE IInv'
<1> DEFINE days == Available(work.from, FetchEnd)
           s == [work.state EXCEPT !.last = Newest(days, @)]
<1>1. /\ work.conn \in Conns /\ day \in Days /\ work \in Syncs /\ work.today \in Days
      /\ ~work.state.done => work.from \in 1..work.today
      /\ work.state \in States /\ work.from \in Int
  BY DEF Fetch, IInv, TypeOK, WorkInv, Syncs
<1>2. FetchEnd \in Int /\ (~work.state.done => FetchEnd \in Days)
  BY <1>1, SyncConstants DEF FetchEnd, Days
<1>3. days \subseteq Days
  BY DEF Available
<1>4. Newest(days, work.state.last) \in 0..MaxDay
  <2>1. work.state.last \in 0..MaxDay
    BY <1>1 DEF States
  <2>2. CASE ~\E d \in days : d > work.state.last
    BY <2>1, <2>2 DEF Newest
  <2>3. CASE \E d \in days : d > work.state.last
    <3>1. PICK d \in Days : work.from <= d /\ d <= FetchEnd /\ d <= published
      BY <2>3 DEF Available
    <3>2. published \in 0..MaxDay /\ work.from \in Int /\ FetchEnd \in Int
      BY <1>1, <1>2 DEF IInv, TypeOK
    <3>3. PICK m \in Int : m = IF FetchEnd <= published THEN FetchEnd ELSE published
      BY <3>2
    <3>4. m \in Days /\ work.from <= m /\ m <= FetchEnd /\ m <= published
      BY <3>1, <3>2, <3>3, SyncConstants DEF Days
    <3>5. m \in days
      BY <3>4 DEF Available
    <3>6. \A e \in days : e <= m
      BY <3>3 DEF Available
    <3>7. Newest(days, work.state.last) \in days
      BY <2>3, <3>5, <3>6 DEF Newest
    <3> QED BY <1>3, <3>7, SyncConstants DEF Days
  <2> QED BY <2>2, <2>3
<1> HIDE DEF days
<1>5. s \in States
  BY <1>1, <1>4 DEF States
<1>6. /\ work.at = "fetch" /\ RunUnchanged /\ UNCHANGED <<state, settings, skipped>>
      /\ usage' = [usage EXCEPT ![work.conn] = @ \cup days]
      /\ IF s.done
           THEN Goes("finish", work.today, work.from, Synced(s))
           ELSE Goes("save", work.today, work.from, [s EXCEPT !.through = FetchEnd])
  BY DEF Fetch, days
<1>7. /\ usage' \in [Conns -> SUBSET Days]
      /\ \A d \in Conns : d # work.conn => usage'[d] = usage[d]
  BY <1>1, <1>3, <1>6 DEF IInv, TypeOK
<1>8. /\ state \in [Conns -> States] /\ settings \subseteq Conns
      /\ skipped \in [Conns -> SUBSET Days] /\ work.today \in 0..MaxDay
  BY <1>1 DEF IInv, TypeOK, Syncs
<1>9. s.done = work.state.done
  BY <1>1 DEF States
<1> HIDE DEF s
<1>10. CASE s.done
  <2>1. Synced(s) \in States
    BY <1>1, <1>5, SyncedIn
  <2> QED BY <1>1, <1>6, <1>7, <1>8, <1>10, <2>1, RunInv
<1>11. CASE ~s.done
  <2>1. FetchEnd \in 0..MaxDay
    BY <1>2, <1>9, <1>11, SyncConstants DEF Days
  <2>2. [s EXCEPT !.through = FetchEnd] \in States
    BY <1>5, <2>1 DEF States
  <2> QED BY <1>1, <1>6, <1>7, <1>8, <1>11, <2>2, RunInv
<1> QED BY <1>10, <1>11

LEMMA FetchFailsInv == ASSUME IInv, FetchFails PROVE IInv'
<1>1. /\ work.conn \in Conns /\ work.today \in 0..MaxDay /\ work.from \in Int
      /\ work.state \in States
  BY DEF FetchFails, IInv, TypeOK, WorkInv, Syncs
<1>2. PICK days \in SUBSET Days : usage' = [usage EXCEPT ![work.conn] = @ \cup days]
  BY DEF FetchFails, Available
<1>3. /\ usage' \in [Conns -> SUBSET Days]
      /\ \A d \in Conns : d # work.conn => usage'[d] = usage[d]
  BY <1>1, <1>2 DEF IInv, TypeOK
<1>4. /\ work.at = "fetch" /\ RunUnchanged /\ UNCHANGED <<state, settings, skipped>>
      /\ Goes("report", work.today, work.from, work.state)
  BY DEF FetchFails, Continue
<1> QED BY <1>1, <1>3, <1>4, RunInv DEF IInv, TypeOK

LEMMA SaveChunkInv == ASSUME IInv, SaveChunk PROVE IInv'
<1>1. /\ work.conn \in Conns /\ work.today \in Days /\ work.from \in Int
      /\ work.state \in States /\ day \in Days /\ work.today \in 0..MaxDay
  BY DEF SaveChunk, IInv, TypeOK, WorkInv, Syncs
<1>2. /\ work.at = "save" /\ RunUnchanged /\ UNCHANGED <<usage, settings, skipped>>
      /\ state' = [state EXCEPT ![work.conn] = work.state]
      /\ IF work.state.through < work.today
           THEN Goes("fetch", work.today, work.state.through + 1, work.state)
           ELSE Goes("finish", work.today, work.from, Synced(work.state))
  BY DEF SaveChunk
<1>3. /\ state' \in [Conns -> States]
      /\ \A d \in Conns : d # work.conn => state'[d] = state[d]
  BY <1>1, <1>2 DEF IInv, TypeOK
<1>4. usage \in [Conns -> SUBSET Days] /\ settings \subseteq Conns /\ skipped \in [Conns -> SUBSET Days]
  BY DEF IInv, TypeOK
<1>5. CASE work.state.through < work.today
  <2>1. work.state.through + 1 \in 1..work.today /\ work.state.through + 1 \in Int
    BY <1>1, <1>5 DEF States, Days
  <2> QED BY <1>1, <1>2, <1>3, <1>4, <1>5, <2>1, RunInv
<1>6. CASE ~(work.state.through < work.today)
  <2>1. Synced(work.state) \in States
    BY <1>1, SyncedIn
  <2> QED BY <1>1, <1>2, <1>3, <1>4, <1>6, <2>1, RunInv
<1> QED BY <1>5, <1>6

LEMMA FinishInv == ASSUME IInv, Finish \/ LoadSettings \/ KeepSettings PROVE IInv'
<1>1. /\ work.conn \in Conns /\ work.from \in Int /\ work.state \in States
      /\ work.today \in 0..MaxDay /\ state[work.conn] \in States
  BY DEF Finish, LoadSettings, KeepSettings, IInv, TypeOK, WorkInv, Syncs
<1>2. /\ work.at \in {"finish", "settings", "keep"} /\ RunUnchanged /\ UNCHANGED <<usage, skipped>>
      /\ state' = state \/ state' = [state EXCEPT ![work.conn] = work.state]
      /\ settings' = settings \/ settings' = settings \cup {work.conn}
  BY DEF Finish, LoadSettings, KeepSettings, tables
<1>3. \/ Goes("settings", work.today, work.from, work.state)
      \/ Goes("keep", work.today, work.from, state[work.conn])
      \/ Goes("end", work.today, work.from, work.state)
  BY DEF Finish, LoadSettings, KeepSettings, Continue
<1>4. /\ state' \in [Conns -> States] /\ settings' \subseteq Conns
      /\ \A d \in Conns : d # work.conn =>
           state'[d] = state[d] /\ (d \in settings' <=> d \in settings)
  BY <1>1, <1>2 DEF IInv, TypeOK
<1>5. usage \in [Conns -> SUBSET Days] /\ skipped \in [Conns -> SUBSET Days]
  BY DEF IInv, TypeOK
<1> QED BY <1>1, <1>2, <1>3, <1>4, <1>5, RunInv

-----------------------------------------------------------------------------
(* Time, requests and the loops that queue syncs *)

\* Time passes, or connections are listed.
LEMMA TimeInv == ASSUME IInv, NextDay \/ Publish \/ QueueAll \/ Start PROVE IInv'
<1>1. UNCHANGED <<conn, state, usage, settings, queue, pending, cancelled, running, work,
                  deleting, skipped, attempted, raced>>
  BY DEF NextDay, Publish, QueueAll, Start, tables, queueVars, history
<1>2. PendingExact' /\ DeletionInv'
  BY <1>1, Frame DEF IInv
<1>3. day' \in Days /\ day' >= day /\ published' \in 0..MaxDay
  BY SyncConstants DEF NextDay, Publish, QueueAll, Start, time, IInv, TypeOK, Days
<1>4. up' \in BOOLEAN /\ listed' \subseteq Conns /\ catching' \subseteq Conns
  BY DEF NextDay, Publish, QueueAll, Start, loops, Kept, IInv, TypeOK
<1>5. TypeOK'
  BY <1>1, <1>3, <1>4 DEF IInv, TypeOK
<1>6. WorkInv'
  <2>1. day \in Int /\ day' \in Int /\ day' >= day /\ BackfillDays \in Int
    BY <1>3, SyncConstants DEF IInv, TypeOK, Days
  <2> QED BY <1>1, <2>1 DEF IInv, WorkInv
<1> QED BY <1>2, <1>5, <1>6 DEF IInv

LEMMA QueueingInv ==
  ASSUME IInv, NEW c \in Conns, Activate(c) \/ Refresh(c) \/ QueueNext(c) \/ CatchUp(c)
  PROVE  IInv'
<1>1. /\ UNCHANGED <<up, day, published, conn, state, usage, settings, running, work,
                     deleting, skipped, attempted>>
      /\ listed' \subseteq Conns /\ catching' \subseteq Conns
  BY DEF Activate, Refresh, QueueNext, CatchUp, time, tables, loops, IInv, TypeOK
<1>2. Enqueue(c, TRUE) \/ Enqueue(c, FALSE) \/ UNCHANGED <<queue, pending, cancelled, raced>>
  BY DEF Activate, Refresh, QueueNext, CatchUp
<1>3. /\ queue' \in Seq(Jobs) /\ pending' \subseteq Conns /\ cancelled' \subseteq Conns
      /\ raced' \subseteq Conns
      /\ PendingExact' /\ DeletionInv'
  <2>1. CASE UNCHANGED <<queue, pending, cancelled, raced>>
    BY <1>1, <2>1, Frame DEF IInv, TypeOK
  <2>2. CASE Enqueue(c, TRUE)
    BY <1>1, <2>2, EnqueueInv
  <2>3. CASE Enqueue(c, FALSE)
    BY <1>1, <2>3, EnqueueInv
  <2> QED BY <1>2, <2>1, <2>2, <2>3
<1>4. TypeOK'
  BY <1>1, <1>3 DEF IInv, TypeOK
<1>5. WorkInv'
  BY <1>1 DEF IInv, WorkInv
<1> QED BY <1>3, <1>4, <1>5 DEF IInv

-----------------------------------------------------------------------------
(* Deletions and crashes *)

\* A step of a deletion, or the creation of a connection, leaves the queue alone
\* but for marks on what is queued or just taken.
LEMMA DeleteFrame ==
  ASSUME IInv, NEW c \in Conns,
         UNCHANGED <<up, day, published, queue, pending, running, work, listed, catching, skipped,
                     raced>>,
         conn' \in [Conns -> {"none", "kept", "gone"}],
         deleting' \in [Conns -> {"idle", "loaded", "forgotten", "wiping", "wiped"}],
         state' \in [Conns -> States], usage' \in [Conns -> SUBSET Days],
         settings' \subseteq settings, attempted' \subseteq Conns,
         cancelled \subseteq cancelled', cancelled' \subseteq cancelled \cup {c},
         c \in cancelled' => c \in cancelled \/ (c \in pending /\ running # c),
         DeletionInv'
  PROVE  IInv'
<1>1. TypeOK'
  BY DEF IInv, TypeOK
<1>2. WorkInv'
  BY DEF IInv, WorkInv
<1>3. PendingExact'
  <2>1. \A d \in Conns : (InHand(d)' <=> InHand(d)) /\ (Queued(d)' <=> Queued(d))
    BY DEF InHand, Queued
  <2>2. c \in pending /\ running # c => Queued(c) \/ (InHand(c) /\ work.at = "taken")
    BY DEF IInv, PendingExact, InHand
  <2> QED BY <2>1, <2>2 DEF IInv, PendingExact, TypeOK
<1> QED BY <1>1, <1>2, <1>3 DEF IInv

LEMMA DeleteInv ==
  ASSUME IInv, NEW c \in Conns,
         \/ Create(c) \/ LoadForDelete(c) \/ Forget(c) \/ WipeUsage(c) \/ WipeState(c)
         \/ DeleteRow(c) \/ DeleteFails(c)
  PROVE  IInv'
<1>1. /\ UNCHANGED <<up, day, published, queue, pending, running, work, listed, catching, skipped,
                     raced>>
      /\ attempted' \subseteq Conns
  BY DEF Create, LoadForDelete, Forget, WipeUsage, WipeState, DeleteRow, DeleteFails, time,
         queueVars, loops, history, IInv, TypeOK
<1> USE DEF Create, LoadForDelete, Forget, WipeUsage, WipeState, DeleteRow, DeleteFails, tables,
            queueVars
<1>2. conn' \in [Conns -> {"none", "kept", "gone"}]
  BY DEF IInv, TypeOK
<1>3. deleting' \in [Conns -> {"idle", "loaded", "forgotten", "wiping", "wiped"}]
  BY DEF IInv, TypeOK
<1>4. usage' \in [Conns -> SUBSET Days] /\ settings' \subseteq settings
  BY DEF IInv, TypeOK
<1>5. state' \in [Conns -> States]
  <2>1. NoState \in States
    BY SyncConstants DEF NoState, States
  <2> QED BY <2>1 DEF IInv, TypeOK
<1>6. /\ cancelled \subseteq cancelled' /\ cancelled' \subseteq cancelled \cup {c}
      /\ c \in cancelled' => c \in cancelled \/ (c \in pending /\ running # c)
  OBVIOUS
<1>7. \A d \in Conns : d # c =>
        /\ deleting'[d] = deleting[d] /\ conn'[d] = conn[d] /\ usage'[d] = usage[d]
        /\ state'[d] = state[d] /\ (d \in settings' <=> d \in settings)
        /\ (d \in cancelled' <=> d \in cancelled)
  BY DEF IInv, TypeOK
<1>8. \A d \in Conns : (InHand(d)' <=> InHand(d)) /\ (Queued(d)' <=> Queued(d))
  BY <1>1 DEF InHand, Queued
<1>9. DyingInv'
  <2>1. ASSUME NEW d \in Conns \ raced, d # c, Dying(d)' PROVE Barred(d)'
    <3>1. Dying(d)
      BY <1>7, <2>1 DEF Dying
    <3> QED BY <1>1, <1>7, <1>8, <2>1, <3>1 DEF IInv, DeletionInv, DyingInv, Barred
  <2>2. ASSUME c \notin raced, Dying(c)' PROVE Barred(c)'
    <3>1. CASE Dying(c)
      BY <1>1, <1>6, <1>8, <2>2, <3>1 DEF IInv, DeletionInv, DyingInv, Barred
    <3>2. CASE ~Dying(c)
      <4>1. Forget(c) /\ running # c
        BY <2>2, <3>2 DEF Dying, IInv, TypeOK
      <4>2. c \in pending => c \in cancelled'
        BY <4>1
      <4> QED BY <1>1, <1>8, <4>1, <4>2 DEF IInv, PendingExact, Barred, InHand
    <3> QED BY <3>1, <3>2
  <2> QED BY <1>1, <2>1, <2>2 DEF DyingInv
<1>10. WipedInv'
  <2>1. ASSUME c \notin raced, deleting'[c] \in {"wiping", "wiped"}
        PROVE  /\ usage'[c] = {} /\ c \notin settings'
               /\ deleting'[c] = "wiped" => state'[c] = NoState
    <3>1. CASE Create(c)
      BY <2>1, <3>1 DEF IInv, DeletionInv, WipedInv
    <3>2. CASE WipeUsage(c) \/ WipeState(c)
      BY <2>1, <3>2 DEF IInv, TypeOK, DeletionInv, WipedInv
    <3>3. CASE LoadForDelete(c) \/ Forget(c) \/ DeleteRow(c) \/ DeleteFails(c)
      BY <2>1, <3>3 DEF IInv, TypeOK
    <3> QED BY <3>1, <3>2, <3>3
  <2> QED BY <1>1, <1>7, <2>1 DEF IInv, DeletionInv, WipedInv
<1>11. NoOrphans'
  <2>1. ASSUME c \notin raced, conn'[c] = "gone"
        PROVE  usage'[c] = {} /\ state'[c] = NoState /\ c \notin settings'
    <3>1. CASE DeleteRow(c)
      BY <2>1, <3>1 DEF IInv, DeletionInv, WipedInv
    <3>2. CASE ~DeleteRow(c)
      <4>1. conn[c] = "gone"
        BY <2>1, <3>2 DEF IInv, TypeOK
      <4>2. usage[c] = {} /\ state[c] = NoState /\ c \notin settings
        BY <2>1, <4>1 DEF IInv, DeletionInv, NoOrphans
      <4> QED BY <4>2 DEF IInv, TypeOK
    <3> QED BY <3>1, <3>2
  <2> QED BY <1>1, <1>7, <2>1 DEF IInv, DeletionInv, NoOrphans
<1>12. DeletionInv'
  BY <1>9, <1>10, <1>11 DEF DeletionInv
<1> QED BY <1>1, <1>2, <1>3, <1>4, <1>5, <1>6, <1>12, DeleteFrame

\* A crash empties the queue; the rows stay as they are.
LEMMA CrashInv == ASSUME IInv, Crash PROVE IInv'
<1>1. /\ up' = FALSE /\ queue' = <<>> /\ pending' = {} /\ cancelled' = {} /\ running' = None
      /\ work' = Idle /\ listed' = {} /\ catching' = {}
      /\ deleting' = [c \in Conns |-> "idle"]
      /\ UNCHANGED <<day, published, conn, state, usage, settings, skipped, attempted, raced>>
  BY DEF Crash, time, tables, history
<1>2. Idle \in Syncs /\ Idle.at = "idle"
  BY SyncConstants DEF Idle, Syncs, NoState, States
<1>3. TypeOK'
  <2>1. up' \in BOOLEAN
    BY <1>1
  <2>2. queue' \in Seq(Jobs)
    BY <1>1
  <2>3. deleting' \in [Conns -> {"idle", "loaded", "forgotten", "wiping", "wiped"}]
    BY <1>1
  <2> QED BY <1>1, <1>2, <2>1, <2>2, <2>3 DEF IInv, TypeOK
<1>4. WorkInv'
  BY <1>1, <1>2 DEF IInv, WorkInv
<1>5. \A c \in Conns : ~InHand(c)' /\ ~Queued(c)'
  BY <1>1, <1>2 DEF InHand, Queued
<1>6. PendingExact'
  BY <1>1, <1>2, <1>5 DEF PendingExact
<1>7. DeletionInv'
  BY <1>1, <1>5 DEF IInv, DeletionInv, DyingInv, Barred, WipedInv, NoOrphans
<1> QED BY <1>3, <1>4, <1>6, <1>7 DEF IInv

-----------------------------------------------------------------------------

LEMMA NextInv == ASSUME IInv, [Next]_vars PROVE IInv'
<1>1. CASE UNCHANGED vars
  <2>1. /\ UNCHANGED <<up, day, published, conn, state, usage, settings, queue, pending, cancelled,
                       running, work, listed, catching, deleting, skipped, attempted, raced>>
    BY <1>1 DEF vars, time, tables, queueVars, loops, history
  <2>2. PendingExact' /\ DeletionInv'
    BY <2>1, Frame DEF IInv
  <2> QED BY <2>1, <2>2 DEF IInv, TypeOK, WorkInv
<1>2. CASE Next
  BY <1>2, TimeInv, QueueingInv, DeleteInv, CrashInv, TakeInv, BeginInv, LoadInv, LoadStateInv,
     FetchInv, FetchFailsInv, SaveChunkInv, FinishInv DEF Next, Worker
<1> QED BY <1>1, <1>2

\* What the queue, the worker, the deletions and the rows say of each connection is
\* kept by every step.
THEOREM Inductive == Spec => []IInv
  BY InitInv, NextInv, PTL DEF Spec

\* Type correctness of WasabiSync.
THEOREM TypeCorrect == Spec => []TypeOK
<1>1. IInv => TypeOK
  BY DEF IInv
<1> QED BY <1>1, Inductive, PTL

\* The manager's books are exact: a connection is pending just while a sync of it
\* is queued or under way, and only once, and no cancellation outlives its sync.
THEOREM BooksAreExact == Spec => []PendingExact
<1>1. IInv => PendingExact
  BY DEF IInv
<1> QED BY <1>1, Inductive, PTL

\* A deleted connection that no sync was queued of meanwhile leaves no rows.
THEOREM NothingLeftBehind == Spec => []NoOrphans
<1>1. IInv => NoOrphans
  BY DEF IInv, DeletionInv
<1> QED BY <1>1, Inductive, PTL
-----------------------------------------------------------------------------
(* No day is lost *)

\* Only the last days, at most two, are not published; and a sync is over before
\* the day it started on is.
TimeOK ==
  /\ day - 2 <= published /\ published < day
  /\ work.today # 0 => work.today \in {day - 1, day} /\ published < work.today

\* What is said of a state of c, kept or in the worker's hands: every day from the
\* first to the last synced one is there or was skipped.
Sound(s, c) ==
  /\ s.from <= published /\ s.last <= published
  /\ s.last > 0 => s.from > 0
  /\ s.through > 0 => s.from > 0 /\ s.from <= s.last
  /\ s.done => s.through > 0
  /\ c \notin attempted =>
       \A d \in Days : s.from <= d /\ d <= s.last => d \in usage[c] \/ d \in skipped[c]

\* The same of the days between the last synced one and the next to fetch.
Behind(s, c, from) ==
  c \notin attempted =>
    \A d \in Days : s.last < d /\ s.from <= d /\ d < from => d \in usage[c] \/ d \in skipped[c]

FetchInvariant ==
  work.at = "fetch" =>
    IF work.state.done
      THEN work.from <= work.state.last
      ELSE /\ work.from = BackfillStart(work.state) /\ work.state.from > 0
           /\ work.from >= work.today \/ Behind(work.state, work.conn, work.from)

SaveInvariant ==
  work.at = "save" =>
    /\ ~work.state.done /\ work.state.through > 0
    /\ \/ work.state.through + 1 >= work.today
       \/ Behind(work.state, work.conn, work.state.through + 1)

AttemptInv ==
  \A c \in Conns : deleting[c] \in {"forgotten", "wiping", "wiped"} => c \in attempted

DayInv ==
  /\ TimeOK /\ AttemptInv
  /\ \A c \in Conns : Sound(state[c], c)
  /\ work.at \in {"fetch", "save", "finish", "keep"} => Sound(work.state, work.conn)
  /\ FetchInvariant /\ SaveInvariant

Grows ==
  /\ published <= published' /\ attempted \subseteq attempted'
  /\ \A c \in Conns \ attempted' : usage[c] \subseteq usage'[c] /\ skipped[c] \subseteq skipped'[c]

LEMMA SoundKept ==
  ASSUME IInv, IInv', Grows, NEW s \in States, NEW c \in Conns, Sound(s, c)
  PROVE  Sound(s, c)'
<1>1. published \in Int /\ published' \in Int /\ published <= published'
  BY DEF Grows, IInv, TypeOK
<1>2. s.from \in Int /\ s.last \in Int
  BY DEF States
<1>3. s.from <= published' /\ s.last <= published'
  BY <1>1, <1>2 DEF Sound
<1> QED BY <1>3 DEF Grows, Sound

LEMMA BehindKept ==
  ASSUME Grows, NEW s \in States, NEW c \in Conns, NEW from \in Int, Behind(s, c, from)
  PROVE  Behind(s, c, from)'
BY DEF Grows, Behind

LEMMA NoStateSound == ASSUME IInv, NEW c \in Conns PROVE Sound(NoState, c)
BY SyncConstants DEF Sound, NoState, IInv, TypeOK, Days

LEMMA InitDays == ASSUME Init, BackfillDays >= 2 PROVE DayInv
<1>1. TimeOK
  BY SyncConstants DEF Init, TimeOK, Idle
<1>2. AttemptInv
  BY DEF Init, AttemptInv
<1>3. ASSUME NEW c \in Conns PROVE Sound(state[c], c)
  BY InitInv, NoStateSound DEF Init
<1>4. work.at = "idle"
  BY DEF Init, Idle
<1> QED BY <1>1, <1>2, <1>3, <1>4 DEF DayInv, FetchInvariant, SaveInvariant

\* Steps that leave the worker alone, or give it nothing to fetch.
LEMMA OtherDays ==
  ASSUME IInv, IInv', DayInv, Grows, TimeOK', AttemptInv',
         \A c \in Conns : state'[c] = state[c] \/ state'[c] = NoState,
         work' = work \/ work'.at \notin {"fetch", "save", "finish", "keep"}
  PROVE  DayInv'
<1>1. ASSUME NEW c \in Conns PROVE Sound(state[c], c)'
  <2>1. PICK s \in States : s = state'[c]
    BY DEF IInv, TypeOK
  <2>2. Sound(s, c)
    BY <2>1, NoStateSound DEF DayInv
  <2> QED BY <2>1, <2>2, SoundKept DEF Sound
<1>2. CASE work' = work /\ work.at \in {"fetch", "save", "finish", "keep"}
  <2>1. PICK s \in States, c \in Conns, from \in Int :
          s = work.state /\ c = work.conn /\ from = work.from
    BY <1>2 DEF IInv, TypeOK, WorkInv, Syncs
  <2>2. Sound(s, c)'
    BY <1>2, <2>1, SoundKept DEF DayInv
  <2>3. s.through + 1 \in Int
    BY DEF States
  <2>4. /\ Behind(s, c, from) => Behind(s, c, from)'
        /\ Behind(s, c, s.through + 1) => Behind(s, c, s.through + 1)'
    BY <2>3, BehindKept
  <2>5. Sound(work.state, work.conn)'
    BY <1>2, <2>1, <2>2 DEF Sound
  <2>6. FetchInvariant'
    BY <1>2, <2>1, <2>4 DEF DayInv, FetchInvariant, BackfillStart, Behind
  <2>7. SaveInvariant'
    BY <1>2, <2>1, <2>4 DEF DayInv, SaveInvariant, Behind
  <2> QED BY <1>1, <2>5, <2>6, <2>7 DEF DayInv
<1>3. CASE work'.at \notin {"fetch", "save", "finish", "keep"}
  BY <1>1, <1>3 DEF DayInv, FetchInvariant, SaveInvariant
<1> QED BY <1>2, <1>3

\* The clock.
LEMMA ClockDays == ASSUME IInv, IInv', DayInv, NextDay \/ Publish PROVE DayInv'
<1>1. UNCHANGED <<state, usage, work, deleting, skipped, attempted>>
  BY DEF NextDay, Publish, tables, history
<1>2. Grows
  BY <1>1 DEF NextDay, Publish, Grows, IInv, TypeOK
<1>3. TimeOK'
  <2>1. day \in Int /\ published \in Int /\ work.today \in Int
    BY DEF IInv, TypeOK, Days, Syncs
  <2> QED BY <1>1, <2>1 DEF NextDay, Publish, DayInv, TimeOK
<1>4. AttemptInv'
  BY <1>1 DEF DayInv, AttemptInv
<1> QED BY <1>1, <1>2, <1>3, <1>4, OtherDays

\* Requests, loops, starts and crashes.
LEMMA RequestDays ==
  ASSUME IInv, IInv', DayInv,
         \/ \E c \in Conns :
              \/ Create(c) \/ Activate(c) \/ Refresh(c) \/ QueueNext(c) \/ CatchUp(c)
              \/ LoadForDelete(c) \/ Forget(c) \/ WipeUsage(c) \/ WipeState(c)
              \/ DeleteRow(c) \/ DeleteFails(c)
         \/ QueueAll \/ Start \/ Crash \/ Take \/ Begin \/ End
  PROVE  DayInv'
<1>1. UNCHANGED <<day, published, skipped>>
  BY DEF Create, Activate, Refresh, QueueNext, CatchUp, LoadForDelete, Forget, WipeUsage, WipeState,
         DeleteRow, DeleteFails, QueueAll, Start, Crash, Take, Begin, End, time, history
<1>2. \/ UNCHANGED work
      \/ work'.at \in {"idle", "taken"} /\ work'.today = 0
      \/ work'.at = "begun" /\ work'.today = work.today
  <2>1. CASE Crash \/ Begin \/ End
    BY <2>1 DEF Crash, Begin, End, Continue, Goes, Idle
  <2>2. CASE Take
    BY <2>2 DEF Take
  <2>3. CASE ~(Crash \/ Begin \/ End \/ Take)
    BY <2>3
       DEF Create, Activate, Refresh, QueueNext, CatchUp, LoadForDelete, Forget, WipeUsage,
           WipeState, DeleteRow, DeleteFails, QueueAll, Start
  <2> QED BY <2>1, <2>2, <2>3
<1>3. work' = work \/ work'.today \in {0, work.today}
  BY <1>2
<1>4. TimeOK'
  BY <1>1, <1>3 DEF DayInv, TimeOK
<1>5. attempted \subseteq attempted'
  BY DEF Create, Activate, Refresh, QueueNext, CatchUp, LoadForDelete, Forget, WipeUsage, WipeState,
         DeleteRow, DeleteFails, QueueAll, Start, Crash, Take, Begin, End, history
<1>6. AttemptInv'
  <2>1. CASE UNCHANGED <<deleting, attempted>>
    BY <2>1 DEF DayInv, AttemptInv
  <2>2. CASE Crash
    BY <2>2 DEF Crash, AttemptInv
  <2>3. ASSUME NEW c \in Conns,
               \/ LoadForDelete(c) \/ Forget(c) \/ WipeUsage(c) \/ WipeState(c)
               \/ DeleteRow(c) \/ DeleteFails(c)
        PROVE  AttemptInv'
    <3>1. deleting \in [Conns -> {"idle", "loaded", "forgotten", "wiping", "wiped"}]
      BY DEF IInv, TypeOK
    <3>2. \/ \E at \in {"idle", "loaded"} : deleting' = [deleting EXCEPT ![c] = at]
          \/ /\ deleting[c] \in {"forgotten", "wiping"}
             /\ \E at \in {"wiping", "wiped", "idle"} : deleting' = [deleting EXCEPT ![c] = at]
          \/ deleting' = [deleting EXCEPT ![c] = "forgotten"] /\ c \in attempted'
      BY <2>3 DEF LoadForDelete, Forget, WipeUsage, WipeState, DeleteRow, DeleteFails
    <3> QED BY <1>5, <3>1, <3>2 DEF DayInv, AttemptInv
  <2> QED BY <2>1, <2>2, <2>3
          DEF Create, Activate, Refresh, QueueNext, CatchUp, QueueAll, Start, Take, Begin, End,
              history
<1>7. \A c \in Conns \ attempted' : usage'[c] = usage[c]
  BY DEF Create, Activate, Refresh, QueueNext, CatchUp, LoadForDelete, Forget, WipeUsage, WipeState,
         DeleteRow, DeleteFails, QueueAll, Start, Crash, Take, Begin, End, tables, history, DayInv,
         AttemptInv, IInv, TypeOK
<1>8. \A c \in Conns : state'[c] = state[c] \/ state'[c] = NoState
  BY DEF Create, Activate, Refresh, QueueNext, CatchUp, LoadForDelete, Forget, WipeUsage, WipeState,
         DeleteRow, DeleteFails, QueueAll, Start, Crash, Take, Begin, End, tables, IInv, TypeOK
<1>9. Grows
  BY <1>1, <1>5, <1>7 DEF Grows, IInv, TypeOK
<1> QED BY <1>2, <1>4, <1>6, <1>8, <1>9, OtherDays

\* The steps of a sync that fetch nothing.
LEMMA QuietDays ==
  ASSUME IInv, IInv', DayInv, Load \/ SaveFails \/ Report \/ FetchFails
  PROVE  DayInv'
<1>1. /\ UNCHANGED <<day, published, state, deleting, skipped, attempted>>
      /\ work'.at \in {"loaded", "report", "end"} /\ work'.today = work.today
  BY DEF Load, SaveFails, Report, FetchFails, RunUnchanged, time, tables, Continue, Goes
<1>2. \A c \in Conns : usage[c] \subseteq usage'[c]
  <2>1. UNCHANGED usage \/ \E days : usage' = [usage EXCEPT ![work.conn] = @ \cup days]
    BY DEF Load, SaveFails, Report, FetchFails, tables
  <2> QED BY <2>1 DEF IInv, TypeOK
<1>3. Grows
  BY <1>1, <1>2 DEF Grows, IInv, TypeOK
<1>4. TimeOK' /\ AttemptInv'
  BY <1>1 DEF DayInv, TimeOK, AttemptInv
<1> QED BY <1>1, <1>3, <1>4, OtherDays

\* A sync keeps its state, or reads it back.
LEMMA StateDays ==
  ASSUME IInv, IInv', DayInv, Finish \/ LoadSettings \/ KeepSettings
  PROVE  DayInv'
<1>1. /\ UNCHANGED <<day, published, usage, deleting, skipped, attempted>>
      /\ work'.at \in {"settings", "keep", "end"} /\ work'.today = work.today
      /\ work'.conn = work.conn
      /\ work'.at = "keep" => work'.state = state[work.conn]
      /\ \/ UNCHANGED state
         \/ work.at \in {"finish", "keep"} /\ state' = [state EXCEPT ![work.conn] = work.state]
  BY DEF Finish, LoadSettings, KeepSettings, RunUnchanged, time, tables, Continue, Goes
<1>2. Grows
  BY <1>1 DEF Grows, IInv, TypeOK
<1>3. TimeOK' /\ AttemptInv'
  BY <1>1 DEF DayInv, TimeOK, AttemptInv
<1>4. work.conn \in Conns /\ work.state \in States
  BY <1>1 DEF Finish, LoadSettings, KeepSettings, IInv, TypeOK, WorkInv, Syncs
<1>5. ASSUME NEW c \in Conns PROVE Sound(state[c], c)'
  <2>1. PICK s \in States : s = state'[c]
    BY DEF IInv, TypeOK
  <2>2. Sound(s, c)
    BY <1>1, <1>4, <2>1 DEF DayInv, IInv, TypeOK
  <2> QED BY <1>2, <2>1, <2>2, SoundKept DEF Sound
<1>6. work'.at = "keep" => Sound(work.state, work.conn)'
  <2>1. PICK s \in States, c \in Conns : s = state[work.conn] /\ c = work.conn
    BY <1>4 DEF IInv, TypeOK
  <2>2. Sound(s, c)'
    BY <1>2, <2>1, SoundKept DEF DayInv
  <2> QED BY <1>1, <2>1, <2>2 DEF Sound
<1> QED BY <1>1, <1>3, <1>5, <1>6 DEF DayInv, FetchInvariant, SaveInvariant

\* A chunk is saved; the next one starts where it ended.
LEMMA SaveDays == ASSUME IInv, IInv', DayInv, SaveChunk PROVE DayInv'
<1>1. PICK s \in States, c \in Conns : s = work.state /\ c = work.conn
  BY DEF SaveChunk, IInv, TypeOK, WorkInv, Syncs
<1>2. /\ work.at = "save" /\ state' = [state EXCEPT ![c] = s]
      /\ UNCHANGED <<day, published, usage, deleting, skipped, attempted>>
      /\ \/ s.through < work.today /\ Goes("fetch", work.today, s.through + 1, s)
         \/ ~(s.through < work.today) /\ Goes("finish", work.today, work.from, Synced(s))
  BY <1>1 DEF SaveChunk, RunUnchanged, time
<1>3. Grows
  BY <1>2 DEF Grows, IInv, TypeOK
<1>4. work'.conn = c /\ work'.today = work.today
  BY <1>1, <1>2 DEF Goes
<1>5. TimeOK' /\ AttemptInv'
  BY <1>2, <1>4 DEF DayInv, TimeOK, AttemptInv
<1>6. Sound(s, c) /\ Sound(s, c)'
  BY <1>1, <1>2, <1>3, SoundKept DEF DayInv
<1>7. ASSUME NEW d \in Conns PROVE Sound(state[d], d)'
  <2>1. PICK t \in States : t = state'[d]
    BY DEF IInv, TypeOK
  <2>2. Sound(t, d)
    BY <1>1, <1>2, <1>6, <2>1 DEF DayInv, IInv, TypeOK
  <2> QED BY <1>3, <2>1, <2>2, SoundKept DEF Sound
<1>8. ~s.done /\ s.through > 0 /\ (s.through + 1 >= work.today \/ Behind(s, c, s.through + 1))
  BY <1>1, <1>2 DEF DayInv, SaveInvariant
<1>9. CASE Goes("fetch", work.today, s.through + 1, s)
  <2>1. work'.at = "fetch" /\ work'.state = s /\ work'.from = s.through + 1
    BY <1>9 DEF Goes
  <2>2. s.through + 1 \in Int /\ s.from > 0
    BY <1>6, <1>8 DEF States, Sound
  <2>3. Behind(s, c, s.through + 1) => Behind(s, c, s.through + 1)'
    BY <1>3, <2>2, BehindKept
  <2>4. s.through # 0
    BY <1>8 DEF States
  <2>5. FetchInvariant'
    BY <1>4, <1>8, <2>1, <2>2, <2>3, <2>4 DEF FetchInvariant, BackfillStart, Behind
  <2> QED BY <1>4, <1>5, <1>6, <1>7, <2>1, <2>5 DEF DayInv, SaveInvariant, Sound
<1>10. CASE Goes("finish", work.today, work.from, Synced(s))
  <2>1. /\ work'.at = "finish" /\ work'.state.last = s.last /\ work'.state.from = s.from
        /\ work'.state.through = s.through
    BY <1>10 DEF Goes, Synced
  <2>2. Sound(work.state, work.conn)'
    BY <1>4, <1>6, <1>8, <2>1 DEF Sound
  <2> QED BY <1>5, <1>7, <2>1, <2>2 DEF DayInv, FetchInvariant, SaveInvariant
<1> QED BY <1>2, <1>9, <1>10

\* A sync resumes behind what was synced before, and the days between are noted.
LEMMA LoadStateDays ==
  ASSUME IInv, IInv', DayInv, LoadState, BackfillDays >= 2
  PROVE  DayInv'
<1>1. PICK c \in Conns, t \in States : c = work.conn /\ t = state[c]
  BY DEF LoadState, IInv, TypeOK, WorkInv
<1>2. PICK s : s = Started(t)
  OBVIOUS
<1>3. PICK from : from = IF s.done THEN PullStart(s, day, work.refresh) ELSE BackfillStart(s)
  OBVIOUS
<1>4. /\ UNCHANGED <<day, published, state, usage, deleting, attempted>>
      /\ \/ (s.done \/ from <= day) /\ Goes("fetch", day, from, s)
         \/ ~(s.done \/ from <= day) /\ Goes("finish", day, from, Synced(s))
      /\ skipped' = IF s.done THEN skipped
                    ELSE [skipped EXCEPT ![c] = @ \cup ((s.last + 1 .. s.through) \ usage[c])]
  BY <1>1, <1>2, <1>3 DEF LoadState, RunUnchanged, time, tables
<1>5. /\ skipped \in [Conns -> SUBSET Days] /\ published \in Int /\ day \in Int
      /\ day > BackfillDays /\ day - 2 <= published /\ published < day
  BY DEF IInv, TypeOK, WorkInv, DayInv, TimeOK, Days
<1>6. Grows
  BY <1>4, <1>5 DEF Grows, IInv, TypeOK
<1>7. /\ s \in States /\ s.last = t.last /\ s.through = t.through /\ s.done = t.done
      /\ s.from = IF t.from = 0 /\ ~t.done THEN day - BackfillDays ELSE t.from
  <2>1. day - BackfillDays \in 0..MaxDay
    BY <1>5, SyncConstants DEF IInv, TypeOK, Days
  <2>2. CASE t.from = 0 /\ ~t.done
    BY <1>2, <2>1, <2>2 DEF Started, States
  <2>3. CASE ~(t.from = 0 /\ ~t.done)
    BY <1>2, <2>3 DEF Started
  <2> QED BY <2>2, <2>3
<1>8. Sound(t, c)
  BY <1>1 DEF DayInv
<1>9. Sound(s, c)
  <2>1. CASE t.from = 0 /\ ~t.done
    <3>1. s.last = 0 /\ s.through = 0 /\ s.from > 0 /\ s.from <= published
      BY <1>5, <1>7, <1>8, <2>1, SyncConstants DEF Sound, States
    <3> QED BY <1>5, <1>7, <1>8, <2>1, <3>1 DEF Sound, Days
  <2>2. CASE ~(t.from = 0 /\ ~t.done)
    BY <1>7, <1>8, <2>2 DEF Sound
  <2> QED BY <2>1, <2>2
<1>10. Sound(s, c)'
  BY <1>6, <1>7, <1>9, SoundKept
<1>11. work'.today = day /\ work'.conn = c /\ work'.from = from
  BY <1>1, <1>4 DEF Goes
<1>12. TimeOK' /\ AttemptInv'
  BY <1>4, <1>5, <1>11 DEF DayInv, TimeOK, AttemptInv
<1>13. \A d \in Conns : Sound(state[d], d)'
  <2>1. ASSUME NEW d \in Conns PROVE Sound(state[d], d)'
    <3>1. PICK r \in States : r = state'[d]
      BY DEF IInv, TypeOK
    <3>2. Sound(r, d)
      BY <1>4, <3>1 DEF DayInv
    <3> QED BY <1>6, <3>1, <3>2, SoundKept DEF Sound
  <2> QED BY <2>1
<1>14. ~s.done => s.from > 0
  BY <1>5, <1>7, SyncConstants DEF States
<1>15. CASE (s.done \/ from <= day) /\ Goes("fetch", day, from, s)
  <2>1. work'.at = "fetch" /\ work'.state = s
    BY <1>15 DEF Goes
  <2>2. s.done => from <= s.last
    BY <1>3, <1>5, <1>7, <1>9, SyncConstants DEF PullStart, Sound, States
  <2>3. ~s.done => Behind(s, c, from)'
    <3>1. SUFFICES ASSUME ~s.done, NEW d \in Days, s.last < d, s.from <= d, d < from
                   PROVE  d \in usage'[c] \/ d \in skipped'[c]
      BY DEF Behind
    <3>2. from = BackfillStart(s)
      BY <1>3, <3>1
    <3>3. d \in s.last + 1 .. s.through
      BY <1>7, <3>1, <3>2 DEF BackfillStart, States, Days
    <3> QED BY <1>4, <1>5, <3>1, <3>3
  <2>4. FetchInvariant'
    BY <1>3, <1>11, <1>14, <2>1, <2>2, <2>3 DEF FetchInvariant, Behind, BackfillStart
  <2> QED BY <1>10, <1>11, <1>12, <1>13, <2>1, <2>4 DEF DayInv, SaveInvariant, Sound
<1>16. CASE ~(s.done \/ from <= day) /\ Goes("finish", day, from, Synced(s))
  <2>1. /\ work'.at = "finish" /\ work'.state.last = s.last /\ work'.state.from = s.from
        /\ work'.state.through = s.through
    BY <1>16 DEF Goes, Synced
  <2>2. s.through > 0
    BY <1>3, <1>5, <1>7, <1>9, <1>16 DEF BackfillStart, Sound, States
  <2>3. Sound(work.state, work.conn)'
    BY <1>10, <1>11, <2>1, <2>2 DEF Sound
  <2> QED BY <1>12, <1>13, <2>1, <2>3 DEF DayInv, FetchInvariant, SaveInvariant
<1> QED BY <1>4, <1>15, <1>16

\* What is fetched closes up with what was there, or starts after all that is
\* published.
LEMMA FetchDays == ASSUME IInv, IInv', DayInv, Fetch PROVE DayInv'
<1>1. PICK c \in Conns, t \in States, from \in Int, end \in {FetchEnd} :
        c = work.conn /\ t = work.state /\ from = work.from /\ end = FetchEnd
  BY DEF Fetch, IInv, TypeOK, WorkInv, Syncs
<1>2. PICK days : days = Available(from, end)
  OBVIOUS
<1>3. PICK last : last = Newest(days, t.last)
  OBVIOUS
<1>4. PICK s : s = [t EXCEPT !.last = last]
  OBVIOUS
<1>5. /\ UNCHANGED <<day, published, state, deleting, skipped, attempted>>
      /\ usage' = [usage EXCEPT ![c] = @ \cup days]
      /\ \/ s.done /\ Goes("finish", work.today, from, Synced(s))
         \/ ~s.done /\ Goes("save", work.today, from, [s EXCEPT !.through = end])
      /\ work.at = "fetch"
  BY <1>1, <1>2, <1>3, <1>4 DEF Fetch, RunUnchanged, time
<1>6. /\ published \in Int /\ 0 <= published /\ published <= MaxDay /\ day \in Int
      /\ work.today \in Days /\ work.today - 2 <= published /\ published < work.today
      /\ usage \in [Conns -> SUBSET Days]
  BY <1>5, SyncConstants DEF IInv, TypeOK, WorkInv, DayInv, TimeOK, Days
<1>7. Grows
  BY <1>5, <1>6 DEF Grows, IInv, TypeOK
<1>8. s.from = t.from /\ s.through = t.through /\ s.done = t.done /\ s.last = last
  BY <1>4 DEF States
<1>9. /\ Sound(t, c)
      /\ t.done => from <= t.last
      /\ ~t.done => /\ from >= 1 /\ from <= work.today /\ from = BackfillStart(t) /\ t.from > 0
                    /\ from >= work.today \/ Behind(t, c, from)
  BY <1>1, <1>5 DEF DayInv, FetchInvariant, IInv, WorkInv, Days
<1>10. /\ end \in Int /\ (~t.done => end >= from /\ end <= work.today)
       /\ t.last \in Int /\ t.from \in Int /\ t.through \in Nat
  BY <1>1, <1>6, <1>9, SyncConstants DEF FetchEnd, States, Days
<1>11. days = {d \in Days : from <= d /\ d <= end /\ d <= published}
  BY <1>2 DEF Available
<1>12. \/ last = t.last /\ \A d \in days : d <= t.last
       \/ last \in days /\ last > t.last /\ \A d \in days : d <= last
  <2>1. CASE ~\E d \in days : d > t.last
    BY <1>3, <1>10, <1>11, <2>1 DEF Newest, Days
  <2>2. CASE \E d \in days : d > t.last
    <3>1. PICK d \in days : d > t.last
      BY <2>2
    <3>2. PICK m \in Int : m = IF end <= published THEN end ELSE published
      BY <1>6, <1>10
    <3>3. d \in Int /\ from <= d /\ d <= m /\ 1 <= d /\ d <= MaxDay
      BY <1>6, <1>10, <1>11, <3>1, <3>2, SyncConstants DEF Days
    <3>4. m \in Days /\ from <= m /\ m <= end /\ m <= published
      BY <1>6, <1>10, <3>2, <3>3, SyncConstants DEF Days
    <3>5. m \in days /\ \A e \in days : e <= m
      BY <1>11, <3>2, <3>4
    <3>6. last \in days /\ \A e \in days : e <= last
      BY <1>3, <2>2, <3>5 DEF Newest
    <3>7. last \in Int /\ last >= d
      BY <1>11, <3>1, <3>6 DEF Days
    <3> QED BY <1>10, <3>1, <3>3, <3>6, <3>7
  <2> QED BY <2>1, <2>2
<1>13. last \in Int /\ last >= t.last /\ last <= published /\ \A d \in days : d <= last
  BY <1>6, <1>9, <1>10, <1>11, <1>12 DEF Sound, Days
<1>14. ASSUME c \notin attempted', NEW d \in Days, t.from <= d, d <= last
       PROVE  d \in usage'[c] \/ d \in skipped'[c]
  <2>1. usage'[c] = usage[c] \cup days /\ skipped'[c] = skipped[c] /\ c \notin attempted
    BY <1>5, <1>6, <1>14
  <2>2. d \in Int /\ d >= 1
    BY DEF Days
  <2>3. CASE d <= t.last
    BY <1>9, <1>14, <2>1, <2>3 DEF Sound
  <2>4. CASE d > t.last
    <3>1. last \in days /\ last <= end /\ last >= from
      BY <1>10, <1>11, <1>12, <1>13, <1>14, <2>2, <2>4
    <3>2. CASE d >= from
      BY <1>10, <1>11, <1>13, <1>14, <2>1, <2>2, <3>1, <3>2, <1>6
    <3>3. CASE d < from
      <4>1. ~t.done
        BY <1>9, <1>10, <2>2, <2>4, <3>3
      <4>2. ~(from >= work.today)
        BY <1>6, <1>13, <3>1 DEF Days
      <4>3. Behind(t, c, from)
        BY <1>9, <4>1, <4>2
      <4> QED BY <1>14, <2>1, <2>4, <3>3, <4>3 DEF Behind
    <3> QED BY <2>2, <3>2, <3>3
  <2> QED BY <1>10, <2>2, <2>3, <2>4
<1>15. work'.today = work.today /\ work'.conn = c
  BY <1>1, <1>5 DEF Goes
<1>16. TimeOK' /\ AttemptInv'
  BY <1>5, <1>15 DEF DayInv, TimeOK, AttemptInv
<1>17. \A d \in Conns : Sound(state[d], d)'
  <2>1. ASSUME NEW d \in Conns PROVE Sound(state[d], d)'
    <3>1. PICK r \in States : r = state'[d]
      BY DEF IInv, TypeOK
    <3>2. Sound(r, d)
      BY <1>5, <3>1 DEF DayInv
    <3> QED BY <1>7, <3>1, <3>2, SoundKept DEF Sound
  <2> QED BY <2>1
<1>18. CASE s.done /\ Goes("finish", work.today, from, Synced(s))
  <2>1. /\ work'.at = "finish" /\ work'.state.last = last /\ work'.state.from = t.from
        /\ work'.state.through = t.through /\ t.done
    BY <1>8, <1>18 DEF Goes, Synced
  <2>2. t.from > 0 /\ t.from <= t.last /\ t.from <= published /\ t.through > 0
    BY <1>9, <2>1 DEF Sound
  <2>3. t.from <= last
    BY <1>10, <1>13, <2>2
  <2>4. Sound(work.state, work.conn)'
    BY <1>5, <1>13, <1>14, <1>15, <2>1, <2>2, <2>3 DEF Sound
  <2> QED BY <1>16, <1>17, <2>1, <2>4 DEF DayInv, FetchInvariant, SaveInvariant
<1>19. CASE ~s.done /\ Goes("save", work.today, from, [s EXCEPT !.through = end])
  <2>1. /\ work'.at = "save" /\ work'.state.last = last /\ work'.state.from = t.from
        /\ work'.state.through = end /\ ~work'.state.done /\ ~t.done
    BY <1>4, <1>8, <1>19 DEF Goes, States
  <2>2. end > 0 /\ t.from > 0 /\ t.from <= published
    BY <1>9, <1>10, <2>1 DEF Sound
  <2>3. t.from <= last
    <3>1. CASE t.through = 0
      <4>1. from = t.from
        BY <1>9, <2>1, <3>1 DEF BackfillStart
      <4>2. from \in days
        BY <1>6, <1>9, <1>10, <1>11, <2>1, <2>2, <4>1, SyncConstants DEF Days
      <4> QED BY <1>13, <4>1, <4>2
    <3>2. CASE t.through > 0
      BY <1>9, <1>10, <1>13, <3>2 DEF Sound
    <3> QED BY <1>10, <3>1, <3>2
  <2>4. Sound(work.state, work.conn)'
    BY <1>5, <1>13, <1>14, <1>15, <2>1, <2>2, <2>3 DEF Sound
  <2>5. end + 1 >= work.today \/ last >= end
    <3>1. CASE end <= published
      <4>1. end \in days
        BY <1>6, <1>9, <1>10, <1>11, <2>1, <2>2, <3>1, SyncConstants DEF Days
      <4> QED BY <1>13, <4>1
    <3>2. CASE end > published
      BY <1>6, <1>10, <3>2 DEF Days
    <3> QED BY <1>6, <1>10, <3>1, <3>2
  <2>6. last >= end => Behind(work.state, work.conn, work.state.through + 1)'
    BY <1>10, <1>13, <2>1 DEF Behind, Days
  <2>7. SaveInvariant'
    BY <1>15, <2>1, <2>2, <2>5, <2>6 DEF SaveInvariant
  <2> QED BY <1>16, <1>17, <2>1, <2>4, <2>7 DEF DayInv, FetchInvariant
<1> QED BY <1>5, <1>18, <1>19

LEMMA NextDays ==
  ASSUME IInv, IInv', DayInv, [Next]_vars, BackfillDays >= 2
  PROVE  DayInv'
<1>1. CASE UNCHANGED vars
  <2>1. UNCHANGED <<day, published, state, usage, work, deleting, skipped, attempted>>
    BY <1>1 DEF vars, time, tables, history
  <2>2. Grows
    BY <2>1 DEF Grows, IInv, TypeOK
  <2>3. TimeOK' /\ AttemptInv'
    BY <2>1 DEF DayInv, TimeOK, AttemptInv
  <2> QED BY <2>1, <2>2, <2>3, OtherDays
<1>2. CASE Next
  BY <1>2, ClockDays, RequestDays, QuietDays, StateDays, SaveDays, LoadStateDays, FetchDays
     DEF Next, Worker
<1> QED BY <1>1, <1>2

\* If a backfill reaches back at least two days, no published day is lost between
\* its first day and the last synced one, but for days that were not out when a
\* backfill stopped behind them.
THEOREM EveryDayThere ==
  ASSUME BackfillDays >= 2
  PROVE  Spec => []NoDayLost
<1>1. Init => IInv /\ DayInv
  BY InitInv, InitDays
<1>2. IInv /\ DayInv /\ [Next]_vars => (IInv /\ DayInv)'
  BY NextInv, NextDays
<1>3. IInv /\ DayInv => NoDayLost
  <2> SUFFICES ASSUME IInv, DayInv, NEW c \in Conns \ attempted, state[c].last > 0
               PROVE  (state[c].from .. state[c].last) \ usage[c] \subseteq skipped[c]
    BY DEF NoDayLost
  <2>1. Sound(state[c], c) /\ state[c] \in States
    BY DEF DayInv, IInv, TypeOK
  <2>2. state[c].from .. state[c].last \subseteq Days
    BY <2>1, SyncConstants DEF Sound, States, Days
  <2>3. ASSUME NEW d \in state[c].from .. state[c].last PROVE d \in usage[c] \/ d \in skipped[c]
    BY <2>1, <2>2 DEF Sound, Days
  <2> QED BY <2>3
<1> QED BY <1>1, <1>2, <1>3, PTL DEF Spec
=============================================================================
