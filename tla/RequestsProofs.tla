--------------------------- MODULE RequestsProofs ---------------------------
(***************************************************************************)
(* Theorems of what people's requests change, for any numbers of           *)
(* configurations, secrets, updates and tests of a connection, of Bases,   *)
(* saves and cleanups of their schedules, and of flows, logins, requests,  *)
(* accounts and users that sign in. First part by part, then together.     *)
(***************************************************************************)
EXTENDS MCRequests, FiniteSetTheorems, TLAPS

-----------------------------------------------------------------------------
(* A connection *)

\* What an update holds was verified as a pair: it loaded it with the row, or
\* verified it itself.
EditsVerified ==
  \A e \in Editors :
    edit[e].at # "idle" => <<edit[e].row.config, edit[e].row.secret>> \in verified

\* A run that will raise an alert is the first to do so in this outage: it read
\* ok before the outage began.
FirstToAlert ==
  \A r \in Reporters :
    \/ report[r].at = "read" /\ report[r].before = "ok" /\ conn.status = "error"
    \/ report[r].at = "set" /\ report[r].turn /\ Alerts(r)
    => alerted = 0

PairInv == ConnectionTypeOK /\ PairVerified /\ EditsVerified

AlertInv == PairInv /\ FirstToAlert /\ OncePerOutage

-----------------------------------------------------------------------------
(* Types and verified pairs *)

LEMMA PairInit == ASSUME ConnectionConstants PROVE ConnectionInit => PairInv
BY DEF ConnectionConstants, ConnectionInit, PairInv, ConnectionTypeOK, PairVerified,
       EditsVerified, Kept, Rows, Absent, Row, NoConfig, Secrets, Pairs, Statuses, NoEdit, NoTest, NoReport

Reports == [at : {"idle", "read", "set"}, before : Statuses \cup {"none"},
            outcome : Statuses, turn : BOOLEAN]

LEMMA OutdatedType ==
  ASSUME ConnectionTypeOK, NEW row PROVE Outdated(row) \in [Reporters -> Reports]
<1>1. ASSUME NEW r \in Reporters PROVE [report[r] EXCEPT !.turn = FALSE] \in Reports
  BY DEF ConnectionTypeOK, Reports
<1>2. ASSUME NEW r \in Reporters PROVE report[r] \in Reports
  BY DEF ConnectionTypeOK, Reports
<1> QED BY <1>1, <1>2 DEF Outdated

Edits == [at : {"idle", "loaded", "verified"}, row : Rows,
          asks : {"name", "config", "secret"}]

\* So does verifying a pair for an update.
LEMMA EditKeepsPair ==
  ASSUME PairInv, NEW e \in Editors, NEW new \in Edits, edit' = [edit EXCEPT ![e] = new],
         <<new.row.config, new.row.secret>> \in verified',
         verified \subseteq verified', verified' \subseteq Pairs, secrets' \in Secrets,
         UNCHANGED <<conn, test, deleting, report, alerted>>
  PROVE  PairInv'
<1>1. edit' \in [Editors -> Edits]
  BY DEF PairInv, ConnectionTypeOK, Edits
<1>2. ConnectionTypeOK'
  BY <1>1 DEF PairInv, ConnectionTypeOK, Edits
<1>3. PairVerified'
  BY DEF PairInv, PairVerified, Kept
<1>4. EditsVerified'
  BY DEF PairInv, ConnectionTypeOK, EditsVerified
<1> QED BY <1>2, <1>3, <1>4 DEF PairInv

\* Writing a row keeps what is said of the other variables.
LEMMA PutKeepsPair ==
  ASSUME PairInv, NEW row \in Rows, Put(row), <<row.config, row.secret>> \in verified,
         report' \in [Reporters -> Reports],
         edit' \in [Editors -> Edits],
         \A e \in Editors : edit'[e] \in {edit[e], NoEdit},
         test' \in [Testers -> [at : {"idle", "loaded", "verified"}, outcome : Statuses]],
         UNCHANGED <<deleting, secrets, verified>>
  PROVE  PairInv'
<1>1. conn' = row /\ alerted' \in Nat
  BY DEF Put, PairInv, ConnectionTypeOK
<1>2. ConnectionTypeOK'
  BY <1>1 DEF PairInv, ConnectionTypeOK, Reports, Edits
<1>3. PairVerified'
  BY <1>1 DEF PairVerified
<1>4. EditsVerified'
  BY DEF PairInv, EditsVerified, NoEdit
<1> QED BY <1>2, <1>3, <1>4 DEF PairInv

\* The steps of an update.
LEMMA UpdateKeepsPair ==
  ASSUME ConnectionConstants, PairInv, NEW e \in Editors,
         \/ LoadForUpdate(e) \/ RefuseUpdate(e) \/ Rename(e) \/ WriteUpdate(e)
         \/ \E k \in Configs : VerifyUpdate(e, k)
  PROVE  PairInv'
<1> USE DEF ConnectionConstants, PairInv, ConnectionTypeOK, PairVerified, EditsVerified,
            Kept, Rows, Absent, Row, NoConfig, Secrets, Pairs, Statuses, NoEdit, requests, history
<1>1. CASE LoadForUpdate(e)
  BY <1>1 DEF LoadForUpdate
<1>2. CASE RefuseUpdate(e)
  BY <1>2 DEF RefuseUpdate
<1>3. CASE Rename(e)
  BY <1>3 DEF Rename
<1>4. CASE WriteUpdate(e)
  <2>1. CASE Kept
    <3> DEFINE row == edit[e].row
    <3>1. row \in Rows /\ <<row.config, row.secret>> \in verified
      BY <1>4 DEF WriteUpdate
    <3>2. /\ Put(row)
          /\ report' = Outdated(row)
          /\ edit' = [edit EXCEPT ![e] = NoEdit]
          /\ UNCHANGED <<test, deleting, secrets, verified>>
      BY <1>4, <2>1 DEF WriteUpdate
    <3>3. report' \in [Reporters -> Reports]
      BY <3>2, OutdatedType
    <3>4. /\ edit' \in [Editors -> Edits]
          /\ \A x \in Editors : edit'[x] \in {edit[x], NoEdit}
      BY <3>2 DEF Edits
    <3> QED BY <3>1, <3>2, <3>3, <3>4, PutKeepsPair
  <2>2. CASE ~Kept
    BY <1>4, <2>2 DEF WriteUpdate
  <2> QED BY <2>1, <2>2
<1>5. ASSUME NEW k \in Configs, VerifyUpdate(e, k) PROVE PairInv'
  <2> DEFINE row == edit[e].row
  <2>1. row \in Rows /\ <<row.config, row.secret>> \in verified
    BY <1>5 DEF VerifyUpdate
  <2>2. row.secret \in 1..MaxSecrets
    BY <2>1
  <2>3. ASSUME k # row.config,
               edit' = [edit EXCEPT ![e] = [at |-> "verified", asks |-> "config",
                          row |-> [row EXCEPT !.config = k, !.status = "ok"]]],
               verified' = verified \cup {<<k, row.secret>>},
               UNCHANGED secrets
        PROVE  PairInv'
    <3> DEFINE new == [row EXCEPT !.config = k, !.status = "ok"]
    <3>1. new \in Rows /\ new.config = k /\ new.secret = row.secret
      BY <2>1
    <3>2. <<k, row.secret>> \in Pairs
      BY <2>2
    <3>3. UNCHANGED <<conn, test, deleting, report, alerted>>
      BY <1>5 DEF VerifyUpdate
    <3> DEFINE entry == [at |-> "verified", asks |-> "config", row |-> new]
    <3>4. entry \in Edits /\ entry.row = new
      BY <3>1 DEF Edits
    <3>5. edit' = [edit EXCEPT ![e] = entry]
      BY <2>3
    <3>6. verified' \subseteq Pairs /\ verified \subseteq verified' /\ secrets' \in Secrets
      BY <2>3, <3>2
    <3>7. <<entry.row.config, entry.row.secret>> \in verified'
      BY <2>3, <3>1, <3>4
    <3> HIDE DEF row, new, entry
    <3> QED BY <3>3, <3>4, <3>5, <3>6, <3>7, EditKeepsPair
  <2>4. ASSUME secrets < MaxSecrets, secrets' = secrets + 1,
               edit' = [edit EXCEPT ![e] = [at |-> "verified", asks |-> "secret",
                                            row |-> Row("kept", k, secrets', "ok")]],
               verified' = verified \cup {<<k, secrets'>>}
        PROVE  PairInv'
    <3> DEFINE new == Row("kept", k, secrets', "ok")
    <3>1. secrets' \in 1..MaxSecrets
      BY <2>4
    <3>2. new \in Rows /\ new.config = k /\ new.secret = secrets'
      BY <3>1
    <3>3. <<k, secrets'>> \in Pairs
      BY <3>1
    <3>4. UNCHANGED <<conn, test, deleting, report, alerted>>
      BY <1>5 DEF VerifyUpdate
    <3> HIDE DEF new
    <3> QED BY <2>4, <3>1, <3>2, <3>3, <3>4, EditKeepsPair DEF Edits
  <2> QED BY <1>5, <2>3, <2>4 DEF VerifyUpdate, NewSecret
<1> QED BY <1>1, <1>2, <1>3, <1>4, <1>5

\* Every other step.
LEMMA OthersKeepPair ==
  ASSUME ConnectionConstants, PairInv,
         \/ \E k \in Configs : Create(k)
         \/ \E t \in Testers : LoadForTest(t) \/ VerifyTest(t) \/ WriteTest(t)
         \/ LoadForDelete \/ CleanupDone \/ DeleteRow
         \/ \E r \in Reporters :
              ReadBefore(r) \/ SetStatus(r) \/ SetStatusFails(r) \/ NotifyTurn(r)
         \/ Crash
         \/ UNCHANGED connectionVars
  PROVE  PairInv'
<1> USE DEF ConnectionConstants, PairInv, ConnectionTypeOK, PairVerified, EditsVerified,
            Kept, Rows, Absent, Row, NoConfig, Secrets, Pairs, Statuses, requests, history
<1>1. ASSUME NEW k \in Configs, Create(k) PROVE PairInv'
  BY <1>1 DEF Create, NewSecret
<1>2. ASSUME NEW t \in Testers, LoadForTest(t) \/ VerifyTest(t) PROVE PairInv'
  <2>1. /\ test' \in [Testers -> [at : {"idle", "loaded", "verified"}, outcome : Statuses]]
        /\ UNCHANGED <<conn, edit, deleting, report, secrets, verified, alerted>>
    BY <1>2 DEF LoadForTest, VerifyTest
  <2> QED BY <2>1
<1>3. ASSUME NEW t \in Testers, WriteTest(t) PROVE PairInv'
  <2> DEFINE row == [conn EXCEPT !.status = test[t].outcome]
  <2>1. test' \in [Testers -> [at : {"idle", "loaded", "verified"}, outcome : Statuses]]
    BY <1>3 DEF WriteTest, NoTest
  <2>2. CASE Kept
    <3>1. row \in Rows /\ <<row.config, row.secret>> \in verified
      BY <2>2
    <3>2. Put(row) /\ report' = Outdated(row)
      BY <1>3, <2>2 DEF WriteTest
    <3>3. UNCHANGED <<edit, deleting, secrets, verified>>
      BY <1>3 DEF WriteTest
    <3> HIDE DEF row
    <3>4. report' \in [Reporters -> Reports]
      BY <3>2, OutdatedType
    <3> QED BY <2>1, <3>1, <3>2, <3>3, <3>4, PutKeepsPair DEF Edits
  <2>3. CASE ~Kept
    BY <1>3, <2>1, <2>3 DEF WriteTest
  <2> QED BY <2>2, <2>3
<1>4. CASE LoadForDelete \/ CleanupDone \/ DeleteRow
  BY <1>4 DEF LoadForDelete, CleanupDone, DeleteRow
<1>5. ASSUME NEW r \in Reporters, ReadBefore(r) PROVE PairInv'
  BY <1>5 DEF ReadBefore, NoReport
<1>6. ASSUME NEW r \in Reporters, SetStatus(r) PROVE PairInv'
  <2> DEFINE row == [conn EXCEPT !.status = report[r].outcome]
  <2>1. row \in Rows /\ <<row.config, row.secret>> \in verified
    BY <1>6 DEF SetStatus
  <2>2. /\ Put(row)
        /\ report' = [Outdated(row) EXCEPT ![r].at = "set", ![r].turn = TRUE]
        /\ UNCHANGED <<edit, test, deleting, secrets, verified>>
    BY <1>6 DEF SetStatus
  <2> HIDE DEF row
  <2>3. report' \in [Reporters -> Reports]
    <3> DEFINE out == Outdated(row)
    <3>1. out \in [Reporters -> Reports]
      BY OutdatedType
    <3>2. report' = [out EXCEPT ![r].at = "set", ![r].turn = TRUE]
      BY <2>2
    <3> HIDE DEF out
    <3> DEFINE set == [out EXCEPT ![r].at = "set"]
    <3>3. set \in [Reporters -> Reports]
      BY <3>1 DEF Reports
    <3>4. report' = [set EXCEPT ![r].turn = TRUE]
      BY <3>2
    <3> HIDE DEF set
    <3>5. ASSUME NEW x \in Reports PROVE [x EXCEPT !.turn = TRUE] \in Reports
      BY DEF Reports
    <3>6. report' = [set EXCEPT ![r] = [set[r] EXCEPT !.turn = TRUE]]
      BY <3>4
    <3> QED BY <3>3, <3>5, <3>6
  <2> QED BY <2>1, <2>2, <2>3, PutKeepsPair DEF Edits
<1>7. ASSUME NEW r \in Reporters, SetStatusFails(r) \/ NotifyTurn(r) PROVE PairInv'
  <2>1. report' = [report EXCEPT ![r] = NoReport] /\ alerted' \in Nat
    BY <1>7 DEF SetStatusFails, NotifyTurn
  <2>2. report' \in [Reporters -> [at : {"idle", "read", "set"},
                                  before : Statuses \cup {"none"},
                                  outcome : Statuses, turn : BOOLEAN]]
    BY <2>1 DEF NoReport
  <2>3. UNCHANGED <<conn, edit, test, deleting, secrets, verified>>
    BY <1>7 DEF SetStatusFails, NotifyTurn
  <2> QED BY <2>1, <2>2, <2>3
<1>8. CASE Crash
  BY <1>8 DEF Crash, NoEdit, NoTest, NoReport
<1>9. CASE UNCHANGED connectionVars
  BY <1>9 DEF connectionVars
<1> QED BY <1>1, <1>2, <1>3, <1>4, <1>5, <1>6, <1>7, <1>8, <1>9

LEMMA PairNext ==
  ASSUME ConnectionConstants
  PROVE  PairInv /\ [ConnectionNext]_connectionVars => PairInv'
BY UpdateKeepsPair, OthersKeepPair DEF ConnectionNext

\* Every variable has its type, and the config and the secret that are stored
\* were verified together: updates write whole rows, so an update that overtakes
\* another may undo it but never mixes the two.
THEOREM StoredPairVerified ==
  ASSUME ConnectionConstants PROVE ConnectionSpec => [](ConnectionTypeOK /\ PairVerified)
<1>1. PairInv => ConnectionTypeOK /\ PairVerified
  BY DEF PairInv
<1> QED BY <1>1, PairInit, PairNext, PTL DEF ConnectionSpec

-----------------------------------------------------------------------------
(* Alerts *)

LEMMA AlertInit == ASSUME ConnectionConstants PROVE ConnectionInit => AlertInv
BY PairInit DEF AlertInv, ConnectionInit, FirstToAlert, OncePerOutage, NoReport

\* A step that writes a status keeps the count, or begins an outage.
LEMMA PutKeepsFirst ==
  ASSUME AlertInv, NEW row, Put(row), row.status \in Statuses, report' = Outdated(row)
  PROVE  FirstToAlert' /\ OncePerOutage'
<1>1. CASE Turns(row)
  <2>1. alerted' = 0
    BY <1>1 DEF Put
  <2> QED BY <2>1 DEF FirstToAlert, OncePerOutage
<1>2. CASE ~Turns(row)
  <2>1. alerted' = alerted /\ conn' = row
    BY <1>2 DEF Put
  <2>2. report' = report
    BY <1>2 DEF Outdated, AlertInv, PairInv, ConnectionTypeOK
  <2>3. row.status = "error" => conn.status = "error"
    BY <1>2 DEF Turns, AlertInv, PairInv, ConnectionTypeOK, Rows, Statuses
  <2> QED BY <2>1, <2>2, <2>3 DEF AlertInv, FirstToAlert, OncePerOutage, Alerts
<1> QED BY <1>1, <1>2

LEMMA AlertNext ==
  ASSUME ConnectionConstants, \A r, s \in Reporters : r = s,
         AlertInv, [ConnectionNext]_connectionVars
  PROVE  AlertInv'
<1> PairInv'
  BY PairNext DEF AlertInv
<1> SUFFICES FirstToAlert' /\ OncePerOutage'
  BY DEF AlertInv
<1> USE DEF AlertInv, PairInv
<1>1. ASSUME NEW k \in Configs, Create(k) PROVE FirstToAlert' /\ OncePerOutage'
  BY <1>1 DEF Create, FirstToAlert, OncePerOutage, Alerts, Row
<1>2. ASSUME NEW e \in Editors, WriteUpdate(e) PROVE FirstToAlert' /\ OncePerOutage'
  <2>1. CASE Kept
    BY <1>2, <2>1, PutKeepsFirst DEF WriteUpdate, ConnectionTypeOK, Rows
  <2>2. CASE ~Kept
    BY <1>2, <2>2 DEF WriteUpdate, FirstToAlert, OncePerOutage, Alerts
  <2> QED BY <2>1, <2>2
<1>3. ASSUME NEW t \in Testers, WriteTest(t) PROVE FirstToAlert' /\ OncePerOutage'
  <2> DEFINE row == [conn EXCEPT !.status = test[t].outcome]
  <2>1. CASE Kept
    <3>1. Put(row) /\ report' = Outdated(row)
      BY <1>3, <2>1 DEF WriteTest
    <3>2. row.status \in Statuses
      BY DEF ConnectionTypeOK, Rows
    <3> HIDE DEF row
    <3> QED BY <3>1, <3>2, PutKeepsFirst
  <2>2. CASE ~Kept
    BY <1>3, <2>2 DEF WriteTest, FirstToAlert, OncePerOutage, Alerts
  <2> QED BY <2>1, <2>2
<1>4. CASE DeleteRow
  BY <1>4 DEF DeleteRow, FirstToAlert, OncePerOutage, Alerts, Absent, Row, history
<1>5. ASSUME NEW r \in Reporters, ReadBefore(r) PROVE FirstToAlert' /\ OncePerOutage'
  BY <1>5 DEF ReadBefore, FirstToAlert, OncePerOutage, Alerts, ConnectionTypeOK, history
<1>6. ASSUME NEW r \in Reporters, SetStatus(r) PROVE FirstToAlert' /\ OncePerOutage'
  <2> DEFINE row == [conn EXCEPT !.status = report[r].outcome]
  <2>1. report[r].at = "read" /\ Put(row)
    BY <1>6 DEF SetStatus
  <2>2. \A s \in Reporters : s = r
    OBVIOUS
  <2>3. row.status = report[r].outcome /\ row.status \in Statuses
    BY DEF ConnectionTypeOK, Rows
  <2>4. report'[r] = [report[r] EXCEPT !.at = "set", !.turn = TRUE]
    BY <1>6 DEF SetStatus, Outdated, ConnectionTypeOK
  <2>5. Alerts(r)' => report[r].before = "ok" /\ row.status = "error"
    BY <2>3, <2>4 DEF Alerts, ConnectionTypeOK
  <2>6. report'[r].at = "set"
    BY <2>4 DEF ConnectionTypeOK
  <2>7. conn.status \in Statuses
    BY DEF ConnectionTypeOK, Rows
  <2>8. Alerts(r)' => alerted' = 0
    <3>1. CASE Turns(row)
      BY <2>1, <3>1 DEF Put
    <3>2. CASE ~Turns(row)
      <4> HAVE Alerts(r)'
      <4>1. conn.status = "error"
        BY <2>5, <2>7, <3>2 DEF Turns, Statuses
      <4>2. alerted = 0
        BY <2>1, <2>5, <4>1 DEF FirstToAlert
      <4> QED BY <2>1, <3>2, <4>2 DEF Put
    <3> QED BY <3>1, <3>2
  <2>9. alerted' \in {0, alerted}
    BY <2>1 DEF Put
  <2> QED BY <2>2, <2>6, <2>8, <2>9 DEF FirstToAlert, OncePerOutage
<1>7. ASSUME NEW r \in Reporters, SetStatusFails(r) PROVE FirstToAlert' /\ OncePerOutage'
  BY <1>7 DEF SetStatusFails, NoReport, FirstToAlert, OncePerOutage, Alerts,
              ConnectionTypeOK, history
<1>8. ASSUME NEW r \in Reporters, NotifyTurn(r) PROVE FirstToAlert' /\ OncePerOutage'
  BY <1>8 DEF NotifyTurn, NoReport, FirstToAlert, OncePerOutage, Alerts, ConnectionTypeOK
<1>9. CASE Crash
  BY <1>9 DEF Crash, NoReport, FirstToAlert, OncePerOutage, history
<1>10. CASE UNCHANGED <<conn, report, alerted>>
  BY <1>10 DEF FirstToAlert, OncePerOutage, Alerts
<1>11. ASSUME NEW e \in Editors,
              \/ LoadForUpdate(e) \/ RefuseUpdate(e) \/ Rename(e)
              \/ \E k \in Configs : VerifyUpdate(e, k)
       PROVE  UNCHANGED <<conn, report, alerted>>
  BY <1>11 DEF LoadForUpdate, RefuseUpdate, Rename, VerifyUpdate, history
<1>12. ASSUME NEW t \in Testers, LoadForTest(t) \/ VerifyTest(t)
       PROVE  UNCHANGED <<conn, report, alerted>>
  BY <1>12 DEF LoadForTest, VerifyTest, history
<1>13. ASSUME LoadForDelete \/ CleanupDone \/ UNCHANGED connectionVars
       PROVE  UNCHANGED <<conn, report, alerted>>
  BY <1>13 DEF LoadForDelete, CleanupDone, connectionVars, history
<1> QED
  BY <1>1, <1>2, <1>3, <1>4, <1>5, <1>6, <1>7, <1>8, <1>9, <1>10, <1>11, <1>12, <1>13
     DEF ConnectionNext

\* Where one run reports at a time, an outage raises one alert, whatever
\* updates, tests, deletions and restarts come between its steps.
THEOREM OneAlertPerOutage ==
  ASSUME ConnectionConstants, \A r, s \in Reporters : r = s
  PROVE  ConnectionSpec => []OncePerOutage
<1>1. AlertInv /\ [ConnectionNext]_connectionVars => AlertInv'
  BY AlertNext
<1>2. AlertInv => OncePerOutage
  BY DEF AlertInv
<1> QED BY <1>1, <1>2, AlertInit, PTL DEF ConnectionSpec

-----------------------------------------------------------------------------
(* Backup schedules *)

\* Lists are numbered in the order they are read in.
ReadsInv ==
  /\ reads \in Nat /\ applied \in 0..reads
  /\ up \in BOOLEAN /\ orderly \in BOOLEAN /\ missed \in BOOLEAN
  /\ saving \in [Changers -> [at : {"idle", "asked", "saved", "listed", "done", "error"},
                               base : Bases \cup {"none"}, cron : Int,
                               list : [Bases -> Int], read : 0..reads]]
  /\ policy \in [Bases -> Int]
  /\ saves \in Nat
  /\ \A q, p \in Changers :
       ChangeAt(q, "listed") /\ ChangeAt(p, "listed") /\ saving[q].read = saving[p].read
         => q = p

\* A process that is down has no request under way.
DownInv == ~up => \A q \in Changers : saving[q].at \in {"idle", "error"}

\* Nothing is listed that the entries were not made of.
Caught == \/ applied = reads
          \/ \A q \in Changers : saving[q].at # "listed"

\* Somebody still holds the newest list, which is the policies.
Coming == \E q \in Changers :
            /\ ChangeAt(q, "listed") /\ saving[q].read = reads
            /\ applied < reads /\ saving[q].list = policy

\* Once no change waits for its reload, the newest list is or will be applied.
NewestInv ==
  up /\ orderly /\ ~missed /\ (\A q \in Changers : saving[q].at # "saved")
  => (Caught /\ entries = policy) \/ Coming

SettleInv == ReadsInv /\ DownInv /\ NewestInv

-----------------------------------------------------------------------------

LEMMA SettleInit == SchedulesInit => SettleInv
<1> SUFFICES ASSUME SchedulesInit PROVE SettleInv
  OBVIOUS
<1>1. \A q \in Changers : saving[q] = Idle
  BY DEF SchedulesInit
<1>2. /\ Idle.at = "idle"
      /\ Idle \in [at : {"idle", "asked", "saved", "listed", "done", "error"},
                    base : Bases \cup {"none"}, cron : Int, list : [Bases -> Int], read : 0..0]
  BY DEF Change, Idle, Nothing, NotScheduled
<1>3. ReadsInv
  <2>1. policy \in [Bases -> Int]
    BY DEF SchedulesInit, Nothing, NotScheduled
  <2>2. saving = [q \in Changers |-> Idle]
    BY DEF SchedulesInit
  <2>3. /\ up = TRUE /\ orderly = TRUE /\ missed = FALSE
        /\ reads = 0 /\ applied = 0 /\ saves = 0
    BY DEF SchedulesInit
  <2> HIDE DEF Idle
  <2>4. saving \in [Changers -> [at : {"idle", "asked", "saved", "listed", "done", "error"},
                                 base : Bases \cup {"none"}, cron : Int,
                                 list : [Bases -> Int], read : 0..reads]]
    BY <1>2, <2>2, <2>3
  <2>5. \A q \in Changers : ~ChangeAt(q, "listed")
    BY <1>1, <1>2 DEF ChangeAt
  <2>6. up \in BOOLEAN /\ orderly \in BOOLEAN /\ missed \in BOOLEAN
    BY <2>3
  <2>7. reads \in Nat /\ applied \in 0..reads /\ saves \in Nat
    BY <2>3
  <2> QED BY <2>1, <2>4, <2>5, <2>6, <2>7 DEF ReadsInv
<1>4. DownInv
  BY DEF SchedulesInit, DownInv
<1>5. NewestInv
  BY DEF SchedulesInit, NewestInv, Caught
<1> QED BY <1>3, <1>4, <1>5 DEF SettleInv

LEMMA AskInv == ASSUME SettleInv, NEW s \in Savers, Ask(s) PROVE SettleInv'
<1>1. s \in Changers
  BY DEF Changers
<1>2. PICK b \in Bases, cron \in Int :
        saving' = [saving EXCEPT ![s] = Change("asked", b, cron)]
  <2>1. PICK b \in Bases, on \in BOOLEAN :
          saving' = [saving EXCEPT
            ![s] = Change("asked", b, IF on THEN saves + 1 ELSE NotScheduled)]
    BY DEF Ask
  <2>2. (IF on THEN saves + 1 ELSE NotScheduled) \in Int
    BY DEF NotScheduled, SettleInv, ReadsInv
  <2> QED BY <2>1, <2>2
<1>3. saves' \in Nat
  BY DEF Ask, SettleInv, ReadsInv
<1>4. /\ up /\ saving[s].at = "idle"
      /\ UNCHANGED <<policy, entries, up, reads, applied, orderly, missed>>
  BY DEF Ask, ChangeAt
<1>5. ReadsInv'
  <2> DEFINE asked == Change("asked", b, cron)
  <2>1. /\ asked.at = "asked"
        /\ asked \in [at : {"idle", "asked", "saved", "listed", "done", "error"},
                       base : Bases \cup {"none"}, cron : Int, list : [Bases -> Int],
                       read : 0..reads]
    <3>1. Nothing \in [Bases -> Int]
      BY DEF Nothing, NotScheduled
    <3>2. reads \in Nat
      BY DEF SettleInv, ReadsInv
    <3> QED BY <3>1, <3>2 DEF Change, Idle, NotScheduled
  <2>2. saving' = [saving EXCEPT ![s] = asked]
    BY <1>2
  <2> HIDE DEF asked
  <2> QED BY <1>1, <1>3, <1>4, <2>1, <2>2 DEF SettleInv, ReadsInv, ChangeAt
<1>6. \A q \in Changers : q # s => saving'[q] = saving[q]
  BY <1>1, <1>2 DEF SettleInv, ReadsInv
<1>7. saving'[s].at = "asked"
  BY <1>1, <1>2 DEF SettleInv, ReadsInv, Change, Idle
<1>8. NewestInv'
  BY <1>1, <1>4, <1>6, <1>7 DEF SettleInv, NewestInv, Caught, Coming, ChangeAt
<1> QED BY <1>4, <1>5, <1>8 DEF SettleInv, DownInv

\* A change of a policy waits for its reload.
LEMMA SavedInv ==
  ASSUME SettleInv, NEW q \in Changers,
         \/ q \in Savers /\ UpsertPolicy(q)
         \/ q \in Cleaners /\ DeletePolicies(q)
  PROVE  SettleInv'
<1>1. /\ up /\ saving[q].at \in {"idle", "asked"}
      /\ saving' = [saving EXCEPT ![q].at = "saved"]
      /\ UNCHANGED <<up, reads, applied, saves, orderly, missed>>
  BY DEF UpsertPolicy, DeletePolicies, ChangeAt, ChangeGoes
<1>2. policy' \in [Bases -> Int]
  BY DEF UpsertPolicy, DeletePolicies, SettleInv, ReadsInv, Nothing, NotScheduled
<1>3. ReadsInv'
  BY <1>1, <1>2 DEF SettleInv, ReadsInv, ChangeAt
<1>4. saving'[q].at = "saved"
  BY <1>1 DEF SettleInv, ReadsInv
<1> QED BY <1>1, <1>3, <1>4 DEF SettleInv, DownInv, NewestInv

LEMMA ListInv == ASSUME SettleInv, NEW q \in Changers, ListEnabled(q) PROVE SettleInv'
<1>1. /\ ChangeAt(q, "saved") /\ reads' = reads + 1
      /\ saving' = [saving EXCEPT ![q].at = "listed", ![q].list = policy, ![q].read = reads + 1]
      /\ UNCHANGED <<policy, entries, up, applied, saves, orderly>> /\ missed' = FALSE
  BY DEF ListEnabled, Enabled
<1>2. /\ saving'[q].at = "listed" /\ saving'[q].list = policy /\ saving'[q].read = reads + 1
      /\ \A p \in Changers : p # q => saving'[p] = saving[p]
  BY <1>1 DEF SettleInv, ReadsInv
<1>3. ReadsInv'
  <2>1. saving' \in [Changers -> [at : {"idle", "asked", "saved", "listed", "done", "error"},
                                   base : Bases \cup {"none"}, cron : Int,
                                   list : [Bases -> Int], read : 0..(reads + 1)]]
    BY <1>1 DEF SettleInv, ReadsInv
  <2>2. \A p \in Changers : p # q => saving'[p].read # reads + 1
    BY <1>2 DEF SettleInv, ReadsInv
  <2> QED BY <1>1, <1>2, <2>1, <2>2 DEF SettleInv, ReadsInv, ChangeAt
<1>4. Coming'
  BY <1>1, <1>2 DEF Coming, ChangeAt, SettleInv, ReadsInv
<1> QED BY <1>1, <1>3, <1>4 DEF SettleInv, DownInv, NewestInv, ChangeAt

LEMMA ListFailsInv == ASSUME SettleInv, NEW q \in Changers, ListFails(q) PROVE SettleInv'
<1>1. PICK at \in {"error", "done"} : saving' = [saving EXCEPT ![q].at = at]
  BY DEF ListFails, ChangeGoes
<1>2. up /\ missed' /\ UNCHANGED <<policy, entries, up, reads, applied, saves, orderly>>
  BY DEF ListFails, ChangeAt
<1>3. ReadsInv'
  BY <1>1, <1>2 DEF ListFails, SettleInv, ReadsInv, ChangeAt
<1> QED BY <1>2, <1>3 DEF SettleInv, DownInv, NewestInv

LEMMA ApplyInv == ASSUME SettleInv, NEW q \in Changers, Apply(q) PROVE SettleInv'
<1>1. /\ up /\ saving[q].at = "listed"
      /\ entries' = saving[q].list
      /\ orderly' = (orderly /\ applied < saving[q].read)
      /\ applied' = IF applied < saving[q].read THEN saving[q].read ELSE applied
      /\ saving' = [saving EXCEPT ![q].at = "done"]
      /\ UNCHANGED <<policy, up, reads, saves, missed>>
  BY DEF Apply, ChangeAt, ChangeGoes
<1>2. /\ saving'[q].at = "done"
      /\ \A p \in Changers : p # q => saving'[p] = saving[p]
  BY <1>1 DEF SettleInv, ReadsInv
<1>3. ReadsInv'
  <2>1. applied' \in 0..reads
    BY <1>1 DEF SettleInv, ReadsInv
  <2>2. orderly' \in BOOLEAN
    BY <1>1
  <2>3. saving' \in [Changers -> [at : {"idle", "asked", "saved", "listed", "done", "error"},
                                   base : Bases \cup {"none"}, cron : Int,
                                   list : [Bases -> Int], read : 0..reads]]
    BY <1>1 DEF SettleInv, ReadsInv
  <2> QED BY <1>1, <1>2, <2>1, <2>2, <2>3 DEF SettleInv, ReadsInv, ChangeAt
<1>4. NewestInv'
  <2> SUFFICES ASSUME orderly', ~missed', \A p \in Changers : saving'[p].at # "saved"
               PROVE  ((Caught /\ entries = policy) \/ Coming)'
    BY DEF NewestInv
  <2>1. orderly /\ ~missed /\ applied < saving[q].read /\ applied' = saving[q].read
    BY <1>1
  <2>2. \A p \in Changers : saving[p].at # "saved"
    BY <1>1, <1>2
  <2>3. ~Caught
    BY <1>1, <2>1 DEF Caught, SettleInv, ReadsInv
  <2>4. PICK p \in Changers : /\ ChangeAt(p, "listed") /\ saving[p].read = reads
                              /\ saving[p].list = policy
    BY <1>1, <2>1, <2>2, <2>3 DEF SettleInv, NewestInv, Coming
  <2>5. CASE p = q
    BY <1>1, <2>1, <2>4, <2>5 DEF Caught
  <2>6. CASE p # q
    <3>1. saving[q].read # reads
      <4>1. ChangeAt(q, "listed")
        BY <1>1 DEF ChangeAt
      <4> QED BY <2>4, <2>6, <4>1 DEF SettleInv, ReadsInv
    <3>2. applied' < reads
      <4>1. saving[q].read \in 0..reads /\ reads \in Nat
        BY DEF SettleInv, ReadsInv
      <4> QED BY <2>1, <3>1, <4>1
    <3>3. ChangeAt(p, "listed")' /\ saving'[p] = saving[p]
      BY <1>1, <1>2, <2>4, <2>6 DEF ChangeAt
    <3> QED BY <1>1, <2>4, <3>2, <3>3 DEF Coming
  <2> QED BY <2>5, <2>6
<1> QED BY <1>1, <1>3, <1>4 DEF SettleInv, DownInv

LEMMA StopInv == ASSUME SettleInv, ProcessStops PROVE SettleInv'
<1>1. /\ ~up' /\ UNCHANGED <<policy, reads, applied, saves, orderly, missed>>
      /\ saving' = [q \in Changers |-> IF saving[q].at = "idle" THEN Idle
                                        ELSE Change("error", "none", NotScheduled)]
  BY DEF ProcessStops
<1>2. ReadsInv'
  <2>1. /\ Idle \in [at : {"idle", "asked", "saved", "listed", "done", "error"},
                      base : Bases \cup {"none"}, cron : Int, list : [Bases -> Int],
                      read : 0..reads]
        /\ Change("error", "none", NotScheduled)
             \in [at : {"idle", "asked", "saved", "listed", "done", "error"},
                  base : Bases \cup {"none"}, cron : Int, list : [Bases -> Int],
                  read : 0..reads]
    BY DEF Change, Idle, Nothing, NotScheduled, SettleInv, ReadsInv
  <2>2. ~up' /\ up' \in BOOLEAN
    BY DEF ProcessStops
  <2> QED BY <1>1, <2>1, <2>2 DEF SettleInv, ReadsInv, ChangeAt
<1>3. \A q \in Changers : saving'[q].at \in {"idle", "error"}
  BY <1>1 DEF Change, Idle
<1> QED BY <1>1, <1>2, <1>3 DEF SettleInv, DownInv, NewestInv

LEMMA StartInv == ASSUME SettleInv, Start PROVE SettleInv'
<1>1. /\ ~up /\ up' /\ up' \in BOOLEAN /\ entries' = policy
      /\ orderly' = TRUE /\ missed' = FALSE
      /\ UNCHANGED <<policy, saving, reads, applied, saves>>
  BY DEF Start, Enabled
<1>2. \A q \in Changers : saving[q].at \notin {"listed", "saved"}
  BY <1>1 DEF SettleInv, DownInv
<1>3. ReadsInv'
  BY <1>1, <1>2 DEF SettleInv, ReadsInv, ChangeAt
<1>4. (Caught /\ entries = policy)'
  BY <1>1, <1>2 DEF Caught
<1> QED BY <1>1, <1>3, <1>4 DEF SettleInv, DownInv, NewestInv

LEMMA SettleNext == SettleInv /\ [SchedulesNext]_schedulesVars => SettleInv'
<1> SUFFICES ASSUME SettleInv, [SchedulesNext]_schedulesVars PROVE SettleInv'
  OBVIOUS
<1>1. ASSUME NEW s \in Savers, UpsertPolicy(s) PROVE SettleInv'
  BY <1>1, SavedInv DEF Changers
<1>2. ASSUME NEW c \in Cleaners, DeletePolicies(c) PROVE SettleInv'
  BY <1>2, SavedInv DEF Changers
<1>3. ASSUME NEW q \in Changers, Reload(q) PROVE SettleInv'
  BY <1>3, ListInv, ListFailsInv, ApplyInv DEF Reload
<1>4. CASE UNCHANGED schedulesVars
  BY <1>4 DEF schedulesVars, SettleInv, ReadsInv, DownInv, NewestInv, Caught, Coming, ChangeAt
<1> QED BY <1>1, <1>2, <1>3, <1>4, AskInv, StopInv, StartInv DEF SchedulesNext

\* However saves, cleanups, reloads and restarts interleave, the cron entries
\* are the enabled policies once all is reloaded: what can leave old entries is
\* a list that could not be read, or two that were applied the wrong way round.
THEOREM EntriesFollowPolicies == SchedulesSpec => []SettledSchedules
<1>1. SettleInv => SettledSchedules
  BY DEF SettleInv, NewestInv, SettledSchedules, Settled, Enabled, Coming, ChangeAt
<1> QED BY <1>1, SettleInit, SettleNext, PTL DEF SchedulesSpec

-----------------------------------------------------------------------------
(* Signing in *)

\* Flows past their state, and what they hold of the user they are for.
FlowInv ==
  \A f \in Flows :
    /\ ~At(f, "idle") => flow[f].state \in States
    /\ flow[f].at \notin {"idle", "read", "refused"} => states[flow[f].state] = "gone"
    /\ flow[f].at \in {"claimed", "create", "retry", "found", "done"} =>
         flow[f].account \in Accounts
    /\ flow[f].at \in {"found", "done"} =>
         flow[f].user \in Ids /\ users[flow[f].user].account = flow[f].account

LoginInv ==
  \A l \in Logins :
    login[l].at \in {"found", "done"} => login[l].user \in Ids /\ Exists(login[l].user)

\* A session is its handler's last step, and for its handler's user.
SessionInv ==
  /\ \A f \in Flows : sessions[f] # NoSession => At(f, "done") /\ sessions[f].user = flow[f].user
  /\ \A l \in Logins :
       sessions[l] # NoSession => login[l].at = "done" /\ sessions[l].user = login[l].user

\* What a request found, and why it is barred while it is under way.
RequestInv ==
  \A r \in Requests :
    /\ request[r].at \in {"found", "accepted"} =>
         request[r].session \in Handlers /\ sessions[request[r].session] # NoSession
    /\ request[r].at = "found" /\ request[r].barred =>
         users[sessions[request[r].session].user].disabled

NamedInv == \A u \in Ids : Exists(u) => users[u].name # 0

Holding == FlowInv /\ LoginInv /\ SessionInv /\ RequestInv /\ NamedInv

SignInInv == TypeOK /\ Holding /\ StateUsedOnce /\ OneUserPerAccount /\ BarredStaysOut

FlowRecords ==
  [at : {"idle", "read", "taken", "claimed", "create", "retry", "found",
         "done", "refused", "error"},
   state : States \cup {"none"}, account : Accounts \cup {NoAccount},
   user : 0..MaxUsers, disabled : BOOLEAN]

MovedRecords ==
  [at : {"read", "claimed", "create", "retry", "found", "refused", "error"},
   state : States, account : Accounts \cup {NoAccount},
   user : 0..MaxUsers, disabled : BOOLEAN]

USE SignInConstants DEF Ids, Handlers, NoAccount, FlowRecords, MovedRecords

-----------------------------------------------------------------------------

LEMMA SignInInit == Init => SignInInv
<1> SUFFICES ASSUME Init PROVE SignInInv
  OBVIOUS
<1>1. TypeOK
  BY DEF Init, TypeOK, NoUser, User, NoSession, NoFlow, NoLogin, NoRequest
<1>2. Holding
  BY DEF Init, Holding, FlowInv, LoginInv, SessionInv, RequestInv, NamedInv, At, Exists,
         NoFlow, NoLogin, NoRequest
<1>3. StateUsedOnce /\ OneUserPerAccount /\ BarredStaysOut
  BY DEF Init, StateUsedOnce, OneUserPerAccount, BarredStaysOut, NoFlow, NoUser, User, NoRequest
<1> QED BY <1>1, <1>2, <1>3 DEF SignInInv

\* Whoever has a session is a user.
LEMMA SessionUsers ==
  ASSUME SignInInv, NEW h \in Handlers, sessions[h] # NoSession
  PROVE  sessions[h].user \in Ids /\ Exists(sessions[h].user)
<1>1. CASE h \in Logins
  BY <1>1 DEF SignInInv, Holding, SessionInv, LoginInv
<1>2. CASE h \in Flows
  <2>1. /\ sessions[h].user \in Ids
        /\ users[sessions[h].user].account \in Accounts
    BY <1>2 DEF SignInInv, Holding, SessionInv, FlowInv, At
  <2> QED BY <2>1 DEF Exists, NoUser, User
<1> QED BY <1>1, <1>2

-----------------------------------------------------------------------------
(* Kinds of steps *)

\* A state changes, but not one that is gone.
LEMMA StateStep ==
  ASSUME SignInInv, NEW s \in States, states[s] # "gone",
         NEW new \in {"live", "expired", "gone"}, states' = [states EXCEPT ![s] = new],
         UNCHANGED <<users, sessions, handlers, switched>>
  PROVE  SignInInv'
<1>1. TypeOK'
  BY DEF SignInInv, TypeOK, handlers
<1>2. Holding'
  BY DEF SignInInv, TypeOK, Holding, FlowInv, LoginInv, SessionInv, RequestInv, NamedInv, At, Exists,
         handlers
<1>3. StateUsedOnce' /\ OneUserPerAccount' /\ BarredStaysOut'
  BY DEF SignInInv, StateUsedOnce, OneUserPerAccount, BarredStaysOut, handlers
<1> QED BY <1>1, <1>2, <1>3 DEF SignInInv

\* A flow that has no session moves on, with the state it has and what it knows
\* of its user.
LEMMA FlowStep ==
  ASSUME SignInInv, NEW f \in Flows, NEW new, flow' = [flow EXCEPT ![f] = new],
         new \in MovedRecords,
         ~At(f, "done"),
         \/ new.at \in {"read", "refused"}
         \/ flow[f].at \notin {"idle", "read", "refused"} /\ new.state = flow[f].state,
         new.at \in {"claimed", "create", "retry", "found"} => new.account \in Accounts,
         new.at = "found" => new.user \in Ids /\ users[new.user].account = new.account,
         UNCHANGED <<users, states, sessions, login, request, switched>>
  PROVE  SignInInv'
<1>1. flow'[f] = new /\ \A g \in Flows : g # f => flow'[g] = flow[g]
  BY DEF SignInInv, TypeOK
<1>2. TypeOK'
  <2>1. new \in FlowRecords
    OBVIOUS
  <2> QED BY <2>1 DEF SignInInv, TypeOK
<1>3. FlowInv'
  BY <1>1 DEF SignInInv, Holding, FlowInv, At
<1>4. LoginInv' /\ RequestInv' /\ NamedInv'
  BY DEF SignInInv, Holding, LoginInv, RequestInv, NamedInv, Exists
<1>5. SessionInv'
  <2>1. sessions[f] = NoSession
    BY DEF SignInInv, Holding, SessionInv
  <2> QED BY <1>1, <2>1 DEF SignInInv, Holding, SessionInv, At, NoSession
<1>6. StateUsedOnce'
  BY <1>1 DEF SignInInv, StateUsedOnce
<1>7. OneUserPerAccount' /\ BarredStaysOut'
  BY DEF SignInInv, OneUserPerAccount, BarredStaysOut
<1> QED BY <1>2, <1>3, <1>4, <1>5, <1>6, <1>7 DEF SignInInv, Holding

\* A user is added: nobody has its id, its name or its account.
LEMMA UserAdded ==
  ASSUME SignInInv, NEW u \in Ids, ~Exists(u),
         NEW name \in Names \cup (1..MaxUsers), NEW account \in Accounts \cup {NoAccount},
         ~Clashes(User(name, account, FALSE)),
         users' = [users EXCEPT ![u] = User(name, account, FALSE)],
         sessions' = sessions, login' = login, request' = request
  PROVE  /\ users' \in [Ids -> [name : Names \cup (0..MaxUsers),
                                account : Accounts \cup {NoAccount}, disabled : BOOLEAN]]
         /\ users'[u].account = account
         /\ \A f \in Flows : flow[f].at \in {"found", "done"} =>
              users'[flow[f].user].account = flow[f].account
         /\ LoginInv' /\ RequestInv' /\ NamedInv' /\ OneUserPerAccount'
<1>1. /\ users'[u] = User(name, account, FALSE)
      /\ \A v \in Ids : v # u => users'[v] = users[v]
  BY DEF SignInInv, TypeOK
<1>2. users' \in [Ids -> [name : Names \cup (0..MaxUsers),
                         account : Accounts \cup {NoAccount}, disabled : BOOLEAN]]
  BY DEF SignInInv, TypeOK, User
<1>3. OneUserPerAccount'
  <2>1. account # NoAccount => \A v \in Ids : users[v].account # account
    BY DEF Clashes, AccountTaken, User
  <2> QED BY <1>1, <2>1 DEF SignInInv, OneUserPerAccount, User
<1>4. \A v \in Ids : Exists(v) => v # u /\ users'[v] = users[v] /\ Exists(v)'
  BY <1>1 DEF Exists
<1>5. ASSUME NEW f \in Flows, flow[f].at \in {"found", "done"}
      PROVE  users'[flow[f].user].account = flow[f].account
  <2>1. Exists(flow[f].user)
    BY <1>5 DEF SignInInv, Holding, FlowInv, Exists, NoUser, User
  <2> QED BY <1>4, <1>5, <2>1 DEF SignInInv, Holding, FlowInv
<1>6. LoginInv'
  BY <1>4 DEF SignInInv, Holding, LoginInv
<1>7. RequestInv'
  BY <1>4, SessionUsers DEF SignInInv, Holding, RequestInv
<1>8. NamedInv'
  BY <1>1 DEF SignInInv, Holding, NamedInv, Exists, User
<1> QED BY <1>1, <1>2, <1>3, <1>5, <1>6, <1>7, <1>8 DEF User

-----------------------------------------------------------------------------
(* The actions *)

LEMMA TakeStateInv == ASSUME SignInInv, NEW f \in Flows, TakeState(f) PROVE SignInInv'
<1> DEFINE s == flow[f].state
<1>1. flow[f].at = "read" /\ s \in States /\ UNCHANGED <<users, sessions, login, request, switched>>
  BY DEF TakeState, SignInInv, Holding, FlowInv, At
<1>2. CASE states[s] # "live"
  <2> DEFINE new == [flow[f] EXCEPT !.at = "refused"]
  <2>0. flow[f] \in FlowRecords
    BY DEF SignInInv, TypeOK
  <2>1. /\ new.at = "refused" /\ flow' = [flow EXCEPT ![f] = new]
        /\ new \in MovedRecords
    BY <1>1, <1>2, <2>0 DEF TakeState, Goes
  <2>2. ~At(f, "done") /\ UNCHANGED states
    BY <1>1, <1>2 DEF At, TakeState
  <2> HIDE DEF new
  <2> QED BY <1>1, <2>1, <2>2, FlowStep
<1>3. CASE states[s] = "live"
  <2>1. /\ states' = [states EXCEPT ![s] = "gone"]
        /\ flow' = [flow EXCEPT ![f].at = "taken"]
    BY <1>3 DEF TakeState, Goes
  <2>2. /\ \A g \in Flows : g # f => flow'[g] = flow[g]
        /\ flow'[f].at = "taken" /\ flow'[f].state = s
    BY <2>1 DEF SignInInv, TypeOK
  <2>3. TypeOK'
    <3>1. states' \in [States -> {"none", "live", "expired", "gone"}]
      <4>1. states \in [States -> {"none", "live", "expired", "gone"}]
        BY DEF SignInInv, TypeOK
      <4> QED BY <2>1, <4>1
    <3>2. flow' \in [Flows -> FlowRecords]
      <4>1. flow[f] \in FlowRecords
        BY DEF SignInInv, TypeOK
      <4>2. [flow[f] EXCEPT !.at = "taken"]
              \in FlowRecords
        BY <4>1
      <4>3. flow' = [flow EXCEPT ![f] = [flow[f] EXCEPT !.at = "taken"]]
        BY <2>1
      <4> QED BY <4>2, <4>3 DEF SignInInv, TypeOK
    <3> QED BY <1>1, <3>1, <3>2 DEF SignInInv, TypeOK
  <2>4. states'[s] = "gone" /\ \A t \in States : states[t] = "gone" => states'[t] = "gone"
    BY <1>1, <2>1 DEF SignInInv, TypeOK
  <2>5. FlowInv'
    BY <1>1, <2>2, <2>4 DEF SignInInv, Holding, FlowInv, At
  <2>6. LoginInv' /\ RequestInv' /\ NamedInv'
    BY <1>1 DEF SignInInv, Holding, LoginInv, RequestInv, NamedInv, Exists
  <2>7. SessionInv'
    BY <1>1, <2>2 DEF SignInInv, Holding, SessionInv, At, NoSession
  <2>8. StateUsedOnce'
    <3>1. \A g \in Flows : flow[g].at \notin {"idle", "read", "refused"} => flow[g].state # s
      BY <1>3 DEF SignInInv, Holding, FlowInv
    <3> QED BY <2>2, <3>1 DEF SignInInv, StateUsedOnce
  <2>9. OneUserPerAccount' /\ BarredStaysOut'
    BY <1>1 DEF SignInInv, OneUserPerAccount, BarredStaysOut
  <2> QED BY <2>3, <2>5, <2>6, <2>7, <2>8, <2>9 DEF SignInInv, Holding
<1> QED BY <1>2, <1>3

\* The steps that move one flow and nothing else.
LEMMA FlowAloneInv ==
  ASSUME SignInInv, NEW f \in Flows,
         \/ ReadState(f) \/ ExchangeFails(f) \/ Exchange(f) \/ FindUserByExternalID(f)
         \/ CreateSession(f) /\ flow[f].disabled
  PROVE  SignInInv'
<1> DEFINE Alone(new) ==
      /\ flow' = [flow EXCEPT ![f] = new]
      /\ new \in MovedRecords
      /\ ~At(f, "done")
      /\ \/ new.at \in {"read", "refused"}
         \/ flow[f].at \notin {"idle", "read", "refused"} /\ new.state = flow[f].state
      /\ new.at \in {"claimed", "create", "retry", "found"} => new.account \in Accounts
      /\ new.at = "found" => new.user \in Ids /\ users[new.user].account = new.account
      /\ UNCHANGED <<users, states, sessions, login, request, switched>>
<1>0. ASSUME NEW new, Alone(new) PROVE SignInInv'
  BY <1>0, FlowStep
<1>1. flow[f] \in FlowRecords
  BY DEF SignInInv, TypeOK
<1>2. ~At(f, "idle") => flow[f].state \in States
  BY DEF SignInInv, Holding, FlowInv
<1>3. CASE ReadState(f)
  <2>1. PICK s \in States, at \in {"read", "refused"} :
          flow' = [flow EXCEPT ![f].state = s, ![f].at = at]
    BY <1>3 DEF ReadState
  <2> DEFINE new == [flow[f] EXCEPT !.state = s, !.at = at]
  <2>2. flow' = [flow EXCEPT ![f] = new]
    BY <2>1 DEF SignInInv, TypeOK
  <2>3. Alone(new)
    BY <1>1, <1>3, <2>2 DEF ReadState, At
  <2> QED BY <2>3, <1>0
<1>4. CASE ExchangeFails(f)
  <2> DEFINE new == [flow[f] EXCEPT !.at = "refused"]
  <2>1. Alone(new)
    BY <1>1, <1>2, <1>4 DEF ExchangeFails, At, Goes
  <2> QED BY <2>1, <1>0
<1>5. CASE Exchange(f)
  <2>1. PICK a \in Accounts : flow' = [flow EXCEPT ![f].at = "claimed", ![f].account = a]
    BY <1>5 DEF Exchange
  <2> DEFINE new == [flow[f] EXCEPT !.at = "claimed", !.account = a]
  <2>2. flow' = [flow EXCEPT ![f] = new]
    BY <2>1 DEF SignInInv, TypeOK
  <2>3. Alone(new)
    BY <1>1, <1>2, <1>5, <2>2 DEF Exchange, At
  <2> QED BY <2>3, <1>0
<1>6. CASE FindUserByExternalID(f)
  <2>1. flow[f].at = "claimed" /\ flow[f].account \in Accounts
    BY <1>6 DEF FindUserByExternalID, At, SignInInv, Holding, FlowInv
  <2>2. CASE AccountTaken(flow[f].account)
    <3>1. PICK u \in Ids : users[u].account = flow[f].account /\ Holds(f, u, users[u].disabled)
      BY <1>6, <2>2 DEF FindUserByExternalID
    <3> DEFINE new == [at |-> "found", state |-> flow[f].state, account |-> flow[f].account,
                       user |-> u, disabled |-> users[u].disabled]
    <3>2. flow' = [flow EXCEPT ![f] = new]
      BY <3>1 DEF Holds
    <3>3. users[u].disabled \in BOOLEAN
      BY DEF SignInInv, TypeOK
    <3>4. new \in MovedRecords
      BY <1>1, <1>2, <2>1, <3>3 DEF At
    <3>5. UNCHANGED <<users, states, sessions, login, request, switched>>
      BY <1>6 DEF FindUserByExternalID
    <3>6. Alone(new)
      BY <2>1, <3>1, <3>2, <3>4, <3>5 DEF At
    <3> QED BY <3>6, <1>0
  <2>3. CASE ~AccountTaken(flow[f].account)
    <3> DEFINE new == [flow[f] EXCEPT !.at = "create"]
    <3>1. Alone(new)
      BY <1>1, <1>2, <1>6, <2>1, <2>3 DEF FindUserByExternalID, At, Goes
    <3> QED BY <3>1, <1>0
  <2> QED BY <2>2, <2>3
<1>7. CASE CreateSession(f) /\ flow[f].disabled
  <2> DEFINE new == [flow[f] EXCEPT !.at = "refused"]
  <2>1. Alone(new)
    BY <1>1, <1>2, <1>7 DEF CreateSession, At, Goes
  <2> QED BY <2>1, <1>0
<1> QED BY <1>3, <1>4, <1>5, <1>6, <1>7

\* A flow creates its user.
LEMMA InsertInv ==
  ASSUME SignInInv, NEW f \in Flows, CreateOAuthUser(f) \/ RetryOAuthUser(f)
  PROVE  SignInInv'
<1> DEFINE a == flow[f].account
<1>1. /\ flow[f].at \in {"create", "retry"} /\ a \in Accounts /\ flow[f].state \in States
      /\ UNCHANGED <<states, sessions, login, request, switched>>
  BY DEF CreateOAuthUser, RetryOAuthUser, At, SignInInv, Holding, FlowInv
<1>2. PICK u \in Ids, name \in Names \cup (1..MaxUsers), clash \in {"retry", "error"} :
        NextId(u) /\ Insert(f, u, User(name, a, FALSE), clash)
  BY <1>1 DEF CreateOAuthUser, RetryOAuthUser
<1>3. CASE Clashes(User(name, a, FALSE))
  <2> DEFINE new == [flow[f] EXCEPT !.at = clash]
  <2>0. flow[f] \in FlowRecords
    BY DEF SignInInv, TypeOK
  <2>1. flow' = [flow EXCEPT ![f] = new] /\ UNCHANGED users
    BY <1>2, <1>3 DEF Insert, Goes
  <2>2. /\ new \in MovedRecords /\ new.at = clash /\ new.account = a
        /\ new.state = flow[f].state
    BY <1>1, <2>0
  <2>3. ~At(f, "done")
    BY <1>1 DEF At
  <2> HIDE DEF new
  <2> QED BY <1>1, <2>1, <2>2, <2>3, FlowStep
<1>4. CASE ~Clashes(User(name, a, FALSE))
  <2> DEFINE new == [at |-> "found", state |-> flow[f].state, account |-> a,
                     user |-> u, disabled |-> FALSE]
  <2>1. users' = [users EXCEPT ![u] = User(name, a, FALSE)] /\ flow' = [flow EXCEPT ![f] = new]
    BY <1>2, <1>4 DEF Insert, Holds
  <2>2. new \in FlowRecords
    BY <1>1
  <2>3. flow'[f] = new /\ \A g \in Flows : g # f => flow'[g] = flow[g]
    BY <2>1 DEF SignInInv, TypeOK
  <2>4. ~Exists(u)
    BY <1>2 DEF NextId
  <2>5. /\ users' \in [Ids -> [name : Names \cup (0..MaxUsers),
                              account : Accounts \cup {NoAccount}, disabled : BOOLEAN]]
        /\ users'[u].account = a
        /\ \A g \in Flows : flow[g].at \in {"found", "done"} =>
             users'[flow[g].user].account = flow[g].account
        /\ LoginInv' /\ RequestInv' /\ NamedInv' /\ OneUserPerAccount'
    BY <1>1, <1>4, <2>1, <2>4, UserAdded
  <2>6. TypeOK'
    BY <1>1, <2>1, <2>2, <2>5 DEF SignInInv, TypeOK
  <2>7. FlowInv'
    BY <1>1, <2>3, <2>5 DEF SignInInv, Holding, FlowInv, At
  <2>8. SessionInv'
    BY <1>1, <2>3 DEF SignInInv, Holding, SessionInv, At, NoSession
  <2>9. StateUsedOnce'
    BY <1>1, <2>3 DEF SignInInv, StateUsedOnce
  <2>10. BarredStaysOut'
    BY <1>1 DEF SignInInv, BarredStaysOut
  <2> QED BY <2>5, <2>6, <2>7, <2>8, <2>9, <2>10 DEF SignInInv, Holding
<1> QED BY <1>3, <1>4

LEMMA CreateUserInv == ASSUME SignInInv, CreateUser PROVE SignInInv'
<1>1. PICK u \in Ids, name \in Names :
        /\ ~Exists(u) /\ ~Clashes(User(name, NoAccount, FALSE))
        /\ users' = [users EXCEPT ![u] = User(name, NoAccount, FALSE)]
  BY DEF CreateUser, NextId
<1>2. UNCHANGED <<states, sessions, flow, login, request, switched>>
  BY DEF CreateUser, handlers
<1>3. /\ users' \in [Ids -> [name : Names \cup (0..MaxUsers),
                            account : Accounts \cup {NoAccount}, disabled : BOOLEAN]]
      /\ \A f \in Flows : flow[f].at \in {"found", "done"} =>
           users'[flow[f].user].account = flow[f].account
      /\ LoginInv' /\ RequestInv' /\ NamedInv' /\ OneUserPerAccount'
  BY <1>1, <1>2, UserAdded
<1>4. TypeOK'
  BY <1>2, <1>3 DEF SignInInv, TypeOK
<1>5. FlowInv' /\ SessionInv'
  BY <1>2, <1>3 DEF SignInInv, Holding, FlowInv, SessionInv, At
<1>6. StateUsedOnce' /\ BarredStaysOut'
  BY <1>2 DEF SignInInv, StateUsedOnce, BarredStaysOut
<1> QED BY <1>3, <1>4, <1>5, <1>6 DEF SignInInv, Holding

\* A handler that is not done creates its session, and is.
LEMMA SessionStep ==
  ASSUME SignInInv, NEW h \in Handlers, NEW u \in Ids, sessions[h] = NoSession,
         sessions' = [sessions EXCEPT ![h] = Session(u, h)],
         UNCHANGED <<users, states, request, switched>>
  PROVE  /\ sessions' \in [Handlers -> [user : 0..MaxUsers, by : Handlers \cup {"none"},
                                        revoked : BOOLEAN]]
         /\ sessions'[h].user = u
         /\ \A i \in Handlers : i # h => sessions'[i] = sessions[i]
         /\ RequestInv' /\ NamedInv' /\ OneUserPerAccount' /\ BarredStaysOut'
<1>1. Session(u, h) \in [user : 0..MaxUsers, by : Handlers \cup {"none"}, revoked : BOOLEAN]
  BY DEF Session
<1>2. /\ sessions'[h] = Session(u, h)
      /\ \A i \in Handlers : i # h => sessions'[i] = sessions[i]
  BY DEF SignInInv, TypeOK
<1>3. RequestInv'
  BY <1>2 DEF SignInInv, Holding, RequestInv
<1>4. NamedInv' /\ OneUserPerAccount' /\ BarredStaysOut'
  BY DEF SignInInv, Holding, NamedInv, Exists, OneUserPerAccount, BarredStaysOut
<1>5. sessions' \in [Handlers -> [user : 0..MaxUsers, by : Handlers \cup {"none"},
                                 revoked : BOOLEAN]]
  BY <1>1 DEF SignInInv, TypeOK
<1> QED BY <1>2, <1>3, <1>4, <1>5 DEF Session

LEMMA CreateSessionInv ==
  ASSUME SignInInv, NEW f \in Flows, CreateSession(f), ~flow[f].disabled
  PROVE  SignInInv'
<1> DEFINE u == flow[f].user
<1>1. /\ flow[f].at = "found" /\ u \in Ids
      /\ sessions' = [sessions EXCEPT ![f] = Session(u, f)]
      /\ flow' = [flow EXCEPT ![f].at = "done"]
      /\ UNCHANGED <<users, states, login, request, switched>>
  BY DEF CreateSession, At, Goes, SignInInv, Holding, FlowInv
<1>2. sessions[f] = NoSession
  BY <1>1 DEF SignInInv, Holding, SessionInv, At
<1>3. /\ sessions' \in [Handlers -> [user : 0..MaxUsers, by : Handlers \cup {"none"},
                                    revoked : BOOLEAN]]
      /\ sessions'[f].user = u
      /\ \A i \in Handlers : i # f => sessions'[i] = sessions[i]
      /\ RequestInv' /\ NamedInv' /\ OneUserPerAccount' /\ BarredStaysOut'
  <2> HIDE DEF u
  <2> QED BY <1>1, <1>2, SessionStep
<1>4. flow' \in [Flows -> FlowRecords]
  <2>1. flow[f] \in FlowRecords
    BY DEF SignInInv, TypeOK
  <2>2. [flow[f] EXCEPT !.at = "done"] \in FlowRecords
    BY <2>1
  <2>3. flow' = [flow EXCEPT ![f] = [flow[f] EXCEPT !.at = "done"]]
    BY <1>1
  <2> QED BY <2>2, <2>3 DEF SignInInv, TypeOK
<1>5. /\ flow'[f].at = "done" /\ flow'[f].state = flow[f].state
      /\ flow'[f].user = u /\ flow'[f].account = flow[f].account
      /\ \A g \in Flows : g # f => flow'[g] = flow[g]
  BY <1>1 DEF SignInInv, TypeOK
<1>6. TypeOK'
  BY <1>1, <1>3, <1>4 DEF SignInInv, TypeOK
<1>7. FlowInv' /\ StateUsedOnce'
  BY <1>1, <1>5 DEF SignInInv, Holding, FlowInv, StateUsedOnce, At
<1>8. LoginInv'
  BY <1>1 DEF SignInInv, Holding, LoginInv, Exists
<1>9. SessionInv'
  <2>1. f \notin Logins
    OBVIOUS
  <2>2. At(f, "done")' /\ sessions'[f].user = flow'[f].user
    BY <1>3, <1>5 DEF At
  <2>3. \A g \in Flows : g # f => sessions'[g] = sessions[g]
    BY <1>3
  <2>4. \A l \in Logins : sessions'[l] = sessions[l] /\ login'[l] = login[l]
    BY <1>1, <1>3, <2>1
  <2> HIDE DEF u
  <2> QED BY <1>5, <2>2, <2>3, <2>4 DEF SignInInv, Holding, SessionInv, At, NoSession
<1> QED BY <1>3, <1>6, <1>7, <1>8, <1>9 DEF SignInInv, Holding

LEMMA LoginInvStep ==
  ASSUME SignInInv, NEW l \in Logins, LoginFinds(l) \/ LoginCreatesSession(l)
  PROVE  SignInInv'
<1>1. CASE LoginFinds(l)
  <2>1. PICK u \in Ids : Exists(u) /\ login' = [login EXCEPT ![l] = [at |-> "found", user |-> u]]
    BY <1>1 DEF LoginFinds
  <2>2. login[l].at = "idle" /\ UNCHANGED <<users, states, sessions, flow, request, switched>>
    BY <1>1 DEF LoginFinds
  <2>3. TypeOK'
    BY <2>1, <2>2 DEF SignInInv, TypeOK
  <2>4. LoginInv'
    BY <2>1, <2>2 DEF SignInInv, TypeOK, Holding, LoginInv, Exists
  <2>5. SessionInv'
    BY <2>1, <2>2 DEF SignInInv, TypeOK, Holding, SessionInv, At, NoSession
  <2>6. FlowInv' /\ RequestInv' /\ NamedInv'
    BY <2>2 DEF SignInInv, Holding, FlowInv, RequestInv, NamedInv, Exists, At
  <2>7. StateUsedOnce' /\ OneUserPerAccount' /\ BarredStaysOut'
    BY <2>2 DEF SignInInv, StateUsedOnce, OneUserPerAccount, BarredStaysOut
  <2> QED BY <2>3, <2>4, <2>5, <2>6, <2>7 DEF SignInInv, Holding
<1>2. CASE LoginCreatesSession(l)
  <2> DEFINE u == login[l].user
  <2>1. /\ login[l].at = "found" /\ u \in Ids
        /\ sessions' = [sessions EXCEPT ![l] = Session(u, l)]
        /\ login' = [login EXCEPT ![l].at = "done"]
        /\ UNCHANGED <<users, states, flow, request, switched>>
    BY <1>2 DEF LoginCreatesSession, SignInInv, Holding, LoginInv
  <2>2. sessions[l] = NoSession
    BY <2>1 DEF SignInInv, Holding, SessionInv
  <2>3. /\ sessions' \in [Handlers -> [user : 0..MaxUsers, by : Handlers \cup {"none"},
                                      revoked : BOOLEAN]]
        /\ sessions'[l].user = u
        /\ \A i \in Handlers : i # l => sessions'[i] = sessions[i]
        /\ RequestInv' /\ NamedInv' /\ OneUserPerAccount' /\ BarredStaysOut'
    <3> HIDE DEF u
    <3> QED BY <2>1, <2>2, SessionStep
  <2>4. /\ login'[l].at = "done" /\ login'[l].user = u
        /\ \A k \in Logins : k # l => login'[k] = login[k]
    BY <2>1 DEF SignInInv, TypeOK
  <2>5. TypeOK'
    <3>1. login' \in [Logins -> [at : {"idle", "found", "done"}, user : 0..MaxUsers]]
      BY <2>1 DEF SignInInv, TypeOK
    <3>2. UNCHANGED <<users, states, flow, request, switched>>
      BY <2>1
    <3> QED BY <2>3, <3>1, <3>2 DEF SignInInv, TypeOK
  <2>6. LoginInv' /\ SessionInv'
    <3>1. \A f \in Flows : sessions'[f] = sessions[f] /\ flow'[f] = flow[f]
      BY <2>1, <2>3
    <3>2. \A k \in Logins : k # l => sessions'[k] = sessions[k]
      BY <2>3
    <3>3. UNCHANGED users
      BY <2>1
    <3>4. login[l].at \in {"found", "done"}
      BY <2>1
    <3> QED BY <2>3, <2>4, <3>1, <3>2, <3>3, <3>4
            DEF SignInInv, Holding, LoginInv, SessionInv, At, NoSession, Exists
  <2>7. FlowInv' /\ StateUsedOnce'
    BY <2>1 DEF SignInInv, Holding, FlowInv, StateUsedOnce, At
  <2> QED BY <2>3, <2>5, <2>6, <2>7 DEF SignInInv, Holding
<1> QED BY <1>1, <1>2

LEMMA FindSessionInv == ASSUME SignInInv, NEW r \in Requests, FindSession(r) PROVE SignInInv'
<1>1. UNCHANGED <<users, states, sessions, flow, login, switched>>
  BY DEF FindSession
<1>2. PICK h \in Handlers :
        /\ sessions[h] # NoSession
        /\ request' = [request EXCEPT ![r] =
             [at |-> IF sessions[h].revoked THEN "refused" ELSE "found",
              session |-> h, barred |-> Barred(h)]]
  BY DEF FindSession
<1>3. sessions[h].user \in Ids /\ sessions[h].revoked \in BOOLEAN
  BY <1>2, SessionUsers DEF SignInInv, TypeOK
<1>4. users[sessions[h].user].disabled \in BOOLEAN
  BY <1>3 DEF SignInInv, TypeOK
<1>5. PICK at \in {"found", "refused"}, barred \in BOOLEAN :
        /\ request' = [request EXCEPT ![r] = [at |-> at, session |-> h, barred |-> barred]]
        /\ at = "found" /\ barred => users[sessions[h].user].disabled
  <2>1. CASE sessions[h].revoked
    BY <1>2, <1>3, <1>4, <2>1 DEF Barred
  <2>2. CASE ~sessions[h].revoked
    BY <1>2, <1>3, <1>4, <2>2 DEF Barred
  <2> QED BY <2>1, <2>2
<1>6. TypeOK'
  <2>1. [at |-> at, session |-> h, barred |-> barred]
          \in [at : {"idle", "found", "accepted", "refused"},
               session : Handlers \cup {"none"}, barred : BOOLEAN]
    OBVIOUS
  <2> QED BY <1>1, <1>5, <2>1 DEF SignInInv, TypeOK
<1>7. RequestInv' /\ BarredStaysOut'
  BY <1>1, <1>2, <1>5 DEF SignInInv, TypeOK, Holding, RequestInv, BarredStaysOut
<1>8. FlowInv' /\ LoginInv' /\ SessionInv' /\ NamedInv'
  BY <1>1 DEF SignInInv, Holding, FlowInv, LoginInv, SessionInv, NamedInv, Exists, At
<1>9. StateUsedOnce' /\ OneUserPerAccount'
  BY <1>1 DEF SignInInv, StateUsedOnce, OneUserPerAccount
<1> QED BY <1>6, <1>7, <1>8, <1>9 DEF SignInInv, Holding

\* A request found barred is refused when its user is read.
LEMMA ReadUserInv == ASSUME SignInInv, NEW r \in Requests, ReadUser(r) PROVE SignInInv'
<1> DEFINE u == sessions[request[r].session].user
<1>1. request[r].at = "found" /\ UNCHANGED <<users, states, sessions, flow, login, switched>>
  BY DEF ReadUser
<1>2. PICK at \in {"refused", "accepted"} :
        /\ request' = [request EXCEPT ![r].at = at]
        /\ users[u].disabled => at = "refused"
  BY DEF ReadUser
<1>3. request[r].barred => users[u].disabled
  BY <1>1 DEF SignInInv, Holding, RequestInv
<1>4. TypeOK'
  <2>1. request[r] \in [at : {"idle", "found", "accepted", "refused"},
                       session : Handlers \cup {"none"}, barred : BOOLEAN]
    BY DEF SignInInv, TypeOK
  <2>2. [request[r] EXCEPT !.at = at] \in [at : {"idle", "found", "accepted", "refused"},
                                          session : Handlers \cup {"none"}, barred : BOOLEAN]
    BY <2>1
  <2>3. request' = [request EXCEPT ![r] = [request[r] EXCEPT !.at = at]]
    BY <1>2
  <2> QED BY <1>1, <2>2, <2>3 DEF SignInInv, TypeOK
<1>5. /\ request'[r].at = at /\ request'[r].session = request[r].session
      /\ request'[r].barred = request[r].barred
      /\ \A q \in Requests : q # r => request'[q] = request[q]
  BY <1>2 DEF SignInInv, TypeOK
<1>6. RequestInv' /\ BarredStaysOut'
  BY <1>1, <1>2, <1>3, <1>5 DEF SignInInv, Holding, RequestInv, BarredStaysOut
<1>7. FlowInv' /\ LoginInv' /\ SessionInv' /\ NamedInv'
  BY <1>1 DEF SignInInv, Holding, FlowInv, LoginInv, SessionInv, NamedInv, Exists, At
<1>8. StateUsedOnce' /\ OneUserPerAccount'
  BY <1>1 DEF SignInInv, StateUsedOnce, OneUserPerAccount
<1> QED BY <1>4, <1>6, <1>7, <1>8 DEF SignInInv, Holding

LEMMA LogoutInv == ASSUME SignInInv, NEW r \in Requests, Logout(r) PROVE SignInInv'
<1> DEFINE h == request[r].session
<1>1. /\ h \in Handlers /\ sessions[h] # NoSession
      /\ sessions' = [sessions EXCEPT ![h].revoked = TRUE]
      /\ UNCHANGED <<users, states, flow, login, request, switched>>
  BY DEF Logout, handlers, SignInInv, Holding, RequestInv
<1>2. /\ sessions'[h] # NoSession /\ sessions'[h].user = sessions[h].user
      /\ \A i \in Handlers : i # h => sessions'[i] = sessions[i]
  <2>1. sessions[h].user \in Ids
    BY <1>1, SessionUsers
  <2>2. sessions'[h].user = sessions[h].user
    BY <1>1 DEF SignInInv, TypeOK
  <2> QED BY <1>1, <2>1, <2>2 DEF NoSession
<1>3. TypeOK'
  <2>1. sessions[h] \in [user : 0..MaxUsers, by : Handlers \cup {"none"}, revoked : BOOLEAN]
    BY <1>1 DEF SignInInv, TypeOK
  <2>2. [sessions[h] EXCEPT !.revoked = TRUE]
          \in [user : 0..MaxUsers, by : Handlers \cup {"none"}, revoked : BOOLEAN]
    BY <2>1
  <2>3. sessions' = [sessions EXCEPT ![h] = [sessions[h] EXCEPT !.revoked = TRUE]]
    BY <1>1
  <2> HIDE DEF h
  <2> QED BY <1>1, <2>2, <2>3 DEF SignInInv, TypeOK
<1>4. SessionInv'
  BY <1>1, <1>2 DEF SignInInv, Holding, SessionInv, At
<1>5. RequestInv'
  BY <1>1, <1>2 DEF SignInInv, Holding, RequestInv
<1>6. FlowInv' /\ LoginInv' /\ NamedInv'
  BY <1>1 DEF SignInInv, Holding, FlowInv, LoginInv, NamedInv, Exists, At
<1>7. StateUsedOnce' /\ OneUserPerAccount' /\ BarredStaysOut'
  BY <1>1 DEF SignInInv, StateUsedOnce, OneUserPerAccount, BarredStaysOut
<1> QED BY <1>3, <1>4, <1>5, <1>6, <1>7 DEF SignInInv, Holding

\* Disabling a user bars requests that begin after it; whoever is enabled stays
\* the user it was.
LEMMA SwitchInv == ASSUME SignInInv, NEW u \in Ids, SetUserDisabled(u) PROVE SignInInv'
<1>1. /\ Exists(u) /\ switched < MaxSwitch /\ switched' = switched + 1
      /\ users' = [users EXCEPT ![u].disabled = ~@]
      /\ request' = [r \in Requests |->
           IF request[r].at = "found" /\ sessions[request[r].session].user = u
           THEN [request[r] EXCEPT !.barred = FALSE] ELSE request[r]]
      /\ UNCHANGED <<states, sessions, flow, login>>
  BY DEF SetUserDisabled
<1>2. /\ \A v \in Ids : /\ users'[v].name = users[v].name
                        /\ users'[v].account = users[v].account
      /\ \A v \in Ids : v # u => users'[v] = users[v]
  BY <1>1 DEF SignInInv, TypeOK
<1>3. users' \in [Ids -> [name : Names \cup (0..MaxUsers), account : Accounts \cup {NoAccount},
                        disabled : BOOLEAN]]
  <2>1. users[u] \in [name : Names \cup (0..MaxUsers), account : Accounts \cup {NoAccount},
                     disabled : BOOLEAN]
    BY DEF SignInInv, TypeOK
  <2>2. [users[u] EXCEPT !.disabled = ~users[u].disabled]
          \in [name : Names \cup (0..MaxUsers), account : Accounts \cup {NoAccount},
               disabled : BOOLEAN]
    BY <2>1
  <2>3. users' = [users EXCEPT ![u] = [users[u] EXCEPT !.disabled = ~users[u].disabled]]
    BY <1>1
  <2> QED BY <2>2, <2>3 DEF SignInInv, TypeOK
<1>4. request' \in [Requests -> [at : {"idle", "found", "accepted", "refused"},
                                session : Handlers \cup {"none"}, barred : BOOLEAN]]
  <2>1. ASSUME NEW r \in Requests
        PROVE  /\ request[r] \in [at : {"idle", "found", "accepted", "refused"},
                                  session : Handlers \cup {"none"}, barred : BOOLEAN]
               /\ [request[r] EXCEPT !.barred = FALSE]
                    \in [at : {"idle", "found", "accepted", "refused"},
                         session : Handlers \cup {"none"}, barred : BOOLEAN]
    <3>1. request[r] \in [at : {"idle", "found", "accepted", "refused"},
                         session : Handlers \cup {"none"}, barred : BOOLEAN]
      BY DEF SignInInv, TypeOK
    <3> QED BY <3>1
  <2> QED BY <1>1, <2>1
<1>5. TypeOK'
  BY <1>1, <1>3, <1>4 DEF SignInInv, TypeOK
<1>6. \A v \in Ids : Exists(v) => Exists(v)'
  BY <1>2 DEF SignInInv, Holding, NamedInv, Exists, NoUser, User
<1>7. NamedInv'
  <2>1. \A v \in Ids : Exists(v)' => Exists(v)
    BY <1>1, <1>2 DEF Exists
  <2> QED BY <1>2, <2>1 DEF SignInInv, Holding, NamedInv
<1>8. LoginInv' /\ FlowInv' /\ SessionInv'
  BY <1>1, <1>2, <1>6 DEF SignInInv, Holding, LoginInv, FlowInv, SessionInv, At
<1>9. \A r \in Requests :
        /\ request'[r].at = request[r].at /\ request'[r].session = request[r].session
        /\ request'[r].barred => request[r].barred
        /\ request[r].at = "found" /\ sessions[request[r].session].user = u => ~request'[r].barred
  <2>1. ASSUME NEW r \in Requests
        PROVE  request[r] \in [at : {"idle", "found", "accepted", "refused"},
                              session : Handlers \cup {"none"}, barred : BOOLEAN]
    BY DEF SignInInv, TypeOK
  <2> QED BY <1>1, <2>1
<1>10. RequestInv'
  <2>1. ASSUME NEW r \in Requests, request'[r].at = "found", request'[r].barred
        PROVE  users'[sessions'[request'[r].session].user].disabled
    <3> DEFINE v == sessions[request[r].session].user
    <3>1. request[r].at = "found" /\ request[r].barred /\ v # u
      BY <1>9, <2>1
    <3>2. users[v].disabled /\ v \in Ids
      BY <3>1, SessionUsers DEF SignInInv, Holding, RequestInv
    <3>3. users'[v].disabled
      BY <1>2, <3>1, <3>2
    <3>4. sessions'[request'[r].session].user = v
      BY <1>1, <1>9
    <3> QED BY <3>3, <3>4
  <2> QED BY <1>1, <1>9, <2>1 DEF SignInInv, Holding, RequestInv
<1>11. BarredStaysOut'
  BY <1>9 DEF SignInInv, BarredStaysOut
<1>12. StateUsedOnce'
  BY <1>1 DEF SignInInv, StateUsedOnce
<1>13. OneUserPerAccount'
  BY <1>2 DEF SignInInv, OneUserPerAccount
<1> QED BY <1>5, <1>7, <1>8, <1>10, <1>11, <1>12, <1>13 DEF SignInInv, Holding

-----------------------------------------------------------------------------

LEMMA SignInNext == SignInInv /\ [Next]_vars => SignInInv'
<1> SUFFICES ASSUME SignInInv, [Next]_vars PROVE SignInInv'
  OBVIOUS
<1>1. ASSUME NEW s \in States, BeginOAuthFlow(s) \/ Expire(s) \/ DeleteExpired(s) PROVE SignInInv'
  <2>1. states[s] # "gone"
    BY <1>1 DEF BeginOAuthFlow, Expire, DeleteExpired
  <2>2. PICK new \in {"live", "expired", "gone"} : states' = [states EXCEPT ![s] = new]
    BY <1>1 DEF BeginOAuthFlow, Expire, DeleteExpired
  <2>3. UNCHANGED <<users, sessions, handlers, switched>>
    BY <1>1 DEF BeginOAuthFlow, Expire, DeleteExpired
  <2> QED BY <2>1, <2>2, <2>3, StateStep
<1>2. ASSUME NEW f \in Flows, ReadState(f) \/ Complete(f) PROVE SignInInv'
  BY <1>2, TakeStateInv, FlowAloneInv, InsertInv, CreateSessionInv DEF Complete
<1>3. ASSUME NEW r \in Requests, FindSession(r) \/ ReadUser(r) \/ Logout(r) PROVE SignInInv'
  BY <1>3, FindSessionInv, ReadUserInv, LogoutInv
<1>4. CASE UNCHANGED vars
  <2>1. UNCHANGED <<users, states, sessions, flow, login, request, switched>>
    BY <1>4 DEF vars
  <2> QED BY <2>1 DEF SignInInv, TypeOK, Holding, FlowInv, LoginInv, SessionInv, RequestInv,
                      NamedInv, StateUsedOnce, OneUserPerAccount, BarredStaysOut, At, Exists
<1> QED BY <1>1, <1>2, <1>3, <1>4, LoginInvStep, CreateUserInv, SwitchInv DEF Next

\* The invariant that the theorems below follow from.
THEOREM SignInInductive == Spec => []SignInInv
BY SignInInit, SignInNext, PTL DEF Spec

\* Every variable has its type.
THEOREM TypeCorrect == Spec => []TypeOK
BY SignInInductive, PTL DEF SignInInv

\* However many flows share a state or sign in to an account for the first time
\* together: one goes on with the state, one user is made of the account, and
\* each flow's session is for the user of its own account.
THEOREM FlowsAndUsers == Spec => []OneFlowOneUser
<1>1. SignInInv => SignsInOwnUser
  BY DEF SignInInv, Holding, SessionInv, FlowInv, SignsInOwnUser, At
<1>2. SignInInv => OneFlowOneUser
  BY <1>1 DEF SignInInv, OneFlowOneUser
<1> QED BY <1>2, SignInInductive, PTL

\* A request that begins when its session is revoked or its user disabled is
\* never accepted.
THEOREM BarredAreRefused == Spec => []BarredStaysOut
BY SignInInductive, PTL DEF SignInInv

-----------------------------------------------------------------------------
(* Types of the schedules *)

\* Requests that asked for a schedule, and reloads that read their list or
\* ended without.
Asked == {s \in Savers : saving[s].at # "idle"}
Listed == {q \in Changers : saving[q].at \in {"listed", "done", "error"}}

\* Each request asks once and lists once, and every cron comes from a request.
CountInv ==
  /\ saves \in Nat /\ saves <= Cardinality(Asked)
  /\ reads <= Cardinality(Listed)
  /\ policy \in [Bases -> 0..saves]
  /\ entries \in [Bases -> 0..saves]
  /\ \A q \in Changers : saving[q].cron \in 0..saves /\ saving[q].list \in [Bases -> 0..saves]

LEMMA Numbered ==
  ASSUME ScheduleConstants
  PROVE  /\ IsFiniteSet(Changers)
         /\ IsFiniteSet(Asked) /\ Cardinality(Asked) \in Nat
         /\ IsFiniteSet(Listed) /\ Cardinality(Listed) \in Nat
         /\ Cardinality(Asked) <= Cardinality(Savers)
         /\ Cardinality(Listed) <= Cardinality(Changers)
         /\ Cardinality(Savers) \in Nat /\ Cardinality(Changers) \in Nat
<1>1. IsFiniteSet(Savers) /\ IsFiniteSet(Changers)
  BY FS_Union DEF ScheduleConstants, Changers
<1>2. Asked \subseteq Savers /\ Listed \subseteq Changers
  BY DEF Asked, Listed
<1> QED BY <1>1, <1>2, FS_Subset, FS_CardinalityType

\* Where a set of finitely many only grows, so does its count; and by one at
\* least where an element is new.
LEMMA Grows ==
  ASSUME NEW S, NEW T, IsFiniteSet(T), S \subseteq T
  PROVE  /\ Cardinality(S) \in Nat /\ Cardinality(T) \in Nat
         /\ Cardinality(S) <= Cardinality(T)
         /\ S # T => Cardinality(S) + 1 <= Cardinality(T)
<1>1. Cardinality(S) \in Nat /\ Cardinality(T) \in Nat /\ Cardinality(S) <= Cardinality(T)
  BY FS_Subset, FS_CardinalityType
<1>2. Cardinality(S) = Cardinality(T) => S = T
  BY FS_Subset
<1> QED BY <1>1, <1>2

LEMMA CountInit == ASSUME ScheduleConstants PROVE SchedulesInit => CountInv
<1> SUFFICES ASSUME SchedulesInit PROVE CountInv
  OBVIOUS
<1>1. saves = 0 /\ reads = 0
  BY DEF SchedulesInit
<1>2. Nothing \in [Bases -> 0..0]
  BY DEF Nothing, NotScheduled
<1>3. \A q \in Changers : saving[q].cron = 0 /\ saving[q].list = Nothing
  BY DEF SchedulesInit, Idle, Change, NotScheduled
<1>4. policy = Nothing /\ entries = Nothing
  BY DEF SchedulesInit
<1> QED BY <1>1, <1>2, <1>3, <1>4, Numbered DEF CountInv

\* What a step that makes no cron has to show.
LEMMA CountKeeps ==
  ASSUME ScheduleConstants, SettleInv, CountInv, saves' = saves,
         \A q \in Changers : saving[q].at # "idle" => saving'[q].at # "idle",
         \A q \in Changers :
           saving[q].at \in {"listed", "done", "error"} =>
             saving'[q].at \in {"listed", "done", "error"},
         \/ reads' = reads
         \/ /\ reads' = reads + 1
            /\ \E q \in Changers : q \in Listed' /\ q \notin Listed,
         policy' \in [Bases -> 0..saves], entries' \in [Bases -> 0..saves],
         \A q \in Changers :
           saving'[q].cron \in 0..saves /\ saving'[q].list \in [Bases -> 0..saves]
  PROVE  CountInv'
<1>1. Asked \subseteq Asked' /\ Listed \subseteq Listed'
  BY DEF Asked, Listed, Changers
<1>2. Asked' \subseteq Savers /\ Listed' \subseteq Changers
  BY DEF Asked, Listed
<1>3. IsFiniteSet(Asked') /\ IsFiniteSet(Listed')
  BY <1>2, Numbered, FS_Subset DEF ScheduleConstants
<1>4. /\ Cardinality(Asked) \in Nat /\ Cardinality(Asked') \in Nat
      /\ Cardinality(Asked) <= Cardinality(Asked')
  BY <1>1, <1>3, Grows
<1>5. /\ Cardinality(Listed) \in Nat /\ Cardinality(Listed') \in Nat
      /\ Cardinality(Listed) <= Cardinality(Listed')
      /\ Listed # Listed' => Cardinality(Listed) + 1 <= Cardinality(Listed')
  BY <1>1, <1>3, Grows
<1>6. Cardinality(Asked') = Cardinality(Asked)' /\ Cardinality(Listed') = Cardinality(Listed)'
  OBVIOUS
<1>7. reads \in Nat
  BY DEF SettleInv, ReadsInv
<1>8. (saves \in Nat /\ saves <= Cardinality(Asked))'
  BY <1>4, <1>6 DEF CountInv
<1>9. (reads <= Cardinality(Listed))'
  <2>1. CASE reads' = reads
    BY <1>5, <1>6, <1>7, <2>1 DEF CountInv
  <2>2. CASE reads' # reads
    <3>1. reads' = reads + 1 /\ Listed # Listed'
      BY <2>2
    <3> QED BY <1>5, <1>6, <1>7, <3>1 DEF CountInv
  <2> QED BY <2>1, <2>2
<1> QED BY <1>8, <1>9 DEF CountInv

LEMMA CountAsk ==
  ASSUME ScheduleConstants, SettleInv, CountInv, NEW s \in Savers, Ask(s) PROVE CountInv'
<1> s \in Changers
  BY DEF Changers
<1>1. PICK b \in Bases, on \in BOOLEAN :
        /\ saves' = IF on THEN saves + 1 ELSE saves
        /\ saving' = [saving EXCEPT ![s] =
             Change("asked", b, IF on THEN saves + 1 ELSE NotScheduled)]
  BY DEF Ask
<1>2. /\ saving[s].at = "idle"
      /\ UNCHANGED <<policy, entries, up, reads, applied, orderly, missed>>
  BY DEF Ask, ChangeAt
<1>3. DOMAIN saving = Changers
  BY DEF SettleInv, ReadsInv
<1>4. /\ saving'[s].at = "asked"
      /\ saving'[s].cron = IF on THEN saves + 1 ELSE 0
      /\ saving'[s].list = Nothing
      /\ \A q \in Changers \ {s} : saving'[q] = saving[q]
  BY <1>1, <1>3 DEF Change, NotScheduled
<1>5. saves' \in Nat /\ 0..saves \subseteq 0..saves' /\ saves' <= saves + 1
  BY <1>1 DEF CountInv
<1>6. (saves <= Cardinality(Asked))'
  <2>1. Asked \subseteq Asked' /\ Asked # Asked' /\ Asked' \subseteq Savers
    BY <1>2, <1>4 DEF Asked, Changers
  <2>2. IsFiniteSet(Asked')
    BY <2>1, FS_Subset DEF ScheduleConstants
  <2>3. /\ Cardinality(Asked) \in Nat /\ Cardinality(Asked') \in Nat
        /\ Cardinality(Asked) + 1 <= Cardinality(Asked')
    BY <2>1, <2>2, Grows
  <2>4. Cardinality(Asked') = Cardinality(Asked)'
    OBVIOUS
  <2> QED BY <1>5, <2>3, <2>4 DEF CountInv
<1>7. (reads <= Cardinality(Listed))'
  <2>1. Listed' = Listed
    BY <1>2, <1>4 DEF Listed
  <2> QED BY <1>2, <2>1 DEF CountInv
<1>8. Nothing \in [Bases -> 0..saves']
  BY <1>5 DEF Nothing, NotScheduled
<1>9. saving'[s].cron \in 0..saves'
  BY <1>1, <1>4, <1>5 DEF CountInv
<1>10. \A q \in Changers :
         saving'[q].cron \in 0..saves' /\ saving'[q].list \in [Bases -> 0..saves']
  BY <1>4, <1>5, <1>8, <1>9 DEF CountInv
<1>11. policy' \in [Bases -> 0..saves'] /\ entries' \in [Bases -> 0..saves']
  BY <1>2, <1>5 DEF CountInv
<1> QED BY <1>5, <1>6, <1>7, <1>10, <1>11 DEF CountInv

LEMMA CountNext ==
  ASSUME ScheduleConstants, SettleInv, CountInv, [SchedulesNext]_schedulesVars PROVE CountInv'
<1>1. DOMAIN saving = Changers /\ Savers \subseteq Changers /\ Cleaners \subseteq Changers
  BY DEF SettleInv, ReadsInv, Changers
<1>2. Nothing \in [Bases -> 0..saves]
  BY DEF CountInv, Nothing, NotScheduled
<1>3. ASSUME NEW s \in Savers, UpsertPolicy(s) PROVE CountInv'
  <2>1. saving[s].at = "asked" /\ saving' = [saving EXCEPT ![s].at = "saved"] /\ s \in Changers
    BY <1>1, <1>3 DEF UpsertPolicy, ChangeAt, ChangeGoes
  <2>2. policy' \in [Bases -> 0..saves]
    BY <1>3, <2>1 DEF UpsertPolicy, CountInv
  <2>3. UNCHANGED <<entries, reads, saves>>
    BY <1>3 DEF UpsertPolicy
  <2>4. \A q \in Changers :
          /\ saving'[q].cron = saving[q].cron /\ saving'[q].list = saving[q].list
          /\ q # s => saving'[q].at = saving[q].at
          /\ q = s => saving'[q].at = "saved"
    BY <1>1, <2>1 DEF SettleInv, ReadsInv
  <2> QED BY <2>1, <2>2, <2>3, <2>4, CountKeeps DEF CountInv
<1>4. ASSUME NEW c \in Cleaners, DeletePolicies(c) PROVE CountInv'
  <2>1. saving[c].at = "idle" /\ saving' = [saving EXCEPT ![c].at = "saved"] /\ c \in Changers
    BY <1>1, <1>4 DEF DeletePolicies, ChangeAt, ChangeGoes
  <2>2. policy' = Nothing /\ UNCHANGED <<entries, reads, saves>>
    BY <1>4 DEF DeletePolicies
  <2>3. \A q \in Changers :
          /\ saving'[q].cron = saving[q].cron /\ saving'[q].list = saving[q].list
          /\ q # c => saving'[q].at = saving[q].at
          /\ q = c => saving'[q].at = "saved"
    BY <1>1, <2>1 DEF SettleInv, ReadsInv
  <2> QED BY <1>2, <2>1, <2>2, <2>3, CountKeeps DEF CountInv
<1>5. ASSUME NEW q \in Changers, ListEnabled(q) PROVE CountInv'
  <2>1. /\ saving[q].at = "saved" /\ reads' = reads + 1
        /\ saving' = [saving EXCEPT ![q].at = "listed", ![q].list = policy, ![q].read = reads + 1]
        /\ UNCHANGED <<policy, entries, saves>>
    BY <1>5 DEF ListEnabled, ChangeAt, Enabled
  <2>2. \A p \in Changers :
          /\ saving'[p].cron = saving[p].cron
          /\ p # q => saving'[p] = saving[p]
          /\ p = q => saving'[p].at = "listed" /\ saving'[p].list = policy
    BY <1>1, <2>1 DEF SettleInv, ReadsInv
  <2>3. q \in Listed' /\ q \notin Listed
    BY <2>1, <2>2 DEF Listed
  <2> QED BY <2>1, <2>2, <2>3, CountKeeps DEF CountInv
<1>6. ASSUME NEW q \in Changers, ListFails(q) PROVE CountInv'
  <2>1. PICK at \in {"error", "done"} : saving' = [saving EXCEPT ![q].at = at]
    BY <1>6 DEF ListFails, ChangeGoes
  <2>2. UNCHANGED <<policy, entries, reads, saves>>
    BY <1>6 DEF ListFails
  <2>3. \A p \in Changers :
          /\ saving'[p].cron = saving[p].cron /\ saving'[p].list = saving[p].list
          /\ p # q => saving'[p].at = saving[p].at
          /\ p = q => saving'[p].at = at
    BY <1>1, <2>1 DEF SettleInv, ReadsInv
  <2> QED BY <2>1, <2>2, <2>3, CountKeeps DEF CountInv
<1>7. ASSUME NEW q \in Changers, Apply(q) PROVE CountInv'
  <2>1. /\ saving' = [saving EXCEPT ![q].at = "done"]
        /\ entries' = saving[q].list /\ UNCHANGED <<policy, reads, saves>>
    BY <1>7 DEF Apply, ChangeGoes
  <2>2. \A p \in Changers :
          /\ saving'[p].cron = saving[p].cron /\ saving'[p].list = saving[p].list
          /\ p # q => saving'[p].at = saving[p].at
          /\ p = q => saving'[p].at = "done"
    BY <1>1, <2>1 DEF SettleInv, ReadsInv
  <2> QED BY <2>1, <2>2, CountKeeps DEF CountInv
<1>8. CASE ProcessStops
  <2>1. entries' = Nothing /\ UNCHANGED <<policy, reads, saves>>
    BY <1>8 DEF ProcessStops
  <2>2. \A p \in Changers :
          /\ saving'[p].cron = 0 /\ saving'[p].list = Nothing
          /\ saving[p].at = "idle" => saving'[p].at = "idle"
          /\ saving[p].at # "idle" => saving'[p].at = "error"
    BY <1>8 DEF ProcessStops, Idle, Change, NotScheduled
  <2> QED BY <1>2, <2>1, <2>2, CountKeeps DEF CountInv
<1>9. CASE Start
  BY <1>9, CountKeeps DEF Start, Enabled, CountInv
<1>10. CASE UNCHANGED schedulesVars
  BY <1>10, CountKeeps DEF schedulesVars, CountInv
<1> QED
  BY <1>3, <1>4, <1>5, <1>6, <1>7, <1>8, <1>9, <1>10, CountAsk DEF SchedulesNext, Reload

\* Every variable of the schedules has its type: a save makes one cron, and a
\* save or a cleanup lists once.
THEOREM SchedulesTypeCorrect ==
  ASSUME ScheduleConstants PROVE SchedulesSpec => []SchedulesTypeOK
<1>1. SettleInv /\ CountInv => SchedulesTypeOK
  <2> SUFFICES ASSUME SettleInv, CountInv PROVE SchedulesTypeOK
    OBVIOUS
  <2>1. saves \in Crons /\ 0..saves \subseteq Crons
    BY Numbered DEF CountInv, Crons
  <2>2. reads \in 0..Cardinality(Changers)
    BY Numbered DEF CountInv, SettleInv, ReadsInv
  <2>3. \A q \in Changers :
          /\ saving[q].at \in {"idle", "asked", "saved", "listed", "done", "error"}
          /\ saving[q].read \in 0..reads
    BY DEF SettleInv, ReadsInv
  <2>4. /\ applied \in 0..reads
        /\ up \in BOOLEAN /\ orderly \in BOOLEAN /\ missed \in BOOLEAN
    BY DEF SettleInv, ReadsInv
  <2> HIDE DEF Crons
  <2>5. policy \in [Bases -> Crons] /\ entries \in [Bases -> Crons]
    BY <2>1 DEF CountInv
  <2>6. \A q \in Changers : saving[q].list \in [Bases -> Crons]
    BY <2>1 DEF CountInv
  <2> QED BY <2>1, <2>2, <2>3, <2>4, <2>5, <2>6 DEF SchedulesTypeOK
<1>2. SettleInv /\ CountInv /\ [SchedulesNext]_schedulesVars => (SettleInv /\ CountInv)'
  BY SettleNext, CountNext
<1>3. SchedulesInit => SettleInv /\ CountInv
  BY SettleInit, CountInit
<1> QED BY <1>1, <1>2, <1>3, PTL DEF SchedulesSpec

-----------------------------------------------------------------------------
(* All of it *)

\* The parts share no state: what requests do, each part does.
THEOREM RequestsApart == RequestsSpec => Spec /\ ConnectionSpec /\ SchedulesSpec
<1>1. RequestsInit => Init /\ ConnectionInit /\ SchedulesInit
  BY DEF RequestsInit
<1>2. [RequestsNext]_allVars => [Next]_vars
  BY DEF RequestsNext, allVars
<1>3. [RequestsNext]_allVars => [ConnectionNext]_connectionVars
  BY DEF RequestsNext, allVars
<1>4. [RequestsNext]_allVars => [SchedulesNext]_schedulesVars
  BY DEF RequestsNext, allVars
<1> QED
  BY <1>1, <1>2, <1>3, <1>4, PTL DEF RequestsSpec, Spec, ConnectionSpec, SchedulesSpec

\* Every variable of every part has its type, for any requests.
THEOREM RequestTypes == RequestsSpec => []TypesOK
<1>1. ConnectionSpec => []ConnectionTypeOK
  BY StoredPairVerified, RequestConstants, PTL
<1>2. SchedulesSpec => []SchedulesTypeOK
  BY SchedulesTypeCorrect, RequestConstants
<1>3. TypeOK /\ ConnectionTypeOK /\ SchedulesTypeOK => TypesOK
  BY DEF TypesOK
<1> QED BY <1>1, <1>2, <1>3, TypeCorrect, RequestsApart, PTL

\* What requests do keeps what each part promises: a flow signs in one user,
\* who is barred stays out, the stored pair was verified, and the cron entries
\* settle on the policies.
THEOREM RequestsKept ==
  RequestsSpec => [](OneFlowOneUser /\ BarredStaysOut /\ PairVerified /\ SettledSchedules)
<1>1. ConnectionSpec => []PairVerified
  BY StoredPairVerified, RequestConstants, PTL
<1> QED
  BY <1>1, RequestsApart, FlowsAndUsers, BarredAreRefused, EntriesFollowPolicies, PTL
=============================================================================
