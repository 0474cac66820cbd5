----------------------------- MODULE Connection -----------------------------
(***************************************************************************)
(* The connection service and one connection: the requests that save,      *)
(* test and delete it, each working on the row it loaded earlier, and the  *)
(* background runs that report its health.                                 *)
(***************************************************************************)
EXTENDS Integers, FiniteSets

CONSTANTS Editors,    \* concurrent UpdateConnection requests
          Testers,    \* concurrent TestConnection requests
          Reporters,  \* background runs that may report at a time
          Configs,    \* configurations a person may save
          MaxSecrets  \* secrets a person ever types

ConnectionConstants ==
  /\ Configs # {}
  /\ MaxSecrets \in Nat \ {0}

VARIABLES
  conn,     \* the row: exists, config, secret, status
  edit,     \* updates: the row loaded, and what is to be written
  test,     \* tests: the settings loaded, then the outcome of Verify
  report,   \* RecordStatus calls
  deleting, \* the DeleteConnection request
  secrets,  \* secrets typed so far
  verified, \* history: pairs of config and secret that Verify accepted
  alerted   \* history: alerts raised since the row last turned from ok to error

requests == <<edit, test, deleting>>
history  == <<verified, alerted>>
connectionVars == <<conn, requests, report, secrets, history>>

NoConfig == "none"
Secrets  == 0..MaxSecrets \* 0: none
Pairs    == Configs \X (1..MaxSecrets)
Statuses == {"ok", "error"}

Row(state, config, sec, status) ==
  [state |-> state, config |-> config, secret |-> sec, status |-> status]
Absent == Row("none", NoConfig, 0, "ok")
Rows == [state : {"none", "kept", "gone"}, config : Configs \cup {NoConfig},
         secret : Secrets, status : Statuses]

NoEdit   == [at |-> "idle", row |-> Absent, asks |-> "name"]
NoTest   == [at |-> "idle", outcome |-> "ok"]
NoReport == [at |-> "idle", before |-> "none", outcome |-> "ok", turn |-> FALSE]

ConnectionTypeOK ==
  /\ conn \in Rows
  /\ edit \in [Editors -> [at : {"idle", "loaded", "verified"}, row : Rows,
                           asks : {"name", "config", "secret"}]]
  /\ test \in [Testers -> [at : {"idle", "loaded", "verified"}, outcome : Statuses]]
  /\ report \in [Reporters -> [at : {"idle", "read", "set"},
                               before : Statuses \cup {"none"},
                               outcome : Statuses, turn : BOOLEAN]]
  /\ deleting \in {"idle", "loaded", "cleaned"}
  /\ secrets \in Secrets
  /\ verified \subseteq Pairs
  /\ alerted \in Nat

ConnectionInit ==
  /\ conn = Absent
  /\ edit = [e \in Editors |-> NoEdit]
  /\ test = [t \in Testers |-> NoTest]
  /\ report = [r \in Reporters |-> NoReport]
  /\ deleting = "idle"
  /\ secrets = 0
  /\ verified = {}
  /\ alerted = 0

Kept == conn.state = "kept"

\* conn' is row; turning from ok to error begins an outage.
Turns(row) == conn.status = "ok" /\ row.status = "error"

Put(row) ==
  /\ conn' = row
  /\ alerted' = IF Turns(row) THEN 0 ELSE alerted

\* No report made so far is about the outage that row begins.
Outdated(row) ==
  [r \in Reporters |-> IF Turns(row) THEN [report[r] EXCEPT !.turn = FALSE]
                                    ELSE report[r]]

-----------------------------------------------------------------------------
(* Creating and updating *)

NewSecret == secrets < MaxSecrets /\ secrets' = secrets + 1

\* Create verifies the settings, then inserts a row that is ok.
Create(k) ==
  /\ conn = Absent
  /\ NewSecret
  /\ conn' = Row("kept", k, secrets', "ok")
  /\ verified' = verified \cup {<<k, secrets'>>}
  /\ UNCHANGED <<requests, report, alerted>>

LoadForUpdate(e) ==
  /\ edit[e] = NoEdit
  /\ Kept
  /\ edit' = [edit EXCEPT ![e] = [at |-> "loaded", row |-> conn, asks |-> "name"]]
  /\ UNCHANGED <<conn, test, deleting, report, secrets, history>>

\* Settings that differ from the loaded row are verified as a pair, and the row
\* to write becomes ok; Verify refusing them ends the request.
VerifyUpdate(e, k) ==
  LET row == edit[e].row IN
  /\ edit[e].at = "loaded"
  /\ \/ /\ k # row.config
        /\ edit' = [edit EXCEPT ![e] =
             [at |-> "verified", asks |-> "config",
              row |-> [row EXCEPT !.config = k, !.status = "ok"]]]
        /\ verified' = verified \cup {<<k, row.secret>>}
        /\ UNCHANGED secrets
     \/ /\ NewSecret
        /\ edit' = [edit EXCEPT ![e] =
             [at |-> "verified", asks |-> "secret",
              row |-> Row("kept", k, secrets', "ok")]]
        /\ verified' = verified \cup {<<k, secrets'>>}
  /\ UNCHANGED <<conn, test, deleting, report, alerted>>

RefuseUpdate(e) ==
  /\ edit[e].at = "loaded"
  /\ edit' = [edit EXCEPT ![e] = NoEdit]
  /\ UNCHANGED <<conn, test, deleting, report, secrets, history>>

\* Unchanged settings are not verified; the loaded row is written back with
\* another name.
Rename(e) ==
  /\ edit[e].at = "loaded"
  /\ edit' = [edit EXCEPT ![e].at = "verified"]
  /\ UNCHANGED <<conn, test, deleting, report, secrets, history>>

\* Mutant: only what the request changes is written.
WriteChangedFields(e) ==
  /\ edit[e].at = "verified"
  /\ edit' = [edit EXCEPT ![e] = NoEdit]
  /\ IF Kept
       THEN /\ Put([edit[e].row EXCEPT !.secret =
                      IF edit[e].asks = "secret" THEN @ ELSE conn.secret])
            /\ report' = Outdated(edit[e].row)
       ELSE UNCHANGED <<conn, alerted, report>>
  /\ UNCHANGED <<test, deleting, secrets, verified>>

\* The whole row is written: config, secret and status.
WriteUpdate(e) ==
  /\ edit[e].at = "verified"
  /\ edit' = [edit EXCEPT ![e] = NoEdit]
  /\ IF Kept
       THEN Put(edit[e].row) /\ report' = Outdated(edit[e].row)
       ELSE UNCHANGED <<conn, alerted, report>>
  /\ UNCHANGED <<test, deleting, secrets, verified>>

-----------------------------------------------------------------------------
(* Testing and deleting *)

LoadForTest(t) ==
  /\ test[t] = NoTest
  /\ Kept
  /\ test' = [test EXCEPT ![t].at = "loaded"]
  /\ UNCHANGED <<conn, edit, deleting, report, secrets, history>>

VerifyTest(t) ==
  /\ test[t].at = "loaded"
  /\ \E o \in Statuses : test' = [test EXCEPT ![t] = [at |-> "verified", outcome |-> o]]
  /\ UNCHANGED <<conn, edit, deleting, report, secrets, history>>

\* The outcome becomes the status; a person sees it and no alert is raised.
WriteTest(t) ==
  /\ test[t].at = "verified"
  /\ test' = [test EXCEPT ![t] = NoTest]
  /\ LET row == [conn EXCEPT !.status = test[t].outcome] IN
       IF Kept
         THEN Put(row) /\ report' = Outdated(row)
         ELSE UNCHANGED <<conn, alerted, report>>
  /\ UNCHANGED <<edit, deleting, secrets, verified>>

LoadForDelete ==
  /\ deleting = "idle"
  /\ Kept
  /\ deleting' = "loaded"
  /\ UNCHANGED <<conn, edit, test, report, secrets, history>>

\* The provider's Cleanup; an error of it ends the request.
CleanupDone ==
  /\ deleting = "loaded"
  /\ deleting' \in {"cleaned", "idle"}
  /\ UNCHANGED <<conn, edit, test, report, secrets, history>>

\* Mutant: the row is marked, with a state nothing knows.
DeleteRowMarked ==
  /\ deleting = "cleaned"
  /\ deleting' = "idle"
  /\ conn' = [conn EXCEPT !.state = "deleted"]
  /\ UNCHANGED <<edit, test, report, secrets, history>>

DeleteRow ==
  /\ deleting = "cleaned"
  /\ deleting' = "idle"
  /\ conn' = IF Kept THEN [Absent EXCEPT !.state = "gone"] ELSE conn
  /\ UNCHANGED <<edit, test, report, secrets, history>>

-----------------------------------------------------------------------------
(* RecordStatus *)

\* The row is read first; a read that fails leaves before empty.
ReadBefore(r) ==
  /\ report[r] = NoReport
  /\ \E o \in Statuses, before \in Statuses \cup {"none"} :
       /\ before \in {IF Kept THEN conn.status ELSE "none", "none"}
       /\ report' = [report EXCEPT ![r] = [at |-> "read", before |-> before,
                                           outcome |-> o, turn |-> FALSE]]
  /\ UNCHANGED <<conn, requests, secrets, history>>

SetStatus(r) ==
  LET row == [conn EXCEPT !.status = report[r].outcome] IN
  /\ report[r].at = "read"
  /\ Kept
  /\ Put(row)
  /\ report' = [Outdated(row) EXCEPT ![r].at = "set", ![r].turn = TRUE]
  /\ UNCHANGED <<requests, secrets, verified>>

\* SetStatus fails, or finds no row: the call ends.
SetStatusFails(r) ==
  /\ report[r].at = "read"
  /\ report' = [report EXCEPT ![r] = NoReport]
  /\ UNCHANGED <<conn, requests, secrets, history>>

\* Mutant: every failure raises an alert.
AlertsAlways(r) == report[r].outcome = "error"

\* An outcome of error raises an alert when the status read before was ok.
Alerts(r) == report[r].outcome = "error" /\ report[r].before = "ok"

NotifyTurn(r) ==
  /\ report[r].at = "set"
  /\ report' = [report EXCEPT ![r] = NoReport]
  /\ alerted' = IF report[r].turn /\ Alerts(r) THEN alerted + 1 ELSE alerted
  /\ UNCHANGED <<conn, requests, secrets, verified>>

-----------------------------------------------------------------------------
\* The process stops: its requests and runs are gone.
Crash ==
  /\ edit' = [e \in Editors |-> NoEdit]
  /\ test' = [t \in Testers |-> NoTest]
  /\ report' = [r \in Reporters |-> NoReport]
  /\ deleting' = "idle"
  /\ UNCHANGED <<conn, secrets, history>>

ConnectionNext ==
  \/ \E k \in Configs : Create(k)
  \/ \E e \in Editors :
       \/ LoadForUpdate(e) \/ RefuseUpdate(e) \/ Rename(e) \/ WriteUpdate(e)
       \/ \E k \in Configs : VerifyUpdate(e, k)
  \/ \E t \in Testers : LoadForTest(t) \/ VerifyTest(t) \/ WriteTest(t)
  \/ LoadForDelete \/ CleanupDone \/ DeleteRow
  \/ \E r \in Reporters :
       ReadBefore(r) \/ SetStatus(r) \/ SetStatusFails(r) \/ NotifyTurn(r)
  \/ Crash

ConnectionSpec == ConnectionInit /\ [][ConnectionNext]_connectionVars
-----------------------------------------------------------------------------
(* Properties *)

\* The config and the secret that are stored were verified together, whichever
\* updates and in whatever order wrote the row.
PairVerified == Kept => <<conn.config, conn.secret>> \in verified

\* An outage raises an alert once, however the runs that find it, updates,
\* tests and restarts follow each other; one run reports at a time.
OncePerOutage == alerted <= 1

=============================================================================
