# Verification of Neo Box

Neo Box is a Go server with a web front end. It keeps Connections to NocoDB,
Cloudflare, Google Workspace and Wasabi; it takes Snapshots of NocoDB Bases,
on request and on the schedule of a Backup Policy, and restores them; it
collects usage, runs changes against the providers and raises alerts. The
state is in PostgreSQL and in a blob store (a directory or an S3 bucket); a
single process works on it with a handful of goroutines, and all that
coordinates them is in that process's memory.

This directory holds TLA+ models of that program, the TLC configurations that
check them and proofs that TLAPS checks. `PROJECT.json` maps every definition
to the lines it models.

## The system

| component | state | operations | what makes it correct |
| --- | --- | --- | --- |
| snapshot jobs (`internal/backup/manager.go`) | `nocodb_snapshots`, gzip documents in the blob store, the in-flight map, a bounded queue, `Workers` goroutines | `Enqueue`, `execute`, `capture`, `applyRetention`, `DeleteSnapshot`, `Start` | one job per Base; a row tells what its job does; every row ends; retention keeps the newest and deletes the rest |
| schedules (same file) | cron entries by policy | `ReloadSchedules`, `runScheduled` | the entries are those of the enabled policies |
| restores (`backup/restore.go`, `snapshot/restore*.go`) | `nocodb_restores`, a bounded queue, one goroutine | `EnqueueRestore`, `executeRestore` | every restore ends; its Snapshot is there while it is read |
| attachment files (`backup/files.go`) | `nocodb_files`, `nocodb_snapshot_files`, `nocodb_file_sources`, contents in the blob store, `filesMu` | `Store`, `register`, `releaseFiles`, `collectFiles` | a file is stored while a Snapshot holds it, and deleted when none does |
| cleanup (`backup/provider.go`) | the above | `Cleanup`, called by `connection.Service.Delete` | nothing of a deleted Connection is left, and nothing in progress is cut off |
| connections (`connection/connection.go`) | `connections` | `Create`, `Update`, `Verify`, `RecordStatus`, `Delete` | what is stored was verified; one alert per outage |
| alerts (`notify/notify.go`) | `alerts`, channels, a bounded queue, one goroutine | `Notify`, `deliver`, `Start` | one alert per key; an alert reaches a channel, if one works, within a day of restarts |
| Wasabi sync (`wasabisync/manager.go`) | sync states, usage, bucket settings, a queue, one goroutine, the sets pending and cancelled | `Refresh`, `run`, `sync`, `forget` | no day skipped; no sync of a deleted Connection |
| operation logs (`cloudflareacct/operations.go`, `application/google_workspace_operations.go`) | a row for every write to a provider | `operate`, the client's `doWith` | nothing is sent unlogged or made twice; the log and the answer are true |
| Zone Rules (`cloudflareacct/rules.go`) | a ruleset at Cloudflare, a lock by resource | create, update, delete, reorder | a change undoes nothing its person could have seen |
| Tunnels (`cloudflareacct/tunnels.go`, `cloudflare/ingress.go`) | a Tunnel's ingress and DNS records at Cloudflare | `CreatePublicHostname`, update, delete | a hostname changes alone; a foreign record is left alone |
| Email Routing (`cloudflareacct/email.go`) | rules, catch-all and destinations at Cloudflare | create, update, delete | one rule per address; what forwards, forwards to a verified address |
| sign-in (`application/auth*.go`) | users, sessions, OAuth states | `BeginOAuthFlow`, `CompleteOAuthFlow`, `upsertOAuthUser`, `Login`, `Logout` | one user per external account; one use per state; nobody barred comes in |
| restore of a Base (`snapshot/restore_*.go`) | the fields and records made so far | `createRelations`, `restoreRecords`, `createVirtualFields` | every field is restored once or reported; links come back |
| NocoDB client (`nocodb/client.go`) | none | `do` | no write is repeated unless it was refused |
| table cache (`application/nocodb_service.go`) | recently browsed tables | `get`, `dropSnapshot` | bounded; nothing of a deleted Snapshot |

Requests run in goroutines of their own, cron entries and workers beside them.
They share the maps under `Manager.mu`, the channels, `filesMu`, and rows they
read and write in separate calls: most of what can go wrong is a step of
somebody else between a read and the write it justifies. The database and the
blob store are two systems without a common transaction, so a failing call or
a crash between two of them leaves one without the other. `PROJECT.json` lists
these hazards by line.

How the parts meet: a request of a person, a cron entry and a worker may all
reach one manager at once; `connection.Service.Delete` calls the `Cleanup` of
the backup and of the Wasabi manager before it deletes the row; the workers
report to `connection.RecordStatus` and `notify.Notify`; a schedule's entry
calls `Enqueue`; every handler that writes to Cloudflare or Google goes through
the operation log and the client's rule of what may be sent again.

## The modules

A step of a model is one critical section, one channel operation, one database
call, one blob call or one request to a provider; where a handler returns early
the action says so. What a provider or a failing call answers is a choice. A
database write that reports an error may have been applied; so may a request
whose answer was lost. History variables are marked `history` where they are
declared, and what is at a provider `external`.

### Snapshots, restores and their files

**SnapshotJobs** models `Enqueue`, the queue, the in-flight map and `execute`
up to retention. **Backup** extends it with what runs beside it:
`applyRetention`'s loop and `DeleteSnapshot` (by a worker, by a request, by
`Cleanup`), `Cleanup` and the deletion of the Connection, restores, crashes
and `Start`.

* `snapshot`, `restore`, `content` are the rows and documents; `key` says
  whether a row's ObjectKey is set. They survive a crash.
* `inFlight`, `queue`, `rqueue` are the Manager's fields; `call`, `rcall`,
  `work`, `rwork`, `erase` and `cleanup` are the program counters and locals of
  the goroutines. A crash clears them.
* `faults` counts calls that report an error, `MaxFaults` at most in one life of
  the process. `LookupFails` is the early return of `execute` before its
  deferred release, after which the Base stays in flight.
* `condemned` and `late` are history: snapshots whose deletion passed its
  checks, and rows recorded after a `Cleanup` listed the snapshots.
* The ids in `Snaps` are ordered as their `CreatedAt`. `conn` is the one
  Connection of the model; its policies share `Retention`.
* What NocoDB answers, progress, counters and texts are left out:
  `CaptureFails` and `EndRestore` choose the outcome.

**FileStore** models the attachment files of one User in more detail than
Backup, which leaves them out: several goroutines of `captureFiles` call
`Store` for the attachments (`todo`) of running snapshots, look for a hint,
download, register under `filesMu` held shared and add to the document; a
failed run and `DeleteSnapshot` forget references and collect under `filesMu`
held exclusively. The life of a snapshot is reduced to `run`. The lock has no
variable: it is held shared by the goroutines in `Registering` and exclusively
by `collect`. `Download` chooses the content, so that one attachment may change
between snapshots and two attachments may have one content. `half` is history:
files whose content a collection deleted while the row may still be there.

**Schedules** models `UpsertBackupPolicy` and the deletion of a Connection's
policies, each followed by `ReloadSchedules`: the list of enabled policies is
read first (`ListEnabled`) and installed under `mu` later (`Apply`), so lists
may be installed in another order than they were read in. A policy and an entry
are the cron they run on, numbered by the save it came with. `orderly` and
`missed` are history.

**RestoreLinks** models how the restore of a Base makes relations:
`createRelations` with `findInverse` (the candidates, their scores by mirrored
links, the first of the best, a warning for a score of 0), the records, and the
links of the sides that were created. A snapshot holds both fields of a relation
and does not say that they belong together; `base` has the relations as they
were and the order in which the snapshot lists the fields. NocoDB may refuse a
field, a record or links. **VirtualFields** models `createVirtualFields`: passes
over a queue of computed fields until one creates nothing. **FieldClosure** is
what those passes promise, and VirtualFields implements it (`CreatesAllItCan`):
a field is created after everything it names, and the work stops only when no
field that is left could be created, whatever order the snapshot lists them in.

### Alerts

**Notify** models the notification service: `Notify` inserts the alert unless
its key is there, then sends it to a bounded queue or drops it; one worker lists
the enabled channels and tries them one after the other (`Send`), records each
channel's outcome and then the alert's; `Start` queues what a crash or a full
queue left undelivered and is no older than the window. Channels are created,
loaded and written back by editors, deleted and tested meanwhile; `UpdateChannel`
writes back the row it loaded. `told` is history: channels that got a message of
an alert since a delivery of it was lost; `repeated` says one got it twice.

**AlertLog** is what the service promises: an alert is kept once per key, waits,
may reach channels, and gets one outcome, "told" only if it reached one. Notify
implements it (`KeepsLog`): the state of an alert in the log is read off the
rows `stored`, `delivered` and `errored`.

### Connections, sign-in

**Connection** models one connection: `Create`, updates and tests (load,
verify, write back the whole row), `RecordStatus` (read the status, set it,
alert on what was read) and `Delete`. `verified` and `alerted` are history.

**SignIn** models OAuth flows from the state to the session (`TakeState`,
exchange, `upsertOAuthUser` with its insert, its retry under another name and
its unique indices), password logins, requests under the middleware, logout, and
an administrator who creates, disables and enables users. States, users and
sessions are tables; the handlers hold what they read.

### Wasabi

**WasabiSync** models the manager's queue with its sets `pending`, `cancelled`
and `running`, the worker, `sync` (load the state, fetch and save by chunks for
a backfill, in one go for a pull or a refresh, finish; bucket settings), the
daily `queueAll`, `catchUp` after a start, `Refresh`, and the deletion of a
connection with `forget`. Days are numbers; Wasabi publishes a day on the next.
`skipped`, `attempted` and `raced` are history and name what the properties
except: days a resumed backfill starts behind, connections whose deletion got
past `forget`, and connections queued while they were being deleted.

### Cloudflare and Google

**OperationLog** models a write to a provider: the row is inserted as pending,
the write is sent, a throttled one is sent again up to `MaxRetries` times, and
the outcome is recorded: succeeded, failed, or unknown when the answer was
lost. `made` counts what the provider did, `inAir` holds writes given up that
may still arrive. The deletion of the connection deletes its log meanwhile.

**ZoneRules** models `CreateZoneRule`, `UpdateZoneRule`, `ReorderZoneRules` and
`DeleteZoneRule` on one phase: the person's page, the handler's read, the lock
(taken after the read), and the write, of the whole ruleset or of one rule.
**Ingress** holds the edits of a Tunnel's ingress as operators on sequences of
rules. **Tunnels** models `AddHostname`, `UpdateHostname` and `DeleteHostname`:
the configuration is read, edited and put back under the Tunnel's lock, the
hostname's DNS record is looked at and changed outside it. **RouteTable** is
what that promises, and Tunnels implements it: the table of routes changes one
route at a time. **EmailRouting** models the requests on routing rules, the
catch-all and destination addresses, with a lock by Zone and one for the
addresses, and writes that arrive after their request was given up (`late`).
How a change is logged is left to OperationLog.

### Instances and proofs

**MCBackup**, **MCFileStore**, **MCNotify**, **MCWasabiSync**, **MCAccount**,
**MCRequests** and **MCRestoreBase** give the instances TLC checks. The last
three put components together that share no state: `part` says which of them
moves in a behaviour, the others stay where they begin. That loses nothing,
because no action of one reads another's variables, and the interleavings of
parts that do not interact show nothing of either. For the same reason MCNotify
and MCWasabiSync let a behaviour stress one `side`: many alerts with one quiet
channel or one alert with busy channels; the days of one connection or two
connections on one day.

**BackupProofs**, **FileStoreProofs**, **NotifyProofs**, **WasabiSyncProofs**,
**AccountProofs**, **RequestsProofs** and **RestoreBaseProofs** hold the theorems.
The last three extend MCAccount, MCRequests and MCRestoreBase: they have the
theorems of each part and of the parts together.

## The runs

| run | question | states |
| --- | --- | --- |
| `backup_jobs` | Do jobs exclude each other, do rows, content and retention stay right, whatever fails? | 1.65 million |
| `backup_restores` | Does everything recorded end, with the Connection deleted under it? | 88 thousand |
| `files` | Are files stored as long as they are held, and no longer? | 1.2 million |
| `restore_base` | Does a restore bring back what was captured, or say what it did not? | 1.56 million |
| `alerts` | Is an alert sent once, to every channel, and does it get its outcome? | 159 thousand |
| `requests` | Do concurrent requests on a connection, on schedules and on sessions leave them consistent? | 1.64 million |
| `wasabi` | Is a day lost, is a mark stale, does a deletion leave something? | 1.48 million |
| `account` | Is a change of a Cloudflare account made twice, misreported, or undone by another? | 416 thousand |
| `restore_race` | Can a Snapshot be deleted under a Restore? | violated |
| `unalerted` | Does a scheduled snapshot fail without an alert? | violated |
| `lost_file` | Can a Snapshot succeed without a file it names? | violated |
| `wrong_pair` | Can a restore take the wrong field for an inverse, and say nothing? | violated |

**backup_jobs.** Three snapshots: two scheduled ones of one Base, so that
retention (of one) has something to delete and two enqueues meet in the
in-flight map, and a manual one of another, so that two Bases compete for two
workers and a queue of one place. One handler deletes on request, one restore
holds a snapshot against retention; one failing call per life and one crash.
The workers are symmetric (the run has no liveness property). It checks that a
Base has at most one job and a job is in one place (`OneJobPerBase`), that the
row of a live job says what the job does (`JobOwnsRow`), that a terminal row is
final (`TerminalIsFinal`), that a succeeded snapshot has its content until its
deletion begins (`SucceededHasContent`), that no row is left behind
(`NothingStranded`), and that retention deletes what it should
(`RetentionHolds`) and only that (`RetentionSparesNewest`).

**backup_restores.** One snapshot, two restores (the queue of one is full for
the second while the first waits), and the deletion of the Connection.
`WorkSettles` and `BaseFreed` are the liveness properties: every recorded
snapshot and restore ends, and a Base that is in flight becomes free, each up to
a failed call, for the code does leave rows behind then: `LookupFails`,
`StartRunFails`, `FinishFails`, `DropRestore`. Crashes are no exception: `Start`
fails what was interrupted. `CleanupMissesOnlyLate` says what a deleted
Connection may leave: snapshots recorded after the cleanup's list, nothing else.

**files.** Two snapshots, two contents, two attachments, two goroutines, one
failing call, one crash. Two of each are enough for what the lock is there for:
one snapshot registers a file while the deletion or failure of the other
collects it, two goroutines store one content together, an attachment changes
between the snapshots, a hint outlives its file. Goroutines, snapshots and
attachments are symmetric; files are not, because `FirstOf` picks the order
in which a collection goes through them.

**restore_base.** Two relations of every type between two tables (or of a table
with itself), of up to two links each between two records of each table, listed
in every order, with up to two refusals by NocoDB; and three computed fields that
name each other, or a field that is gone, in every way, by ID or by title. Two
relations are the least that have to be told apart. `RestoredAsCaptured`: every
field is restored once or reported, and shows the links it was captured with or
reports them, unless its relation was paired by order with a warning or several
candidates mirrored as many of its links. `CreatesAllItCan`: VirtualFields
implements FieldClosure.

**alerts.** Three alerts, two of them with one key, to a queue of one, so that
one waits for the next start; or one alert to two channels that an editor loads
and writes back, that are deleted and tested. Calls fail and the process crashes
without bound. A window of 0 and a clock that ticks once make an alert too old.
`NoRepeat`: an alert is in one place (with its call, listed by `Start`, queued,
or with the worker) and a channel gets it again only after an outcome was lost.
`EveryChannelTried`: a failing channel keeps no other from its message.
`KeepsLog`: Notify implements AlertLog. `EventuallyDecided`: once the process
stays up, an alert gets its outcome unless its delivery was given up until the
next start (`dropped`).

**requests.** Three OAuth flows over two states and two accounts whose logins
make one username, a password login, a request, and a user who is disabled and
enabled; two updates, a test, a deletion and one run that reports on a
connection of two configurations and two secrets; two saves of two Bases'
policies with the cleanup of their connection. `OneFlowOneUser`: a state lets
one flow on, an account has one user, and a flow signs in as its own.
`BarredStaysOut`: what was revoked or disabled when a request began stays out.
`PairVerified`: config and secret that are stored were verified together, though
updates write back rows they loaded before. `OncePerOutage`: an outage raises one
alert. `SettledSchedules`: the cron entries settle on the enabled policies.

**wasabi.** A backfill of three days in chunks of two, refreshes of two days and
seven days to go through; or two connections, of which one is deleted, over a
queue of one. Crashes are unbounded. Three days are a chunk and a rest, and leave
a first, a middle and a last day. `NoDayLost`: every published day from the
backfill's first to the last synced one is stored, but for `skipped`.
`PendingExact`: `pending`, `cancelled` and `running` are what the queue and the
worker hold; a mark too many would keep a connection from ever being synced.
`NoOrphans`: a deletion leaves nothing, but for `raced`.

**account.** Two operations of which one changes a DNS record, with two sends
again; three requests on up to two Zone Rules; two on a Tunnel with one host and
two paths, with one change of a record by somebody else; three on two Zones, two
addresses and a destination, with one late write. `NeverTwice`, `ToldTrue` (the
log and the answer say what is known), `LosesOnlyUnseen` (a change undoes only
what came up after its handler had read the rules), `RulesHold` (one rule per
address; what forwards is verified), `HostnameAlone` (Tunnels implements
RouteTable, and a record that points elsewhere is left alone).

**Bounds.** Each is a constant with a comment in its module. `MaxFaults`,
`MaxCrashes`, `MaxRefused`, `MaxLate`, `MaxDNS`, `MaxSwitch` count what goes wrong or what others
do;
`MaxDay`, `MaxTime` end the clock; the sets count requests and rows. Ids are used
once, as in the code (UUIDs); so a long run ends with the ids used up. That, and
that nobody has to send a request, is why the configurations switch the deadlock
check off: the goroutines wait for work.

**Fairness.** The workers and every handler are goroutines of one process:
each goes on as long as it has a step to take, because every call it makes
carries a deadline (`SnapshotTimeout`, `RestoreTimeout`, the HTTP clients'
timeouts) and `mu` is held for a few statements. Hence weak fairness of
`JobProgress`, of `HandlerProgress` of each handler, of `RestoreProgress`, and
of `Start` in Backup: the process is started again after a crash (Dockerfile
deployment; `Start` is called by the bootstrap before the routes are served). In
Notify it is the worker's `Deliver`, the steps of `Start` after its list, and
each call's send to the queue, which never blocks. Nothing is assumed of
requests, cron entries, faults and crashes; `EventuallyDecided` therefore speaks
of a process that stays up, and a run of failing starts is allowed.

## What the violated runs show

* `restore_race`: `DeleteSnapshot` checks for active restores and then deletes;
  a restore recorded in between is pending when its Snapshot goes, which
  CONTEXT.md rules out. The restore fails; nothing else does.
* `unalerted`: the README promises an alert when a scheduled snapshot fails. A
  snapshot that finds the queue full is recorded as failed by `Enqueue`, where
  no alert is raised.
* `lost_file`: `collectFiles` deletes the content before the row. If deleting
  the row fails, the next snapshot with that content finds the row, takes the
  file for stored and succeeds without it. `HeldIsStored` holds with exactly
  this exception (`half`).
* `wrong_pair`: `findInverse` scores a candidate by the mirrored links it has and
  not by the links it has besides. A candidate whose links contain the right
  one's ties with it and wins by its place, without the warning the comment above
  the loop promises. `RestoredAsCaptured` holds with this exception (`tied`).

## What the exceptions say

Several properties hold up to something the code does. These are no contradiction
of its documentation, but worth knowing:

* `OncePerOutage` is about one run that reports at a time. Two that fail together
  both read ok and both alert; a success between another's read and write hides
  the next outage's first alert.
* An update of a connection or of a channel writes back the whole row it loaded:
  a status recorded meanwhile, or another update, is lost. `PairVerified` holds
  in spite of it.
* `SettledSchedules` excepts a reload that could not list (`missed`) and two that
  overtook each other (`orderly`): the entries are then stale until the next one.
* `NoDayLost` excepts days that were not out when a backfill saved its last chunk
  and that its resumption starts behind (`skipped`); it also needs `BackfillDays`
  of 2 or more, for with 1 the first sync may find nothing published, and the next
  one starts after it.
* `NoOrphans` excepts a sync that is queued while its connection is being deleted
  (`raced`): what it stores after the cleanup stays.
* `LosesOnlyUnseen` excepts what came up between a handler's read and its lock:
  the read is made before the lock is taken.
* `ForeignRecordsKept` excepts a record that changes between the look and the
  request; `ForwardsVerified` a destination whose use in another Zone the deletion
  does not look for; both parts of `RulesHold` a write that arrives late.
* Of two first logins of one account that run together the second ends with an
  error, and no second user.
* A log row stays pending when its update fails, and a person is then told what
  the provider answered (`made_unlogged`).

## What is proved

Each proof module proves one inductive invariant of its component (`IInv`, in
Backup `Inv`; AccountProofs one for each part) from the assumptions on the
constants alone, one lemma per action or group of actions, and from it the
properties the runs check.

### Backup

`BackupProofs` proves, for any number of snapshots, Bases, workers, handlers
and restores, any `QueueSize`, `Retention`, `MaxFaults` and `MaxCrashes` (the
assumptions are `JobConstants` and `BackupConstants`: ids are positive numbers,
every snapshot has its Base, workers and handlers are different goroutines):

* `TypeCorrect`: `Spec => []TypeOK`
* `JobsExclusive`: `Spec => []OneJobPerBase`
* `RowsOwned`: `Spec => []JobOwnsRow`
* `FinishedStays`: `Spec => TerminalIsFinal`
* `ContentKept`: `Spec => []SucceededHasContent`
* `CleanupComplete`: `Spec => []CleanupMissesOnlyLate`
* `NewestSpared`: `Spec => []RetentionSparesNewest`
* `RestingBasesPruned`: `Spec => []RetentionHolds`
* `NothingIsStranded`: `Spec => []NothingStranded`

The first six follow from one inductive invariant, `Inv` (`Inductive`). A job is in one
of three places, and each conjunct says for one of them what the row holds and
that the in-flight map names this snapshot for its Base: `CallInv` before the
send, `QueueInv` in the queue, `WorkInv` with a worker. Two jobs of one Base
would therefore both be what the map names, which is `OneJobPerBase`.
`release` does not look at the holder; that nobody releases a Base somebody
else holds is a consequence of the same conjuncts. Whatever
is erased, or is on the list of a retention or a cleanup, is `Settled`: its
Enqueue call has returned and its row is not active, so that no job is left to
write the row (`EraseInv`). With `WorkInv` this gives `TerminalIsFinal`: a row
is only written by its job, which finds it active, and by a deletion. A cleanup
has every stored row on its list, in its hands, or in `late` (`CleanInv`).
`DownInv` says that a crash leaves no goroutine's state, which `Start` needs:
it fails every active row, and no job may be left that owns one.

The proof first shows for four kinds of step that they preserve the invariant
(`CallMoves`, `JobMoves`, `EraseMoves`, `ListsMove`: an Enqueue call, a worker, a
deletion or a list moves on), and then for each action that it is such a step.

The last three have an invariant of their own each, proved on top of `Inv`, from
what a step may do to the rows (`NextRows`) and to the lists of retention
(`NextLists`):

* `SpareInv`: whatever retention has on a list has `Retention` newer snapshots
  that count, and those that count are finitely many. What counts (`Counted`: it
  succeeded, or is condemned) only grows (`CountedGrows`): a deletion condemns
  before it erases. `Snaps` may be infinite.
* `KeepInv`, which adds `DueInv`: while nothing failed or crashed, a succeeded
  snapshot beyond `Retention` that no restore names is on the list or in the
  hands of a worker whose job is of its Base, or that worker is about to list.
  Only a job that succeeds can push a snapshot beyond `Retention`, and that job
  lists next. That a restore which names a snapshot keeps naming it is
  `RestoreInv`; that a process that is down has crashed is `CrashInv`.
* `Tracked`: every active row has somebody who will finish it. What has to be
  shown is that handing over never drops one: from the call to the queue, from
  the queue to a worker, and for restores the same (`RestoreTracks`).

### FileStore

`FileStoreProofs` proves, for any sets of snapshots, files, attachments and
goroutines and any number of faults and crashes (the assumptions are
`FileConstants`: the placeholders are not ids and the bounds are numbers):

* `TypeCorrect`: `Spec => []TypeOK`
* `DocumentsAreHeld`: `Spec => []DocumentHeld`
* `HeldFilesAreStored`: `Spec => []HeldIsStored`
* `NothingIsLeftOver`: `Spec => []NoGarbage`
* `FailedKeepNoFiles`: `Spec => []FailedKeepsNoFiles`

They follow from one inductive invariant, `IInv` (`Inductive`). None of the
properties is inductive on its own. `HeldIsStored` needs to know what a
goroutine that is about to add a reference has found: between `Register` and
`AddRef` the row, and for a new file the content, must be there (`StoreInv`),
which holds because no collection runs meanwhile (`LockInv`); and what a
collection still has on its list must be unused (`CollectInv`), which holds
because nobody adds a reference meanwhile. `DocumentHeld` needs that a
goroutine past `AddRef` has its reference and that the references of a running
snapshot stay (`DocInv`). A row without content is one a collection left
(`RowInv`). `FailedKeepsNoFiles` needs that a run that has reached `releasing`
has no goroutine left and, from `collecting` on, no reference (`KeepInv`).
`NoGarbage` is a conjunct itself: it is inductive once the others are known.
The proof has one lemma per group of actions and, below it, one step per action
and conjunct.

`SucceededIsComplete` is false, and what remains true of it is `HeldIsStored`
together with `DocumentHeld`.

### Notify

`NotifyProofs` proves, for any sets of alerts, channels and editors, any keys,
queue, window and clock (`NotifyConstants`):

* `TypeCorrect`: `Spec => []TypeOK`
* `OneDelivery`: `Spec => []NoRepeat`
* `AllChannelsTried`: `Spec => []EveryChannelTried`
* `Implements`: `Spec => KeepsLog`, the refinement of AlertLog

That a channel is not sent an alert again needs to know what the worker has sent
of it: `told[work.alert] = work.got`, and what is still to do is not in it
(`WorkInv`); and that an alert nobody works on has reached nobody since a
delivery of it was lost (`ToldInv`). Both hold only because an alert is in one
place, so `InOnePlace` is proved along with them, and `DownInv` says that a
stopped process holds none, which `Start` needs. `SteadyInv` says where the
channels are that stayed on; `ResultInv` that a channel without an error got a
message. For the refinement every action is shown to be one of AlertLog's, or to
leave `stored`, `delivered`, `errored` and `reached` alone; that "told" is only
recorded of an alert that reached a channel is `work.got \subseteq
reached[work.alert]`.

### WasabiSync

`WasabiSyncProofs` proves, for any connections, chunk, capacity and number of
days (`SyncConstants`):

* `TypeCorrect`: `Spec => []TypeOK`
* `BooksAreExact`: `Spec => []PendingExact`
* `NothingLeftBehind`: `Spec => []NoOrphans`
* `EveryDayThere`: `BackfillDays >= 2` implies `Spec => []NoDayLost`

`PendingExact` is inductive with the types. For `NoOrphans`, a connection that is
being deleted and was not queued since is `Barred`: what is queued of it is
cancelled and the worker has at most just taken it (`DyingInv`), so that what the
deletion has wiped stays wiped (`WipedInv`). `NoDayLost` needs an invariant of its
own, `DayInv`, proved on top of the first: only the last two days can be
unpublished and a sync is over before the day it started on is (`TimeOK`); a
state, kept or in the worker's hands, is `Sound`, that is, has its days stored
from its first to its last; and between its last day and the next to fetch there
is no gap (`Behind`, `FetchInvariant`, `SaveInvariant`). `BackfillDays >= 2` is
used where a backfill begins: its first day must have been published. TLC finds
a lost day with 1.

### The Cloudflare account

`AccountProofs` proves, part by part and then for the account as a whole:

* of OperationLog: `MadeOnce` (`Spec => []NeverTwice`), `LogAndAnswersTrue`
  (`Spec => []ToldTrue`)
* `RulesAlwaysHold`: `Email!Spec => []RulesHold`
* `OnlyUnseenIsLost`: `Zone!Spec => []LosesOnlyUnseen`
* `HostnamesChangeAlone`: `Tunnel!Spec => HostnameAlone`, which is that Tunnels
  implements RouteTable, and that records which point elsewhere stay
* `PartsAlone`: `AccountSpec => Spec /\ Zone!Spec /\ Tunnel!Spec /\ Email!Spec`;
  with it `AccountTypes` (`AccountSpec => []TypesOK`) and `AccountKept`, all of
  the above of `AccountSpec`, the specification that the run checks

for any operations, requests, Zones, addresses, hostnames, paths and either
provider. The assumptions are `OperationConstants` and `AccountConstants`: bounds
are numbers; the placeholders ("nobody", "none", "drop", "addresses", the
catch-all's empty hostname) are none of the names they stand beside; a hostname
may be routed without a path, there are finitely many paths, and a Tunnel that
has routes already has a hostname for them.

OperationLog's invariant says for each place of a handler what the provider can
have done (`SentInv`: nothing before the answer is in, which is what lets a
throttled write be sent again), what the row says (`RowInv`) and what the
handler learnt (`LearntInv`).

`EmailInv` is needed because `RulesHold` speaks of the rules alone, and a handler
looks them up several steps before it writes. It says what each look-up still
guarantees then (`LookupInv`): no other rule of the Zone has the address
(`NotTaken`), the destination is verified (`Checked`), nothing in the Zone
forwards to an address to be deleted (`Unused`). A step of another request leaves
these alone for one of two reasons: it is about another Zone (`ChangeIsLocal`,
`VerifiedStays`), or it would hold the same lock (`EmailLockInv`, `ZonesApart`). The
look-ups are of a past that only a late write can undo, hence `arrived = 0`, and
`LateInv` counts those.

`ZoneInv` says that versions tell rulesets apart (`VersionInv`): a page with the
version of what is live shows what is live. So what the handler compares before
the lock makes what it read the page it was asked on (`PageInv`), and what the
write drops, being among neither the ids it read nor its own, came up since
(`DropsUnseen`).

`TunnelInv` has the lock (`TunnelLockInv`), what it is for (`ConfigReadInv`: what was
read is still the configuration when the change is sent) and the shape of an
ingress (`GoodIngress`: every route has a hostname and path of its own, whatever
else is in the list and wherever the catch-all stands). The refinement needs
this shape: only then are the routes a function of hostname and path, and
inserting before the catch-all (`AddedRoute`), rewriting in place (`ChangedRoute`)
and cutting out of the list (`RemovedRoute`) are `Add`, `Change` and `Remove` of the
table (`AddStep`, `ChangeStep`, `RemoveStep`). That a configuration with two routes
of a hostname and path behaves is not shown: Cloudflare's may have them, Neo Box
makes none.

### Connection, Schedules, SignIn

`RequestsProofs` proves, part by part and then of `RequestsSpec`, the
specification that the run checks:

* of Connection: `StoredPairVerified` (`PairVerified`, for any updates, tests and
  reporters, from `EditsVerified`: an update holds a pair that was verified,
  because it loaded it with the row or verified it itself) and
  `OneAlertPerOutage` (`OncePerOutage`, assuming one reporter: the run that will
  raise an alert read ok before the outage began, and is the only one,
  `FirstToAlert`). That assumption cannot be dropped: TLC finds two alerts with two
  reporters.
* of Schedules: `EntriesFollowPolicies` (`SettledSchedules`) for any number of
  concurrent saves and cleanups: once no change waits for its reload, the newest
  list that was read is the policies, and it is installed or somebody holds it
  (`NewestInv`). `SchedulesTypeCorrect` bounds crons and lists by the requests
  there are, by counting those that have asked or listed (`CountInv`).
* of SignIn: `FlowsAndUsers` (`OneFlowOneUser`), `BarredAreRefused`
  (`BarredStaysOut`) and `TypeCorrect`, for any flows, logins, requests, accounts
  and names. The invariant says what a handler at each stage holds (`FlowInv`,
  `LoginInv`, `SessionInv`, `RequestInv`); that an account has one user rests on
  the unique index alone, `OneUserPerAccount`.
* `RequestsApart`: `RequestsSpec => Spec /\ ConnectionSpec /\ SchedulesSpec`; with
  it `RequestTypes` (`[]TypesOK`) and `RequestsKept`.

Assumed are `SignInConstants`, `ConnectionConstants` and `ScheduleConstants`: bounds
are numbers, flows and logins have names of their own and so have saves and
cleanups, of which there are finitely many, and the placeholders are no names.

### The restore of a Base

`RestoreBaseProofs` proves, of the relations and the computed fields and then of
`RestoreBaseSpec`, the specification that the run checks:

* `LinksAreRestored`: `Links!Spec => [](FieldsAccounted /\ LinksRestored)`
* `AllThatCanIsCreated`: `Spec => CreatesAllItCan`, which is that VirtualFields
  implements FieldClosure, and `FieldsTriedOnce`: `Spec => []EachFieldOnce`
* `RestoreApart`: `RestoreBaseSpec => Spec /\ Links!Spec`; with it `RestoreTypes`
  (`[]TypesOK`) and `BaseIsRestored` (`[]RestoredAsCaptured /\ CreatesAllItCan`)

for any relations between tables, records, links, computed fields, orders in which
the snapshot lists them, and refusals. The assumptions are `RestoreConstants` and
`FieldConstants`: a snapshot has finitely many relations, records and fields,
bounds are numbers, and the name of a field that is gone is no field.

What `findInverse` takes is never compared with what was captured, for the
snapshot does not say it. The argument is about scores. The field that was the
other side mirrors all links, so that no candidate scores higher: if it is still
a candidate and another is taken, then that one scores the same, and the pairing is a tie or, at 0, a
guess. It may not be a candidate any more, because the pairing of another
relation took it; then that pairing was itself a tie or a guess and left the
first field in doubt. That is the first conjunct of `DoubtInv`: a field that was
dealt with, while the other field of its relation was not, is in doubt.
`SplitInv` says that a field is in one of three places, a side, an inverse of
one side or unpaired, without which a field might be restored twice. `DataInv`
has the links: at the end each was written or reported. Where the pairing is not
in doubt, what the inverse shows is then the mirror of what the side shows, and
so what was captured (`ShownIs`). Doubt cannot be left out, as the run
`wrong_pair` shows.

For computed fields, `PassInv` says that as long as a pass has created nothing,
what it has put off could not be created when it was tried and cannot be now. A
field is put off because something it names has no new ID yet; what makes this
untrue is a field created later in the same pass, and then the pass is not the
last. `PlaceInv` says that each field waits in one place once, so that the
lengths of the queues count fields: `size` is unchanged only if nothing was
created.

### Only model-checked

`WorkSettles`, `BaseFreed` and `EventuallyDecided`, for TLAPS does not reach
liveness under fairness. Every invariant and every other action or temporal
property that a passing run checks is stated by a theorem.

## What is not modelled

Most of the repository's lines are generated (protocol buffers and their
validators, the ent client, the web front end's client) and hold no behaviour of
their own. Of what is written by hand, `PROJECT.json` lists every component; those
without a model, and why:

* the NocoDB client, the endpoints of the Cloudflare, Google and Wasabi clients,
  the blob store: requests and their decoding. Their rule of what may be sent
  again is in OperationLog; the blob store is an atomic map whose calls may fail.
* the snapshot format, capture and the analytics of Wasabi: conversions and
  arithmetic, sequential and without state.
* the table cache: a map under one mutex with a time limit. What a deleted
  snapshot leaves in it is never asked for.
* configuration, secrets, transport, start-up, database code, the front end.

Within the modelled components: the alert of a failed restore; the status that a
backup or a sync records on its Connection (Connection has it as a reporter); the
attachment files inside Backup (FileStore has them); time, so that a deadline is a
failing call; several Connections in Backup (they share the queue and the
workers, which two Bases do as well); the thresholds of Wasabi's alerts; plain
fields, tables, views and attachments of a restored Base, each of which is one
request after the relations; resources of Cloudflare that are one API call
through the operation log; what a person is shown.

## Plan

Done: SnapshotJobs, Backup, FileStore, Notify with AlertLog, Connection,
WasabiSync, OperationLog, ZoneRules, Tunnels with Ingress and RouteTable,
EmailRouting, SignIn, Schedules, RestoreLinks, VirtualFields with FieldClosure,
and the proofs above. What would come next:

1. **SnapshotLife**: the abstract life of one Base's snapshots, implemented by
   Backup; the alert of a failed restore, with Notify's AlertLog as its other side.
2. The resources that take `lockResource` around a read and a write
   (`EnableEmailRouting`, the settings of Workers and Pages), as EmailRouting has
   it for rules.
