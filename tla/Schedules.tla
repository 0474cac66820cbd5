----------------------------- MODULE Schedules -----------------------------
(***************************************************************************)
(* Backup Policies and the cron entries made of them. A request that saves *)
(* a policy, or the cleanup of a connection, changes the table and then    *)
(* reloads every entry from a list of the enabled policies, read before    *)
(* the manager's lock is taken. What an entry does when it fires is        *)
(* Backup's EnqueueSnapshot.                                               *)
(***************************************************************************)
EXTENDS Integers, FiniteSets

CONSTANTS
  Savers,   \* UpsertBackupPolicy requests
  Cleaners, \* cleanups of the connection
  Bases     \* the Bases of one connection

ScheduleConstants ==
  /\ Savers \cap Cleaners = {}
  /\ IsFiniteSet(Savers) /\ IsFiniteSet(Cleaners)

Changers == Savers \cup Cleaners

VARIABLES
  policy,  \* the policies table
  entries, \* the manager's cron entries: the cron each runs on
  up,      \* whether the process runs
  saving,  \* the requests
  reads,   \* reloads so far that read their list
  applied, \* the newest read that was applied
  saves,   \* crons saved so far
  orderly, \* history: no list was applied after a newer one
  missed   \* history: a reload failed, and none began since

schedulesVars == <<policy, entries, up, saving, reads, applied, saves, orderly, missed>>

\* Of a policy: its cron, which is the number of the save it came with, if it
\* is enabled.
NotScheduled == 0
Nothing == [b \in Bases |-> NotScheduled]

Change(at, base, cron) ==
  [at |-> at, base |-> base, cron |-> cron, list |-> Nothing, read |-> 0]
Idle == Change("idle", "none", NotScheduled)

Crons == 0..Cardinality(Savers)

SchedulesTypeOK ==
  /\ policy \in [Bases -> Crons]
  /\ entries \in [Bases -> Crons]
  /\ up \in BOOLEAN
  /\ \A q \in Changers :
       /\ saving[q].at \in {"idle", "asked", "saved", "listed", "done", "error"}
       /\ saving[q].list \in [Bases -> Crons]
       /\ saving[q].read \in 0..reads
  /\ reads \in 0..Cardinality(Changers)
  /\ applied \in 0..reads
  /\ saves \in Crons
  /\ orderly \in BOOLEAN /\ missed \in BOOLEAN

SchedulesInit ==
  /\ policy = Nothing
  /\ entries = Nothing
  /\ up = TRUE
  /\ saving = [q \in Changers |-> Idle]
  /\ reads = 0 /\ applied = 0 /\ saves = 0
  /\ orderly = TRUE /\ missed = FALSE

ChangeAt(q, at) == up /\ saving[q].at = at
ChangeGoes(q, at) == saving' = [saving EXCEPT ![q].at = at]

\* ListEnabledPolicies, as the entries that are made of it.
Enabled == policy

-----------------------------------------------------------------------------
(* Saving and deleting policies *)

\* A policy is enabled, with a cron, or not. What else it says (retention,
\* attachments) is nothing to the entries.
Ask(s) ==
  /\ ChangeAt(s, "idle")
  /\ \E b \in Bases, on \in BOOLEAN :
       /\ saves' = IF on THEN saves + 1 ELSE saves
       /\ saving' = [saving EXCEPT ![s] =
            Change("asked", b, IF on THEN saves + 1 ELSE NotScheduled)]
  /\ UNCHANGED <<policy, entries, up, reads, applied, orderly, missed>>

\* The whole row is written.
UpsertPolicy(s) ==
  /\ ChangeAt(s, "asked")
  /\ policy' = [policy EXCEPT ![saving[s].base] = saving[s].cron]
  /\ ChangeGoes(s, "saved")
  /\ UNCHANGED <<entries, up, reads, applied, saves, orderly, missed>>

\* The cleanup deletes every policy of its connection.
DeletePolicies(c) ==
  /\ ChangeAt(c, "idle")
  /\ policy' = Nothing
  /\ ChangeGoes(c, "saved")
  /\ UNCHANGED <<entries, up, reads, applied, saves, orderly, missed>>

-----------------------------------------------------------------------------
(* ReloadSchedules *)

\* The enabled policies are listed, before the lock.
ListEnabled(q) ==
  /\ ChangeAt(q, "saved")
  /\ reads' = reads + 1
  /\ saving' = [saving EXCEPT ![q].at = "listed", ![q].list = Enabled, ![q].read = reads + 1]
  /\ missed' = FALSE
  /\ UNCHANGED <<policy, entries, up, applied, saves, orderly>>

\* The list cannot be read: the entries stay as they are. Saving answers with
\* an error although the policy is saved; the cleanup only warns.
ListFails(q) ==
  /\ ChangeAt(q, "saved")
  /\ ChangeGoes(q, IF q \in Savers THEN "error" ELSE "done")
  /\ missed' = TRUE
  /\ UNCHANGED <<policy, entries, up, reads, applied, saves, orderly>>

\* Mutant of Apply: entries are added and replaced, none is removed.
ApplyAdding(q) ==
  /\ ChangeAt(q, "listed")
  /\ entries' = [b \in Bases |->
       IF saving[q].list[b] = NotScheduled THEN entries[b] ELSE saving[q].list[b]]
  /\ orderly' = (orderly /\ applied < saving[q].read)
  /\ applied' = IF applied < saving[q].read THEN saving[q].read ELSE applied
  /\ ChangeGoes(q, "done")
  /\ UNCHANGED <<policy, up, reads, saves, missed>>

\* Under the lock, every entry is removed and the list's are added.
Apply(q) ==
  /\ ChangeAt(q, "listed")
  /\ entries' = saving[q].list
  /\ orderly' = (orderly /\ applied < saving[q].read)
  /\ applied' = IF applied < saving[q].read THEN saving[q].read ELSE applied
  /\ ChangeGoes(q, "done")
  /\ UNCHANGED <<policy, up, reads, saves, missed>>

-----------------------------------------------------------------------------
(* The process *)

\* The process stops, with its entries and requests.
ProcessStops ==
  /\ up
  /\ up' = FALSE
  /\ entries' = Nothing
  /\ saving' = [q \in Changers |->
       IF saving[q].at = "idle" THEN Idle ELSE Change("error", "none", NotScheduled)]
  /\ UNCHANGED <<policy, reads, applied, saves, orderly, missed>>

\* Start reloads the schedules before requests are served.
Start ==
  /\ ~up
  /\ up' = TRUE
  /\ entries' = Enabled
  /\ orderly' = TRUE
  /\ missed' = FALSE
  /\ UNCHANGED <<policy, saving, reads, applied, saves>>

-----------------------------------------------------------------------------

Reload(q) == ListEnabled(q) \/ ListFails(q) \/ Apply(q)
SchedulesNext ==
  \/ \E s \in Savers : Ask(s) \/ UpsertPolicy(s)
  \/ \E c \in Cleaners : DeletePolicies(c)
  \/ \E q \in Changers : Reload(q)
  \/ ProcessStops \/ Start

SchedulesSpec == SchedulesInit /\ [][SchedulesNext]_schedulesVars

-----------------------------------------------------------------------------
(* Properties *)

Settled == up /\ \A q \in Changers : saving[q].at \in {"idle", "asked", "done", "error"}

\* Once every change of a policy was reloaded, the cron entries are the
\* enabled policies; unless a reload could not read its list and none came
\* after it, or lists were applied in another order than they were read in.
SettledSchedules == Settled /\ orderly /\ ~missed => entries = Enabled

=============================================================================
