------------------------------ MODULE MCBackup ------------------------------
(* Instances of Backup for TLC. *)
EXTENDS Backup, TLC

CONSTANTS baseA, baseB

\* Two scheduled snapshots of one base, so that retention prunes, and a
\* manual one of another, so that two bases share the queue and the workers.
JobsBaseOf == [s \in Snaps |-> IF s \in Scheduled THEN baseA ELSE baseB]

\* The workers are interchangeable (no liveness property is checked with it).
WorkerSymmetry == Permutations(Workers)

\* A base for each of two snapshots.
OwnBaseOf == [s \in Snaps |-> IF s = 1 THEN baseA ELSE baseB]

\* One base.
RestoresBaseOf == [s \in Snaps |-> baseA]
=============================================================================
