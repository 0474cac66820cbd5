---------------------------- MODULE MCFileStore ----------------------------
(* Instances of FileStore for TLC. *)
EXTENDS FileStore, TLC

\* Goroutines, snapshots and attachments are interchangeable (only safety
\* properties are checked); files are not, for FirstOf chooses among them.
Symmetry == Permutations(Stores) \cup Permutations(Snaps) \cup Permutations(Sources)
=============================================================================
