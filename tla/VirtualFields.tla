--------------------------- MODULE VirtualFields ----------------------------
(***************************************************************************)
(* How a restore creates lookups, rollups, formulas and the like: in       *)
(* passes over a queue. A field waits while its options name a field by ID *)
(* that does not exist yet; a field NocoDB rejects, as it does a formula   *)
(* that names a missing field by title, is tried again in the next pass. A *)
(* pass that creates nothing is the last, and what is left is skipped.     *)
(***************************************************************************)
EXTENDS Integers, Sequences, SequencesExt, FiniteSets

CONSTANTS
  Fields,  \* the computed fields of the snapshot
  Gone     \* a field that was not restored

ASSUME FieldConstants == IsFiniteSet(Fields) /\ Gone \notin Fields

VARIABLES
  options,  \* what each field's options name, and how
  queue,    \* the fields this pass still has to try
  next,     \* those it leaves for the next pass
  size,     \* how many it started with
  created,  \* the fields that have a new ID
  skipped,  \* the fields given up
  phase

vars == <<options, queue, next, size, created, skipped, phase>>

Promise == INSTANCE FieldClosure

Options == Promise!Options

TypeOK ==
  /\ options \in [Fields -> Options]
  /\ queue \in Seq(Fields) /\ next \in Seq(Fields)
  /\ size \in Nat
  /\ created \subseteq Fields /\ skipped \subseteq Fields
  /\ phase \in {"creating", "done", "aborted"}

\* Options also name the field's own side of the snapshot and fields that were
\* restored before; those always resolve, and are left out.
Init ==
  /\ options \in [Fields -> Options]
  /\ queue \in SetToSeqs(Fields)
  /\ next = <<>>
  /\ size = Len(queue)
  /\ created = {} /\ skipped = {}
  /\ phase = "creating"

-----------------------------------------------------------------------------

\* The fields an option names by ID that have no new ID yet. A field named by
\* title is NocoDB's to look for.
UnresolvedRefs(f) == IF options[f].by = "id" THEN options[f].on \ created ELSE {}
Accepts(f) == options[f].on \subseteq created

Tries(f) == phase = "creating" /\ queue # <<>> /\ f = Head(queue)

Wait(f) ==
  /\ Tries(f)
  /\ UnresolvedRefs(f) # {}
  /\ next' = Append(next, f)
  /\ queue' = Tail(queue)
  /\ UNCHANGED <<options, size, created, skipped, phase>>

CreateField(f) ==
  /\ Tries(f)
  /\ UnresolvedRefs(f) = {}
  /\ IF Accepts(f) THEN created' = created \cup {f} /\ next' = next
                   ELSE next' = Append(next, f) /\ created' = created
  /\ queue' = Tail(queue)
  /\ UNCHANGED <<options, size, skipped, phase>>

\* Mutant of Stalled: the loop ends after one pass.
OnePass == size = size

\* A pass made progress if it leaves fewer fields than it started with.
Stalled == Len(next) = size

NextPass ==
  /\ phase = "creating"
  /\ queue = <<>>
  /\ ~Stalled
  /\ queue' = next
  /\ next' = <<>>
  /\ size' = Len(next)
  /\ UNCHANGED <<options, created, skipped, phase>>

\* Nothing was left, or the last pass made no progress.
Finish ==
  /\ phase = "creating"
  /\ queue = <<>>
  /\ Stalled
  /\ skipped' = {f \in Fields : \E i \in DOMAIN next : next[i] = f}
  /\ phase' = "done"
  /\ UNCHANGED <<options, queue, next, size, created>>

\* Any other answer of NocoDB ends the restore.
Abort ==
  /\ phase = "creating"
  /\ queue # <<>>
  /\ UnresolvedRefs(Head(queue)) = {}
  /\ phase' = "aborted"
  /\ UNCHANGED <<options, queue, next, size, created, skipped>>

Next ==
  \/ \E f \in Fields : Wait(f) \/ CreateField(f)
  \/ NextPass \/ Finish \/ Abort

Spec == Init /\ [][Next]_vars
-----------------------------------------------------------------------------
(* Properties *)

\* Whatever order the snapshot lists them in, a field is created only after
\* everything it names, and the work ends only when no field that is left could
\* be created.
CreatesAllItCan == Promise!Spec

\* Every field is created or given up, none is both, and none is tried twice in
\* a pass.
EachFieldOnce ==
  /\ \A i, j \in DOMAIN queue : i # j => queue[i] # queue[j]
  /\ \A f \in Fields : f \in created => f \notin ToSet(queue) \cup ToSet(next)
  /\ phase = "done" => skipped = Fields \ created

=============================================================================
