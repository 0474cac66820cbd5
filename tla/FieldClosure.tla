---------------------------- MODULE FieldClosure ----------------------------
(***************************************************************************)
(* What the restore of computed fields promises: fields are created one at *)
(* a time, each after everything its options name, and the work ends only  *)
(* when no field that is left could be created. The order in which the     *)
(* snapshot lists the fields does not matter.                              *)
(***************************************************************************)
CONSTANTS Fields, \* the computed fields of the snapshot
          Gone    \* a field that was not restored

VARIABLES options, created, phase

vars == <<options, created, phase>>

\* What a field's options name: computed fields, or a field that is gone.
Options == [by : {"id", "title"}, on : SUBSET (Fields \cup {Gone})]

Creatable(f, fs) == options[f].on \subseteq fs
Stuck(fs) == \A f \in Fields \ fs : ~Creatable(f, fs)

Init ==
  /\ options \in [Fields -> Options]
  /\ created = {}
  /\ phase = "creating"

Create ==
  /\ phase = "creating"
  /\ \E f \in Fields \ created : Creatable(f, created) /\ created' = created \cup {f}
  /\ UNCHANGED <<options, phase>>

Stop ==
  /\ phase = "creating"
  /\ Stuck(created)
  /\ phase' = "done"
  /\ UNCHANGED <<options, created>>

Abort ==
  /\ phase = "creating"
  /\ phase' = "aborted"
  /\ UNCHANGED <<options, created>>

Next == Create \/ Stop \/ Abort

Spec == Init /\ [][Next]_vars
=============================================================================
