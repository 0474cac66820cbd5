--------------------------- MODULE MCRestoreBase ----------------------------
(***************************************************************************)
(* Small instances of what a restore rebuilds in the new Base: first the   *)
(* relations with the records and their links, then the computed fields.   *)
(* The two work on different fields and share no state, so a behaviour     *)
(* moves one part and leaves the other as it began.                        *)
(***************************************************************************)
EXTENDS VirtualFields, TLC

CONSTANTS
  Parts,                                     \* the parts that may move
  f1, f2, f3, gone, rel1, rel2, r1, r2,
  Relations, Records, MaxLinks, MaxRefused   \* of RestoreLinks

VARIABLES
  part,
  base, todo, handled, sides, pair, unpaired, guessed, tied, kept, linked, failed,
  refused, step

Links == INSTANCE RestoreLinks WITH skipped <- unpaired, phase <- step

ASSUME RestoreBaseConstants ==
  /\ Parts \subseteq {"links", "computed"}
  /\ Links!RestoreConstants

linkVars == <<base, todo, handled, sides, pair, unpaired, guessed, tied, kept, linked,
              failed, refused, step>>
allVars  == <<part, vars, linkVars>>

\* Where a part that does not move stands: computed fields that name nothing,
\* relations without links.
NamesNothing == [f \in Fields |-> [by |-> "id", on |-> {}]]
NoLinks ==
  [i \in Relations |-> [type |-> "mm", from |-> "t1", to |-> "t1", links |-> {}]]

\* The computed fields are named after their places in the snapshot.
RestoreBaseInit ==
  /\ queue = <<f1, f2, f3>>
  /\ \/ /\ part = "links"
        /\ options = NamesNothing
     \/ /\ part = "computed"
        /\ base \in {[rels |-> NoLinks, order |-> o] : o \in Links!Orders(NoLinks)}
  /\ part \in Parts
  /\ Links!Init
  /\ Init

RestoreBaseNext ==
  \/ part = "computed" /\ Next /\ UNCHANGED <<part, linkVars>>
  \/ part = "links" /\ Links!Next /\ UNCHANGED <<part, vars>>

RestoreBaseSpec == RestoreBaseInit /\ [][RestoreBaseNext]_allVars

Symmetry == Permutations(Relations) \cup Permutations(Records)

-----------------------------------------------------------------------------
(* Properties, of both parts or of one *)

\* Every variable of both parts has its type.
TypesOK == TypeOK /\ Links!TypeOK

\* Whatever relations NocoDB refuses, a field is restored once or reported, and
\* a restored one shows the links it was captured with, but for those reported.
RestoredAsCaptured == Links!FieldsAccounted /\ Links!LinksRestored /\ EachFieldOnce

\* The field whose links mirror those of a relation is taken for its other
\* side; else there is a warning.
MirrorWins == Links!MirrorWins
=============================================================================
