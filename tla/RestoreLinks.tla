---------------------------- MODULE RestoreLinks ----------------------------
(***************************************************************************)
(* How a restore brings relations and their links into the new Base. A     *)
(* snapshot holds both sides of a relation and does not say which fields   *)
(* belong together; NocoDB makes the other side itself. The restore pairs  *)
(* the fields, creates one of each pair, inserts the records, and writes   *)
(* the links of the fields it created.                                     *)
(***************************************************************************)
EXTENDS Integers, FiniteSets, Sequences, SequencesExt

CONSTANTS
  Relations,  \* relations of the Base the snapshot was taken of
  Records,    \* records of each of its two tables
  MaxLinks,   \* links of each relation
  MaxRefused  \* fields, records and links NocoDB refuses

RestoreConstants ==
  /\ IsFiniteSet(Relations) /\ IsFiniteSet(Records)
  /\ MaxLinks \in Nat /\ MaxRefused \in Nat

VARIABLES
  base,     \* the snapshot: its relations, and the order of their fields
  todo,     \* the fields createRelations has not come to
  handled,  \* those it has dealt with
  sides,    \* fields whose relation was created from their side
  pair,     \* the field taken for the inverse of each side, if any
  skipped,  \* fields that are not restored
  guessed,  \* fields paired by order, with a warning
  tied,     \* history: fields whose links several candidates mirrored as well
  kept,     \* the records that were inserted
  linked,   \* external: the links of each side in the new Base
  failed,   \* the links of each side reported as failed
  refused,  \* what NocoDB refused so far
  phase

vars == <<base, todo, handled, sides, pair, skipped, guessed, tied, kept, linked,
          failed, refused, phase>>
fields == <<todo, handled, sides, pair, skipped, guessed, tied>>
data == <<kept, linked, failed>>

-----------------------------------------------------------------------------
(* The snapshot *)

Tables == {"t1", "t2"}
Elsewhere == "elsewhere"  \* a table that is not in the snapshot

Field(rel, end) == [rel |-> rel, end |-> end]
Ends == {Field(rel, end) : rel \in Relations, end \in {"from", "to"}}
NoField == Field("none", "none")

\* A relation from the side that owns many records ("hm") or from either side
\* ("mm"), and its links.
Mirrored(type) == CASE type = "hm" -> "bt" [] type = "bt" -> "hm" [] type = "mm" -> "mm"
Mirror(links) == {<<l[2], l[1]>> : l \in links}

Own(f) == base.rels[f.rel]
TableOf(f) == IF f.end = "from" THEN Own(f).from ELSE Own(f).to
Related(f) == IF f.end = "from" THEN Own(f).to ELSE Own(f).from
TypeOf(f) == IF f.end = "from" THEN Own(f).type ELSE Mirrored(Own(f).type)
LinksOf(f) == IF f.end = "from" THEN Own(f).links ELSE Mirror(Own(f).links)

\* A record has one parent. A self-link has no inverse in the snapshot, nor
\* has a relation to a table that is not in it.
Possible ==
  {r \in [type : {"mm", "hm"}, from : Tables, to : Tables \cup {Elsewhere},
          links : kSubset(0, Records \X Records)
                    \cup UNION {kSubset(n, Records \X Records) : n \in 1..MaxLinks}] :
     /\ r.type = "hm" => \A k, l \in r.links : k[2] = l[2] => k = l
     /\ r.to = Elsewhere => r.links = {}}
Held(rels) ==
  {f \in Ends : f.end = "from" \/ rels[f.rel].to \notin {rels[f.rel].from, Elsewhere}}

\* The fields of t1 in some order, then those of t2.
Orders(rels) ==
  LET In(t) == {f \in Held(rels) :
                  t = IF f.end = "from" THEN rels[f.rel].from ELSE rels[f.rel].to}
  IN  {s \o t : s \in SetToSeqs(In("t1")), t \in SetToSeqs(In("t2"))}

TypeOK ==
  /\ ToSet(todo) \subseteq ToSet(base.order)
  /\ handled \cup sides \cup skipped \cup guessed \cup tied \subseteq ToSet(base.order)
  /\ pair \in [Ends -> Ends \cup {NoField}]
  /\ kept \subseteq Tables \X Records
  /\ \A f \in Ends : linked[f] \cup failed[f] \subseteq Records \X Records
  /\ refused \in 0..MaxRefused
  /\ phase \in {"relations", "records", "links", "done", "aborted"}

Init ==
  /\ \E rels \in [Relations -> Possible] :
       \E order \in Orders(rels) : base = [rels |-> rels, order |-> order]
  /\ todo = base.order
  /\ handled = {} /\ sides = {} /\ skipped = {} /\ guessed = {} /\ tied = {}
  /\ pair = [f \in Ends |-> NoField]
  /\ kept = {}
  /\ linked = [f \in Ends |-> {}]
  /\ failed = [f \in Ends |-> {}]
  /\ refused = 0
  /\ phase = "relations"

Refuse(n) == refused + n <= MaxRefused /\ refused' = refused + n

-----------------------------------------------------------------------------
(* Pairing the fields *)

\* The fields that could be the other side of f.
Candidates(f) ==
  {g \in ToSet(base.order) \ (handled \cup skipped) :
     /\ TableOf(f) # Related(f)
     /\ TableOf(g) = Related(f) /\ Related(g) = TableOf(f)
     /\ TypeOf(g) = Mirrored(TypeOf(f))}

\* Mutant of Score: the two ends of a link are not swapped.
ScoreUnswapped(f, g) == Cardinality(LinksOf(f) \cap LinksOf(g))

\* How many links of f a candidate mirrors.
Score(f, g) == Cardinality(LinksOf(f) \cap Mirror(LinksOf(g)))
Best(f) == {g \in Candidates(f) : \A h \in Candidates(f) : Score(f, g) >= Score(f, h)}
Place(f) == CHOOSE i \in DOMAIN base.order : base.order[i] = f
First(fs) == CHOOSE f \in fs : \A g \in fs : Place(f) <= Place(g)

OtherSide(f) == IF Candidates(f) = {} THEN NoField ELSE First(Best(f))
Ambiguous(f) == Cardinality(Candidates(f)) > 1
Guess(f) == Ambiguous(f) /\ Score(f, OtherSide(f)) = 0
Tie(f) == Cardinality(Best(f)) > 1 /\ Score(f, OtherSide(f)) > 0

\* A relation is created from the side of its owner.
SideOf(f) == IF OtherSide(f) # NoField /\ TypeOf(f) = "bt" THEN OtherSide(f) ELSE f
OtherOf(f) == IF SideOf(f) = f THEN OtherSide(f) ELSE f

\* Mutant of Both: the other side is taken without a look at whether there is one.
BothUnchecked(f) == {SideOf(f), OtherOf(f)}

Both(f) == {SideOf(f), OtherOf(f)} \ {NoField}

Pass(f) == f \in handled \/ f \in skipped

\* A field that was the other side of one before it is passed over.
PassOver ==
  /\ phase = "relations"
  /\ todo # <<>>
  /\ Pass(Head(todo))
  /\ todo' = Tail(todo)
  /\ UNCHANGED <<base, handled, sides, pair, skipped, guessed, tied, data, refused, phase>>

\* Its related table is not in the snapshot.
SkipUnrelated ==
  LET f == Head(todo)
  IN  /\ phase = "relations"
      /\ todo # <<>>
      /\ ~Pass(f)
      /\ Related(f) \notin Tables
      /\ skipped' = skipped \cup {f}
      /\ handled' = handled \cup {f}
      /\ todo' = Tail(todo)
      /\ UNCHANGED <<base, sides, pair, guessed, tied, data, refused, phase>>

Takes(f) ==
  /\ phase = "relations"
  /\ todo # <<>>
  /\ f = Head(todo)
  /\ ~Pass(f)
  /\ Related(f) \in Tables
  /\ handled' = handled \cup Both(f)
  /\ guessed' = IF Guess(f) THEN guessed \cup {f} ELSE guessed
  /\ tied' = IF Tie(f) THEN tied \cup {f} ELSE tied
  /\ todo' = Tail(todo)
  /\ UNCHANGED <<base, data, phase>>

\* The side is created, and NocoDB adds the other, which gets its title.
CreateRelation ==
  \E f \in ToSet(todo) :
    /\ Takes(f)
    /\ sides' = sides \cup {SideOf(f)}
    /\ pair' = [pair EXCEPT ![SideOf(f)] = OtherOf(f)]
    /\ UNCHANGED <<skipped, refused>>

\* NocoDB refuses the field, or does not show the other side it made.
RefuseRelation ==
  \E f \in ToSet(todo) :
    /\ Takes(f)
    /\ Refuse(1)
    /\ skipped' = skipped \cup Both(f)
    /\ UNCHANGED <<sides, pair>>

MissInverse ==
  \E f \in ToSet(todo) :
    /\ Takes(f)
    /\ OtherOf(f) # NoField
    /\ Refuse(1)
    /\ sides' = sides \cup {SideOf(f)}
    /\ skipped' = skipped \cup {OtherOf(f)}
    /\ UNCHANGED pair

RelationsDone ==
  /\ phase = "relations"
  /\ todo = <<>>
  /\ phase' = "records"
  /\ UNCHANGED <<base, fields, data, refused>>

-----------------------------------------------------------------------------
(* Records and links *)

\* Records are inserted in batches; of a batch that is refused, one by one.
InsertRecords ==
  /\ phase = "records"
  /\ \E n \in 0..(MaxRefused - refused) : \E bad \in kSubset(n, Tables \X Records) :
       /\ kept' = (Tables \X Records) \ bad
       /\ Refuse(n)
  /\ phase' = "links"
  /\ UNCHANGED <<base, fields, linked, failed>>

\* The links of a side both of whose records are there. It may be a record
\* whose request NocoDB refuses.
Writable(s) ==
  {l \in LinksOf(s) : <<TableOf(s), l[1]>> \in kept /\ <<Related(s), l[2]>> \in kept}

LinkRecords(s) ==
  /\ phase = "links"
  /\ s \in sides
  /\ linked[s] \cup failed[s] # LinksOf(s)
  /\ \E n \in 0..(MaxRefused - refused) : \E bad \in kSubset(n, Writable(s)) :
       /\ linked' = [linked EXCEPT ![s] = Writable(s) \ bad]
       /\ failed' = [failed EXCEPT ![s] = LinksOf(s) \ (Writable(s) \ bad)]
       /\ Refuse(n)
  /\ UNCHANGED <<base, fields, kept, phase>>

LinksDone ==
  /\ phase = "links"
  /\ \A s \in sides : linked[s] \cup failed[s] = LinksOf(s)
  /\ phase' = "done"
  /\ UNCHANGED <<base, fields, data, refused>>

\* Any other error ends the restore where it is.
Abort ==
  /\ phase \in {"relations", "records", "links"}
  /\ phase' = "aborted"
  /\ UNCHANGED <<base, fields, data, refused>>

-----------------------------------------------------------------------------

Next ==
  \/ PassOver \/ SkipUnrelated \/ CreateRelation \/ RefuseRelation \/ MissInverse
  \/ RelationsDone
  \/ InsertRecords
  \/ \E s \in Ends : LinkRecords(s)
  \/ LinksDone \/ Abort

Spec == Init /\ [][Next]_vars

-----------------------------------------------------------------------------
(* Properties *)

\* The side a restored field's relation was created from, and what the field
\* shows in the new Base.
Inverses == {pair[s] : s \in sides} \ {NoField}
SideFor(f) == IF f \in sides THEN f ELSE CHOOSE s \in sides : pair[s] = f
Seen(f, links) == IF f \in sides THEN links[f] ELSE Mirror(links[SideFor(f)])

Doubt(f, fs) == \E g \in fs : {TableOf(f), Related(f)} = {TableOf(g), Related(g)}

\* Every relation is created once, and every field of the snapshot is either
\* restored or reported as skipped.
FieldsAccounted ==
  /\ \A s \in sides : pair[s] \notin sides
  /\ \A s, u \in sides : pair[s] = pair[u] /\ pair[s] # NoField => s = u
  /\ (sides \cup Inverses) \cap skipped = {}
  /\ phase \notin {"relations", "aborted"} =>
       sides \cup Inverses \cup skipped = ToSet(base.order)

\* A restored field shows the links it was captured with, but for those
\* reported as failed; unless its relation was paired by order, with a warning,
\* or several candidates mirrored the same number of its links.
LinksRestored ==
  phase = "done" =>
    \A f \in sides \cup Inverses :
      \/ Seen(f, linked) \cup Seen(f, failed) = LinksOf(f)
      \/ Doubt(f, guessed \cup tied)

\* The candidate whose links mirror the field's wins; else there is a warning.
MirrorWins ==
  \A s \in sides :
    pair[s] # NoField => LinksOf(pair[s]) = Mirror(LinksOf(s)) \/ Doubt(s, guessed)
=============================================================================
