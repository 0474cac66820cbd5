----------------------------- MODULE ZoneRules -----------------------------
(***************************************************************************)
(* The rules of one Cloudflare Zone Rules phase, and the requests of       *)
(* several people that change them. Creating and reordering replace the    *)
(* whole ruleset; updating and deleting change one rule. Each handler      *)
(* reads the ruleset, then takes the lock of the resource, then logs and   *)
(* sends its change. How a change is logged is OperationLog's.             *)
(***************************************************************************)
EXTENDS Integers, FiniteSets, Sequences, SequencesExt

CONSTANTS
  Editors,  \* requests, each of one person
  Rules     \* rules there are to begin with, if the phase has a ruleset

RuleConstants == Rules \in Nat \ {0}

VARIABLES
  live,   \* external: the ruleset at Cloudflare
  edit,   \* the requests: page shown, ruleset read, what is asked
  holder, \* who holds the lock of the resource
  ids,    \* external: rule ids given so far
  lost,   \* history: rules a whole-ruleset write dropped, and the writer
  stale   \* history: edits of one rule made on a text nobody had shown

vars == <<live, edit, holder, ids, lost, stale>>
history == <<lost, stale>>

\* A rule is its id and its text; a new text is the number of the write. A
\* ruleset's version tells two states of it apart, as Snapshot's hash does.
Ruleset(version, rules) == [version |-> version, rules |-> rules]
Missing == Ruleset(0, <<>>)
Rule(id, text) == [id |-> id, text |-> text]
Ids(rs) == {rs.rules[i].id : i \in DOMAIN rs.rules}
TextOf(rs, id) == (CHOOSE r \in ToSet(rs.rules) : r.id = id).text

Nobody == "nobody"
Asks == {"create", "update", "reorder", "delete"}
NoEdit == [at |-> "idle", asks |-> "create", page |-> Missing, seen |-> Missing,
           rule |-> 0, order |-> <<>>]

Rulesets == [version : Nat, rules : Seq([id : Nat, text : Nat])]

Edits == [at : {"idle", "shown", "read", "locked", "sent", "done", "refused"},
          asks : Asks, page : Rulesets, seen : Rulesets, rule : Nat, order : Seq(Nat)]

TypeOK ==
  /\ live \in Rulesets
  /\ edit \in [Editors -> Edits]
  /\ holder \in Editors \cup {Nobody}
  /\ ids \in Nat
  /\ lost \subseteq Nat \X Editors
  /\ stale \subseteq Editors

Init ==
  /\ \/ live = Missing /\ ids = 0
     \/ live = Ruleset(1, [i \in 1..Rules |-> Rule(i, 1)]) /\ ids = Rules
  /\ edit = [e \in Editors |-> NoEdit]
  /\ holder = Nobody
  /\ lost = {}
  /\ stale = {}

At(e, at) == edit[e].at = at
Goes(e, at) == edit' = [edit EXCEPT ![e].at = at]

-----------------------------------------------------------------------------
(* Reading *)

\* Orders a person may ask for: the rules of the page, some or all of them.
Orders(rs) == SetToAllKPermutations(Ids(rs))

\* A page shows the ruleset, and the person asks for a change of it.
Show(e) ==
  /\ At(e, "idle")
  /\ \E asks \in Asks, rule \in Ids(live) \cup {0}, order \in Orders(live) :
       /\ (asks \in {"update", "delete"}) <=> (rule # 0)
       /\ asks # "reorder" => order = <<>>
       /\ edit' = [edit EXCEPT ![e] = [at |-> "shown", asks |-> asks, page |-> live,
                                       seen |-> Missing, rule |-> rule, order |-> order]]
  /\ UNCHANGED <<live, holder, ids, history>>

\* The snapshot the person's page was made of is the one just read.
Unchanged(e) == edit[e].page.version = live.version

\* Mutant of WholeOrder: an order of some of the rules will do.
SomeOrder(e) == ToSet(edit[e].order) \subseteq Ids(live)

\* ReorderZoneRules, here and in the client: every rule, each once.
WholeOrder(e) ==
  /\ ToSet(edit[e].order) = Ids(live)
  /\ Len(edit[e].order) = Len(live.rules)

\* What the handler checks on the ruleset it reads. A creation only reads it.
Accepted(e) ==
  CASE edit[e].asks = "create"  -> TRUE
    [] edit[e].asks = "update"  -> live # Missing /\ Unchanged(e) /\ edit[e].rule \in Ids(live)
    [] edit[e].asks = "reorder" -> live # Missing /\ Unchanged(e) /\ WholeOrder(e)
    [] edit[e].asks = "delete"  -> live # Missing /\ edit[e].rule \in Ids(live)

\* The handler reads the ruleset, before it takes the lock.
Read(e) ==
  /\ At(e, "shown")
  /\ edit' = [edit EXCEPT ![e].seen = live,
                          ![e].at = IF Accepted(e) THEN "read" ELSE "refused"]
  /\ UNCHANGED <<live, holder, ids, history>>

-----------------------------------------------------------------------------
(* Writing, under the lock *)

Lock(e) ==
  /\ At(e, "read")
  /\ holder = Nobody
  /\ holder' = e
  /\ Goes(e, "locked")
  /\ UNCHANGED <<live, ids, history>>

\* The change cannot be logged: it is not sent.
LogFails(e) ==
  /\ At(e, "locked")
  /\ Goes(e, "refused")
  /\ holder' = Nobody
  /\ UNCHANGED <<live, ids, history>>

Sent(e) == Goes(e, "sent")
NextVersion == live.version + 1
Dropped(e, rules) == (Ids(live) \ Ids(Ruleset(0, rules))) \X {e}

\* External: PUT of a whole ruleset.
Replace(e, rules) ==
  /\ live' = Ruleset(NextVersion, rules)
  /\ lost' = lost \cup Dropped(e, rules)
  /\ UNCHANGED stale

NewRule == Rule(ids + 1, NextVersion)

\* The new rule goes behind the rules read before the lock; a phase without
\* a ruleset gets one, which Cloudflare refuses if there is one by now.
SendCreate(e) ==
  /\ At(e, "locked")
  /\ edit[e].asks = "create"
  /\ edit[e].seen # Missing \/ live = Missing
  /\ Replace(e, Append(edit[e].seen.rules, NewRule))
  /\ ids' = ids + 1
  /\ Sent(e)
  /\ UNCHANGED <<holder>>

\* The rules read before the lock, in the order asked for.
Reordered(e) ==
  [i \in DOMAIN edit[e].order |->
     Rule(edit[e].order[i], TextOf(edit[e].seen, edit[e].order[i]))]

SendReorder(e) ==
  /\ At(e, "locked")
  /\ edit[e].asks = "reorder"
  /\ Replace(e, Reordered(e))
  /\ Sent(e)
  /\ UNCHANGED <<holder, ids>>

\* External: PUT of one rule.
SendUpdate(e) ==
  /\ At(e, "locked")
  /\ edit[e].asks = "update"
  /\ edit[e].rule \in Ids(live)
  /\ live' = Ruleset(NextVersion,
       [i \in DOMAIN live.rules |->
          IF live.rules[i].id = edit[e].rule THEN Rule(edit[e].rule, NextVersion)
          ELSE live.rules[i]])
  /\ stale' = IF TextOf(live, edit[e].rule) = TextOf(edit[e].page, edit[e].rule)
              THEN stale ELSE stale \cup {e}
  /\ Sent(e)
  /\ UNCHANGED <<holder, ids, lost>>

\* External: DELETE of one rule.
SendDelete(e) ==
  /\ At(e, "locked")
  /\ edit[e].asks = "delete"
  /\ \E i \in DOMAIN live.rules :
       /\ live.rules[i].id = edit[e].rule
       /\ live' = Ruleset(NextVersion, RemoveAt(live.rules, i))
  /\ Sent(e)
  /\ UNCHANGED <<holder, ids, history>>

\* Cloudflare refuses the change, or nothing of it arrives.
SendRefused(e) ==
  /\ At(e, "locked")
  /\ Sent(e)
  /\ UNCHANGED <<live, holder, ids, history>>

\* The outcome is logged, and the lock released.
Unlock(e) ==
  /\ At(e, "sent")
  /\ holder' = Nobody
  /\ Goes(e, "done")
  /\ UNCHANGED <<live, ids, history>>

-----------------------------------------------------------------------------

Send(e) == SendCreate(e) \/ SendReorder(e) \/ SendUpdate(e) \/ SendDelete(e) \/ SendRefused(e)
Handle(e) == Read(e) \/ Lock(e) \/ LogFails(e) \/ Send(e) \/ Unlock(e)

Next == \E e \in Editors : Show(e) \/ Handle(e)

Spec == Init /\ [][Next]_vars

-----------------------------------------------------------------------------
(* Properties *)

\* A change undoes only what came up after its handler read the ruleset: a
\* rule that it drops was not there then, and a text that it replaces without
\* its person having been shown it was not there then either.
LosesOnlyUnseen ==
  /\ \A d \in lost : d[1] \notin Ids(edit[d[2]].seen)
  /\ \A e \in stale :
       TextOf(edit[e].page, edit[e].rule) = TextOf(edit[e].seen, edit[e].rule)
=============================================================================
