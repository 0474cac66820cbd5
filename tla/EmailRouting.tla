---------------------------- MODULE EmailRouting ----------------------------
(***************************************************************************)
(* Email Routing of an Account's Zones: the requests that change routing   *)
(* rules, the catch-all and the destination addresses. What concerns a     *)
(* Zone is read and changed under the Zone's lock, and adding an address   *)
(* under the lock of the addresses; nothing holds both. How a change is    *)
(* logged is OperationLog's.                                               *)
(***************************************************************************)
EXTENDS Integers, FiniteSets

CONSTANTS
  Requests,
  Zones,
  Addresses, \* addresses of a Zone that rules route
  Dests,     \* destination addresses
  MaxLate    \* writes without an answer that may still arrive

EmailConstants ==
  /\ MaxLate \in Nat
  /\ "addresses" \notin Zones
  /\ "nobody" \notin Requests
  /\ "drop" \notin Dests

VARIABLES
  rules,    \* external: the rules of each Zone, by the request that made them
  catchAll, \* external: each Zone's catch-all
  dest,     \* external: the destination addresses
  request,  \* the requests
  holder,   \* who holds each lock
  late,     \* external: writes given up that may still arrive
  arrived,  \* history: such writes that did
  removed   \* history: destination addresses deleted, with the Zone asked in

vars == <<rules, catchAll, dest, request, holder, late, arrived, removed>>
cloudflare == <<rules, catchAll, dest, late>>
history == <<arrived, removed>>

Drop == "drop"
Rule(addr, on, to) == [addr |-> addr, on |-> on, to |-> to]
NoRule == Rule("none", FALSE, Drop)
Off == [on |-> FALSE, to |-> Drop]
Targets == Dests \cup {Drop}
RoutingRules == [addr : Addresses \cup {"none"}, on : BOOLEAN, to : Targets]

\* An address added again is another one: deleting the old one fails.
Dest(state, made) == [state |-> state, made |-> made]
NoDest == Dest("none", 0)

\* Of a rule or catch-all: whether it forwards, and to whom.
Forwards(r) == r.to # Drop

Kinds == {"create_rule", "update_rule", "delete_rule", "set_catch_all",
          "create_address", "delete_address"}
Idle == [at |-> "idle", kind |-> "delete_rule", zone |-> "none", id |-> "none",
         rule |-> NoRule, made |-> 0]
Asked == [at : {"idle", "opened", "locked", "checking", "sending", "done", "refused"},
          kind : Kinds, zone : Zones \cup {"none"}, id : Requests \cup {"none"},
          rule : RoutingRules, made : Nat]

TypeOK ==
  /\ rules \in [Zones -> [Requests -> RoutingRules]]
  /\ catchAll \in [Zones -> [on : BOOLEAN, to : Targets]]
  /\ dest \in [Dests -> [state : {"none", "unverified", "verified"}, made : Nat]]
  /\ request \in [Requests -> Asked]
  /\ holder \in [Zones \cup {"addresses"} -> Requests \cup {"nobody"}]
  /\ late \subseteq Requests
  /\ arrived \in 0..MaxLate
  /\ removed \subseteq Dests \X Zones

Init ==
  /\ rules = [z \in Zones |-> [q \in Requests |-> NoRule]]
  /\ catchAll = [z \in Zones |-> Off]
  /\ dest \in [Dests -> {NoDest, Dest("verified", 1)}]
  /\ request = [q \in Requests |-> Idle]
  /\ holder = [k \in Zones \cup {"addresses"} |-> "nobody"]
  /\ late = {}
  /\ arrived = 0
  /\ removed = {}

At(q, at) == request[q].at = at
Goes(q, at) == request' = [request EXCEPT ![q].at = at]
Zone(q) == request[q].zone
In(q) == request[q].rule
Made(z) == {i \in Requests : rules[z][i] # NoRule}

-----------------------------------------------------------------------------
(* Requests *)

\* What is asked for, and for deleting an address what the list says of it.
Open(q) ==
  /\ At(q, "idle")
  /\ \E kind \in Kinds, z \in Zones \cup {"none"}, i \in Requests,
        a \in Addresses \cup {"none"}, on \in BOOLEAN, to \in Targets :
       /\ kind = "create_address" <=> z = "none"
       /\ kind \in {"create_rule", "update_rule"} <=> a # "none"
       /\ kind \in {"create_rule", "set_catch_all"} => i = q
       /\ kind \in {"update_rule", "delete_rule"} => i \in Made(z)
       /\ kind \in {"create_address", "delete_address"} => to # Drop /\ on /\ i = q
       /\ kind = "delete_address" => dest[to].state # "none"
       /\ kind = "delete_rule" => ~on /\ to = Drop
       /\ request' = [request EXCEPT ![q] =
            [at |-> "opened", kind |-> kind, zone |-> z, id |-> i,
             rule |-> Rule(a, on, to),
             made |-> IF to \in Dests THEN dest[to].made ELSE 0]]
  /\ UNCHANGED <<cloudflare, holder, history>>

Key(q) == IF request[q].kind = "create_address" THEN "addresses" ELSE Zone(q)

Lock(q) ==
  /\ At(q, "opened")
  /\ holder[Key(q)] = "nobody"
  /\ holder' = [holder EXCEPT ![Key(q)] = q]
  /\ Goes(q, "locked")
  /\ UNCHANGED <<cloudflare, history>>

Unlock(q) == holder' = [holder EXCEPT ![Key(q)] = "nobody"]

\* The request ends, and its lock is released.
Ends(q, at) ==
  /\ request' = [request EXCEPT ![q] = [Idle EXCEPT !.at = at]]
  /\ Unlock(q)

\* Another rule of the Zone has the address.
Taken(q) == \E i \in Made(Zone(q)) \ {request[q].id} : rules[Zone(q)][i].addr = In(q).addr

\* requireVerified looks only at what is enabled and forwards.
NeedsCheck(r) == r.on /\ Forwards(r)

\* Mutant of CheckNext: the destination of a rule is not looked up.
CheckNextNever(q) == Goes(q, "sending")

CheckNext(q) == Goes(q, IF NeedsCheck(In(q)) THEN "checking" ELSE "sending")

ReadRules(q) ==
  /\ At(q, "locked")
  /\ request[q].kind \in {"create_rule", "update_rule", "delete_rule"}
  /\ LET cur == rules[Zone(q)][request[q].id]
         kind == request[q].kind
     IN  CASE kind = "create_rule" /\ ~Taken(q) -> CheckNext(q) /\ UNCHANGED holder
           [] kind = "update_rule" /\ cur \notin {NoRule, In(q)} /\ ~Taken(q) ->
                CheckNext(q) /\ UNCHANGED holder
           [] kind = "update_rule" /\ cur = In(q) /\ ~Taken(q) -> Ends(q, "done")
           [] kind = "delete_rule" /\ cur # NoRule -> Goes(q, "sending") /\ UNCHANGED holder
           [] OTHER -> Ends(q, "refused")
  /\ UNCHANGED <<cloudflare, history>>

\* Off keeps whatever action the catch-all has.
NextCatchAll(q) ==
  IF In(q).on THEN [on |-> TRUE, to |-> In(q).to]
  ELSE [catchAll[Zone(q)] EXCEPT !.on = FALSE]

ReadCatchAll(q) ==
  /\ At(q, "locked")
  /\ request[q].kind = "set_catch_all"
  /\ IF NextCatchAll(q) = catchAll[Zone(q)] THEN Ends(q, "done")
     ELSE /\ UNCHANGED holder
          /\ request' = [request EXCEPT
               ![q].at = IF NeedsCheck(NextCatchAll(q)) THEN "checking" ELSE "sending",
               ![q].rule = Rule("none", NextCatchAll(q).on, NextCatchAll(q).to)]
  /\ UNCHANGED <<cloudflare, history>>

RequireVerified(q) ==
  /\ At(q, "checking")
  /\ request[q].kind # "delete_address"
  /\ IF dest[In(q).to].state = "verified" THEN Goes(q, "sending") /\ UNCHANGED holder
                                          ELSE Ends(q, "refused")
  /\ UNCHANGED <<cloudflare, history>>

\* An address the Account has is left alone.
ReadAddresses(q) ==
  /\ At(q, "locked")
  /\ request[q].kind = "create_address"
  /\ IF dest[In(q).to].state = "none" THEN Goes(q, "sending") /\ UNCHANGED holder
                                      ELSE Ends(q, "done")
  /\ UNCHANGED <<cloudflare, history>>

\* No rule of the Zone may forward to the address, enabled or not; then the
\* catch-all is read.
RuleUses(z, d) == \E i \in Made(z) : rules[z][i].to = d

ReadUsers(q) ==
  /\ At(q, "locked")
  /\ request[q].kind = "delete_address"
  /\ IF RuleUses(Zone(q), In(q).to) THEN Ends(q, "refused")
                                    ELSE Goes(q, "checking") /\ UNCHANGED holder
  /\ UNCHANGED <<cloudflare, history>>

ReadCatchAllUser(q) ==
  /\ At(q, "checking")
  /\ request[q].kind = "delete_address"
  /\ IF catchAll[Zone(q)].to = In(q).to THEN Ends(q, "refused")
                                        ELSE Goes(q, "sending") /\ UNCHANGED holder
  /\ UNCHANGED <<cloudflare, history>>

\* A read fails, or Cloudflare refuses the change.
Fail(q) ==
  /\ request[q].at \in {"locked", "checking", "sending"}
  /\ Ends(q, "refused")
  /\ UNCHANGED <<cloudflare, history>>

-----------------------------------------------------------------------------
(* Changes at Cloudflare *)

\* External: what each change does. A rule or an address that is gone is 404.
Change(q) ==
  LET z == Zone(q)
      to == In(q).to
  IN  CASE request[q].kind \in {"create_rule", "update_rule"} ->
             /\ request[q].kind = "update_rule" => request[q].id \in Made(z)
             /\ rules' = [rules EXCEPT ![z][request[q].id] = In(q)]
             /\ UNCHANGED <<catchAll, dest, removed>>
        [] request[q].kind = "delete_rule" ->
             /\ rules' = [rules EXCEPT ![z][request[q].id] = NoRule]
             /\ UNCHANGED <<catchAll, dest, removed>>
        [] request[q].kind = "set_catch_all" ->
             /\ catchAll' = [catchAll EXCEPT ![z] = [on |-> In(q).on, to |-> to]]
             /\ UNCHANGED <<rules, dest, removed>>
        [] request[q].kind = "create_address" ->
             /\ dest[to].state = "none"
             /\ dest' = [dest EXCEPT ![to] = Dest("unverified", @.made + 1)]
             /\ UNCHANGED <<rules, catchAll, removed>>
        [] request[q].kind = "delete_address" ->
             /\ dest[to].state # "none" /\ dest[to].made = request[q].made
             /\ dest' = [dest EXCEPT ![to].state = "none"]
             /\ removed' = removed \cup {<<to, z>>}
             /\ UNCHANGED <<rules, catchAll>>

Send(q) ==
  /\ At(q, "sending")
  /\ Change(q)
  /\ Ends(q, "done")
  /\ UNCHANGED <<late, arrived>>

\* No answer: the outcome is unknown, and the lock is released.
GiveUp(q) ==
  /\ At(q, "sending")
  /\ Cardinality(late) + arrived < MaxLate
  /\ late' = late \cup {q}
  /\ Goes(q, "done")
  /\ Unlock(q)
  /\ UNCHANGED <<rules, catchAll, dest, history>>

Arrive(q) ==
  /\ q \in late
  /\ Change(q)
  /\ late' = late \ {q}
  /\ arrived' = arrived + 1
  /\ UNCHANGED <<request, holder>>

\* External: somebody follows the link that was mailed to the address.
Verify(d) ==
  /\ dest[d].state = "unverified"
  /\ dest' = [dest EXCEPT ![d].state = "verified"]
  /\ UNCHANGED <<rules, catchAll, late, request, holder, history>>

-----------------------------------------------------------------------------

Handle(q) ==
  \/ Lock(q) \/ ReadRules(q) \/ ReadCatchAll(q) \/ RequireVerified(q)
  \/ ReadAddresses(q) \/ ReadUsers(q) \/ ReadCatchAllUser(q)
  \/ Fail(q) \/ Send(q) \/ GiveUp(q)

Next ==
  \/ \E q \in Requests : Open(q) \/ Handle(q) \/ Arrive(q)
  \/ \E d \in Dests : Verify(d)

Spec == Init /\ [][Next]_vars

-----------------------------------------------------------------------------
(* Properties *)

\* A Zone routes an address by one rule: no two requests that ran together
\* gave it two, unless a write arrived after its lock was released.
OneRulePerAddress ==
  arrived = 0 =>
    \A z \in Zones : \A i, j \in Made(z) : rules[z][i].addr = rules[z][j].addr => i = j

Live(z) == {rules[z][i] : i \in Made(z)} \cup {catchAll[z]}

\* What is enabled and forwards, forwards to a verified address of the
\* Account; unless the address was deleted in another Zone, whose rules are
\* all that is checked, or a write arrived late.
ForwardsVerified ==
  arrived = 0 =>
    \A z \in Zones, d \in Dests :
      (\E r \in Live(z) : r.on /\ r.to = d)
        => dest[d].state = "verified" \/ \E y \in Zones \ {z} : <<d, y>> \in removed

\* What the handlers look up before a change holds of the rules that are live.
RulesHold == OneRulePerAddress /\ ForwardsVerified
=============================================================================
