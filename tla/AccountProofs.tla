---------------------------- MODULE AccountProofs ----------------------------
(***************************************************************************)
(* Theorems of one Cloudflare account: of the log of operations, for both  *)
(* providers, any operations and any number of resends; of Email Routing,  *)
(* of Zone Rules and of a Tunnel, for any requests, Zones, addresses,      *)
(* hostnames and paths; and of the account that they are parts of.         *)
(***************************************************************************)
EXTENDS MCAccount, FiniteSetTheorems, SequenceTheorems, TLAPS

-----------------------------------------------------------------------------
(* The log of operations *)

\* Until its answer is in, a write was not made and is not on its way: that is
\* what lets a throttled one be sent again.
SentInv ==
  \A o \in Ops :
    /\ work[o].at \in {"idle", "opened", "send", "wait"} => made[o] = 0 /\ o \notin inAir
    /\ made[o] = 0 \/ (made[o] = 1 /\ o \notin inAir)

\* A write that waits may still be sent again.
WaitInv == \A o \in Ops : work[o].at = "wait" => work[o].tries < MaxRetries

\* The row a handler finds when it records the outcome it learnt.
RowInv ==
  \A o \in Ops :
    /\ work[o].at \in {"idle", "opened"} => row[o] = "none"
    /\ work[o].at \in {"send", "wait", "finish"} => row[o] \in {"pending", "deleted"}

\* What a handler learnt is what happened, and nobody was told before.
LearntInv ==
  \A o \in Ops :
    /\ work[o].at # "done" => told[o] = "nothing"
    /\ work[o].at = "finish" =>
         /\ work[o].outcome = "succeeded" => made[o] = 1
         /\ work[o].outcome = "failed" => made[o] = 0 /\ o \notin inAir

IInv == TypeOK /\ WaitInv /\ SentInv /\ RowInv /\ LearntInv /\ ToldTrue

LEMMA InitInv == Init => IInv
BY OperationConstants
   DEF Init, IInv, TypeOK, Statuses, Work, NoWork, Outcomes, WaitInv, SentInv, RowInv, LearntInv,
       ToldTrue, WriteAhead, LogIsTrue, AnswerIsTrue

\* A handler moves: the others, and what they wrote, stay as they are.
LEMMA HandleInv ==
  ASSUME IInv, NEW o \in Ops, Handle(o)
  PROVE  IInv'
<1> USE OperationConstants
    DEF IInv, TypeOK, Statuses, Work, Outcomes, WaitInv, SentInv, RowInv, LearntInv,
        ToldTrue, WriteAhead, LogIsTrue, AnswerIsTrue, At, Goes, Tells, Learns, provider
<1>1. CASE Open(o)
  BY <1>1 DEF Open
<1>2. CASE Record(o)
  BY <1>2 DEF Record
<1>3. CASE RecordFails(o)
  BY <1>3 DEF RecordFails
<1>4. CASE Confirmed(o)
  BY <1>4 DEF Confirmed
<1>5. CASE Refused(o)
  BY <1>5 DEF Refused
<1>6. CASE Throttled(o)
  BY <1>6 DEF Throttled
<1>7. CASE NoAnswer(o)
  BY <1>7 DEF NoAnswer
<1>8. CASE SendAgain(o)
  BY <1>8 DEF SendAgain
<1>9. CASE WaitEnds(o)
  BY <1>9 DEF WaitEnds
<1>10. CASE Finish(o)
  BY <1>10 DEF Finish, Answer
<1>11. CASE FinishFails(o)
  <2>1. PICK s \in Statuses : row' = [row EXCEPT ![o] = s] /\ s \in {row[o], work[o].outcome}
                              /\ (row[o] = "deleted" => s = "deleted")
    BY <1>11 DEF FinishFails
  <2>2. PICK answer \in {"made_unlogged", "refused", "unconfirmed", "outcome_unlogged"} :
          /\ told' = [told EXCEPT ![o] = answer]
          /\ answer = "made_unlogged" => work[o].outcome = "succeeded"
          /\ answer = "refused" => work[o].outcome = "failed"
    BY <1>11 DEF FinishFails, Unlogged, Answer
  <2>3. /\ work[o].at = "finish" /\ work' = [work EXCEPT ![o].at = "done"]
        /\ UNCHANGED <<conn, made, inAir>>
    BY <1>11 DEF FinishFails
  <2> QED
    BY <2>1, <2>2, <2>3
<1> QED
  BY <1>1, <1>2, <1>3, <1>4, <1>5, <1>6, <1>7, <1>8, <1>9, <1>10, <1>11 DEF Handle

\* What others do: a late write arrives, rows are cleared, the process restarts.
LEMMA OtherInv ==
  ASSUME IInv,
         \/ \E o \in Ops : Arrive(o)
         \/ ClearDNS \/ ClearLog \/ ClearFails \/ DeleteConnection \/ Crash
  PROVE  IInv'
<1> USE OperationConstants
    DEF IInv, TypeOK, Statuses, Work, Outcomes, WaitInv, SentInv, RowInv, LearntInv,
        ToldTrue, WriteAhead, LogIsTrue, AnswerIsTrue, At, provider
<1>1. ASSUME NEW o \in Ops, Arrive(o) PROVE IInv'
  BY <1>1 DEF Arrive
<1>2. CASE ClearDNS
  BY <1>2 DEF ClearDNS, Erase
<1>3. CASE ClearLog
  BY <1>3 DEF ClearLog, Erase
<1>4. CASE ClearFails
  BY <1>4 DEF ClearFails
<1>5. CASE DeleteConnection
  BY <1>5 DEF DeleteConnection
<1>6. CASE Crash
  BY <1>6 DEF Crash, NoWork
<1> QED
  BY <1>1, <1>2, <1>3, <1>4, <1>5, <1>6

LEMMA StutterInv == IInv /\ UNCHANGED vars => IInv'
BY DEF vars, IInv, TypeOK, WaitInv, SentInv, RowInv, LearntInv, ToldTrue, WriteAhead, LogIsTrue,
       AnswerIsTrue

LEMMA NextInv == IInv /\ [Next]_vars => IInv'
BY HandleInv, OtherInv, StutterInv DEF Next

\* The invariant that the theorems below follow from.
THEOREM Inductive == Spec => []IInv
BY InitInv, NextInv, PTL DEF Spec

\* Every variable has its type; that bounds how often a write is sent again.
THEOREM TypeCorrect == Spec => []TypeOK
BY Inductive, PTL DEF IInv

\* Whatever is throttled, lost or interrupted, no change is made twice: only a
\* write that was surely refused is sent again.
THEOREM MadeOnce == Spec => []NeverTwice
<1>1. IInv => NeverTwice
  <2> SUFFICES ASSUME IInv, NEW o \in Ops
               PROVE  made[o] + Cardinality(inAir \cap {o}) <= 1
    BY DEF NeverTwice
  <2>1. CASE o \in inAir
    <3>1. inAir \cap {o} = {o}
      BY <2>1
    <3>2. Cardinality({o}) = 1
      BY FS_Singleton
    <3>3. made[o] = 0
      BY <2>1 DEF IInv, SentInv
    <3> QED BY <3>1, <3>2, <3>3
  <2>2. CASE o \notin inAir
    <3>1. inAir \cap {o} = {}
      BY <2>2
    <3>2. Cardinality({}) = 0
      BY FS_EmptySet
    <3>3. made[o] \in {0, 1}
      BY DEF IInv, SentInv
    <3> QED BY <3>1, <3>2, <3>3
  <2> QED BY <2>1, <2>2
<1> QED BY <1>1, Inductive, PTL

\* The log and the answers say no more than what is known to have happened,
\* and nothing is changed without an entry of the log.
THEOREM LogAndAnswersTrue == Spec => []ToldTrue
BY Inductive, PTL DEF IInv

-----------------------------------------------------------------------------
(* Email Routing *)

\* Whoever is past its lock holds it.
EmailLockInv ==
  \A q \in Requests :
    request[q].at \in {"locked", "checking", "sending"} => emailHolder[Email!Key(q)] = q

\* What is asked for, from the opening of the request until its last write.
AskInv ==
  \A q \in Requests :
    /\ request[q].at \in {"opened", "locked", "checking", "sending"} \/ q \in late =>
         /\ request[q].kind # "create_address" => request[q].zone \in Zones
         /\ request[q].kind \in {"create_address", "delete_address"} =>
              request[q].rule.to \in Dests
    /\ q \in late => request[q].at = "done"
    /\ request[q].at = "checking" /\ request[q].kind # "delete_address" =>
         request[q].rule.to \in Dests

\* As many writes were given up as may arrive.
LateInv == IsFiniteSet(late) /\ Cardinality(late) + arrived <= MaxLate

Ruling == {"create_rule", "update_rule"}

\* What a handler has looked up still holds when it changes something.
NotTaken(q) ==
  request[q].at \in {"checking", "sending"} /\ request[q].kind \in Ruling => ~Email!Taken(q)

IsVerified(d, z) == dest[d].state = "verified" \/ \E y \in Zones \ {z} : <<d, y>> \in removed

Checked(q) ==
  /\ request[q].at = "sending"
  /\ request[q].kind \in Ruling \cup {"set_catch_all"}
  /\ Email!NeedsCheck(request[q].rule)
  => IsVerified(request[q].rule.to, request[q].zone)

Unused(q) ==
  request[q].kind = "delete_address" =>
    /\ request[q].at \in {"checking", "sending"} =>
         ~Email!RuleUses(request[q].zone, request[q].rule.to)
    /\ request[q].at = "sending" => catchAll[request[q].zone].to # request[q].rule.to

LookupInv == arrived = 0 => \A q \in Requests : NotTaken(q) /\ Checked(q) /\ Unused(q)

EmailInv ==
  Email!TypeOK /\ EmailLockInv /\ AskInv /\ LateInv /\ LookupInv /\ RulesHold

\* The instances count as this module does.
LEMMA SameCount ==
  ASSUME NEW S
  PROVE  /\ Email!Cardinality(S) = Cardinality(S)
         /\ Zone!Cardinality(S) = Cardinality(S)
         /\ Tunnel!Cardinality(S) = Cardinality(S)
         /\ Tunnel!IsFiniteSet(S) <=> IsFiniteSet(S)
<1>1. Email!Cardinality(S) = Cardinality(S) /\ Zone!Cardinality(S) = Cardinality(S)
  BY Zenon DEF Email!Cardinality, Zone!Cardinality, Cardinality
<1>2. Tunnel!Cardinality(S) = Cardinality(S)
  BY Zenon DEF Tunnel!Cardinality, Cardinality
<1>3. Tunnel!IsFiniteSet(S) <=> IsFiniteSet(S)
  BY Zenon DEF Tunnel!IsFiniteSet, IsFiniteSet
<1> QED BY <1>1, <1>2, <1>3

\* A Zone as it is found.
LEMMA EmailInit == Email!Init => EmailInv
<1> SUFFICES ASSUME Email!Init PROVE EmailInv
  OBVIOUS
<1> USE AccountConstants DEF Email!EmailConstants, Email!Init, Email!Idle, Email!NoRule, Email!Rule,
      Email!Drop, Email!Off, Email!NoDest, Email!Dest
<1>1. Email!TypeOK
  BY DEF Email!TypeOK, Email!Asked, Email!RoutingRules, Email!Targets, Email!Kinds
<1>2. EmailLockInv /\ AskInv
  BY DEF EmailLockInv, AskInv
<1>3. LateInv
  BY FS_EmptySet DEF LateInv
<1>4. LookupInv
  BY DEF LookupInv, NotTaken, Checked, Unused
<1>5. RulesHold
  BY DEF RulesHold, Email!RulesHold, Email!OneRulePerAddress, Email!ForwardsVerified, Email!Made,
         Email!Live
<1> QED BY <1>1, <1>2, <1>3, <1>4, <1>5 DEF EmailInv

Stages == {"idle", "opened", "locked", "checking", "sending", "done", "refused"}

\* What request q asks for is still what it was.
SameAsk(q) ==
  /\ request'[q].kind = request[q].kind /\ request'[q].zone = request[q].zone
  /\ request'[q].id = request[q].id /\ request'[q].made = request[q].made
  /\ request'[q].rule = request[q].rule

OthersStay(q) ==
  /\ request' \in [Requests -> Email!Asked]
  /\ \A p \in Requests \ {q} : request'[p] = request[p]

\* A request is over, and its lock is free.
Over(q) ==
  /\ request'[q].at \in {"done", "refused"}
  /\ request'[q].kind = "delete_rule"
  /\ emailHolder' = [emailHolder EXCEPT ![Email!Key(q)] = "nobody"]

\* A handler that goes on keeps what it is asked.
LEMMA GoesOn ==
  ASSUME Email!TypeOK, NEW q \in Requests, NEW at \in Stages, Email!Goes(q, at)
  PROVE  OthersStay(q) /\ SameAsk(q) /\ request'[q].at = at
<1>1. request' = [request EXCEPT ![q] = [request[q] EXCEPT !.at = at]]
  BY DEF Email!Goes
<1>2. request \in [Requests -> Email!Asked] /\ request[q] \in Email!Asked
  BY DEF Email!TypeOK
<1>3. [request[q] EXCEPT !.at = at] \in Email!Asked
  BY <1>2 DEF Email!Asked, Stages
<1>4. OthersStay(q)
  BY <1>1, <1>2, <1>3 DEF OthersStay
<1>5. request'[q] = [request[q] EXCEPT !.at = at]
  BY <1>1, <1>2
<1>6. SameAsk(q) /\ request'[q].at = at
  BY <1>2, <1>5 DEF SameAsk, Email!Asked
<1> QED BY <1>4, <1>6

\* A handler that ends forgets what it was asked.
LEMMA EndsThere ==
  ASSUME Email!TypeOK, NEW q \in Requests, NEW at \in {"done", "refused"}, Email!Ends(q, at)
  PROVE  OthersStay(q) /\ Over(q)
<1>1. request' = [request EXCEPT ![q] = [Email!Idle EXCEPT !.at = at]]
  BY DEF Email!Ends
<1>2. request \in [Requests -> Email!Asked]
  BY DEF Email!TypeOK
<1>3. [Email!Idle EXCEPT !.at = at] \in Email!Asked
  BY DEF Email!Asked, Email!Idle, Email!NoRule, Email!Rule, Email!RoutingRules, Email!Targets,
         Email!Drop, Email!Kinds
<1>4. OthersStay(q)
  BY <1>1, <1>2, <1>3 DEF OthersStay
<1>5. request'[q] = [Email!Idle EXCEPT !.at = at]
  BY <1>1, <1>2
<1> QED BY <1>4, <1>5 DEF Over, Email!Ends, Email!Unlock, Email!Idle

RulesStay == UNCHANGED <<rules, catchAll, dest, removed, arrived>>

Opens(q) ==
  /\ request[q].at = "idle" /\ request'[q].at = "opened"
  /\ request'[q].kind # "create_address" => request'[q].zone \in Zones
  /\ request'[q].kind \in {"create_address", "delete_address"} => request'[q].rule.to \in Dests
  /\ UNCHANGED <<emailHolder, late>>

Locks(q) ==
  /\ request[q].at = "opened" /\ request'[q].at = "locked" /\ SameAsk(q)
  /\ emailHolder[Email!Key(q)] = "nobody"
  /\ emailHolder' = [emailHolder EXCEPT ![Email!Key(q)] = q]
  /\ UNCHANGED late

\* A handler goes on with what it has looked up.
Looks(q) ==
  LET ask == request'[q] IN
  /\ request[q].at \in {"locked", "checking"} /\ ask.at \in {"checking", "sending"}
  /\ ask.kind = request[q].kind /\ ask.zone = request[q].zone /\ ask.id = request[q].id
  /\ ask.kind # "set_catch_all" => ask.rule = request[q].rule
  /\ ask.kind \in Ruling /\ request[q].at = "locked" => ~Email!Taken(q)
  /\ ask.at = "sending" /\ ask.kind \in Ruling \cup {"set_catch_all"} /\ Email!NeedsCheck(ask.rule) =>
       dest[ask.rule.to].state = "verified"
  /\ ask.kind = "delete_address" /\ request[q].at = "locked" =>
       ~Email!RuleUses(ask.zone, ask.rule.to)
  /\ ask.kind = "delete_address" /\ ask.at = "sending" =>
       request[q].at = "checking" /\ catchAll[ask.zone].to # ask.rule.to
  /\ ask.at = "checking" /\ ask.kind # "delete_address" => ask.rule.to \in Dests
  /\ UNCHANGED <<emailHolder, late>>

Stops(q) ==
  request[q].at \in {"locked", "checking", "sending"} /\ Over(q) /\ UNCHANGED late

GivesUp(q) ==
  /\ request[q].at = "sending" /\ request'[q].at = "done" /\ SameAsk(q)
  /\ emailHolder' = [emailHolder EXCEPT ![Email!Key(q)] = "nobody"]
  /\ Cardinality(late) + arrived < MaxLate
  /\ late' = late \cup {q}

\* The steps that change nothing at Cloudflare.
Handles(q) ==
  OthersStay(q) /\ RulesStay /\ (Opens(q) \/ Locks(q) \/ Looks(q) \/ Stops(q) \/ GivesUp(q))

\* Each action of a handler that changes no rule: how the request moves on.
LEMMA OpenHandles ==
  ASSUME Email!TypeOK, NEW q \in Requests, Email!Open(q) PROVE Handles(q)
<1>1. PICK kind \in Email!Kinds, z \in Zones \cup {"none"}, i \in Requests,
           a \in Addresses \cup {"none"}, on \in BOOLEAN, to \in Email!Targets :
        /\ kind = "create_address" <=> z = "none"
        /\ kind \in {"create_rule", "update_rule"} <=> a # "none"
        /\ kind \in {"create_rule", "set_catch_all"} => i = q
        /\ kind \in {"update_rule", "delete_rule"} => i \in Email!Made(z)
        /\ kind \in {"create_address", "delete_address"} => to # Email!Drop /\ on /\ i = q
        /\ kind = "delete_address" => dest[to].state # "none"
        /\ kind = "delete_rule" => ~on /\ to = Email!Drop
        /\ request' = [request EXCEPT ![q] =
             [at |-> "opened", kind |-> kind, zone |-> z, id |-> i,
              rule |-> Email!Rule(a, on, to),
              made |-> IF to \in Dests THEN dest[to].made ELSE 0]]
  BY Zenon DEF Email!Open
<1> DEFINE r == [at |-> "opened", kind |-> kind, zone |-> z, id |-> i,
                 rule |-> Email!Rule(a, on, to),
                 made |-> IF to \in Dests THEN dest[to].made ELSE 0]
<1>2. (IF to \in Dests THEN dest[to].made ELSE 0) \in Nat
  BY DEF Email!TypeOK
<1>3. Email!Rule(a, on, to) \in Email!RoutingRules
  BY DEF Email!Rule, Email!RoutingRules
<1>4. r \in Email!Asked
  BY <1>2, <1>3 DEF Email!Asked
<1>5. request \in [Requests -> Email!Asked]
  BY DEF Email!TypeOK
<1>6. request' = [request EXCEPT ![q] = r]
  BY <1>1
<1>7. request'[q] = r /\ OthersStay(q)
  BY <1>4, <1>5, <1>6 DEF OthersStay
<1>8. request[q].at = "idle" /\ UNCHANGED <<emailHolder, late>> /\ RulesStay
  BY DEF Email!Open, Email!At, Email!cloudflare, Email!history, RulesStay
<1>9. /\ r.at = "opened" /\ r.kind = kind /\ r.zone = z /\ r.rule.to = to
  BY DEF Email!Rule
<1>10. /\ kind # "create_address" => z \in Zones
       /\ kind \in {"create_address", "delete_address"} => to \in Dests
  BY <1>1 DEF Email!Targets
<1> QED BY <1>7, <1>8, <1>9, <1>10 DEF Handles, Opens

LEMMA LockHandles ==
  ASSUME Email!TypeOK, NEW q \in Requests, Email!Lock(q) PROVE Handles(q)
<1>1. OthersStay(q) /\ SameAsk(q) /\ request'[q].at = "locked"
  BY GoesOn DEF Email!Lock, Stages
<1> QED BY <1>1 DEF Handles, Locks, RulesStay, Email!Lock, Email!At, Email!cloudflare, Email!history

\* Where a request stands that ends.
LEMMA EndHandles ==
  ASSUME Email!TypeOK, NEW q \in Requests, NEW at \in {"done", "refused"}, Email!Ends(q, at),
         request[q].at \in {"locked", "checking", "sending"},
         UNCHANGED <<Email!cloudflare, Email!history>>
  PROVE  Handles(q)
<1>1. OthersStay(q) /\ Over(q)
  BY EndsThere
<1> QED BY <1>1 DEF Handles, Stops, RulesStay, Email!cloudflare, Email!history

\* Where a request goes on.
LEMMA GoHandles ==
  ASSUME Email!TypeOK, NEW q \in Requests, NEW at \in {"checking", "sending"}, Email!Goes(q, at),
         request[q].at \in {"locked", "checking"}, UNCHANGED emailHolder,
         UNCHANGED <<Email!cloudflare, Email!history>>,
         request[q].kind \in Ruling /\ request[q].at = "locked" => ~Email!Taken(q),
         at = "sending" /\ request[q].kind \in Ruling \cup {"set_catch_all"} /\ Email!NeedsCheck(request[q].rule) =>
           dest[request[q].rule.to].state = "verified",
         request[q].kind = "delete_address" /\ request[q].at = "locked" =>
           ~Email!RuleUses(request[q].zone, request[q].rule.to),
         request[q].kind = "delete_address" /\ at = "sending" =>
           request[q].at = "checking" /\ catchAll[request[q].zone].to # request[q].rule.to,
         at = "checking" /\ request[q].kind # "delete_address" => request[q].rule.to \in Dests
  PROVE  Handles(q)
<1>1. OthersStay(q) /\ SameAsk(q) /\ request'[q].at = at
  BY GoesOn DEF Stages
<1>2. Looks(q)
  BY <1>1 DEF Looks, SameAsk, Email!cloudflare
<1> QED BY <1>1, <1>2 DEF Handles, RulesStay, Email!cloudflare, Email!history

\* What a rule that needs a check forwards to.
LEMMA CheckedForwards ==
  ASSUME NEW r \in Email!RoutingRules, Email!NeedsCheck(r) PROVE r.to \in Dests
BY DEF Email!RoutingRules, Email!NeedsCheck, Email!Forwards, Email!Targets

LEMMA AskTypes ==
  ASSUME Email!TypeOK, NEW q \in Requests
  PROVE  request[q] \in Email!Asked /\ request[q].rule \in Email!RoutingRules
BY DEF Email!TypeOK, Email!Asked

LEMMA ReadRulesHandles ==
  ASSUME Email!TypeOK, NEW q \in Requests, Email!ReadRules(q) PROVE Handles(q)
<1>1. /\ request[q].at = "locked" /\ UNCHANGED <<Email!cloudflare, Email!history>>
      /\ request[q].kind \in {"create_rule", "update_rule", "delete_rule"}
  BY DEF Email!ReadRules, Email!At
<1>2. \/ Email!Ends(q, "done") \/ Email!Ends(q, "refused")
      \/ request[q].kind \in Ruling /\ ~Email!Taken(q) /\ Email!CheckNext(q) /\ UNCHANGED emailHolder
      \/ request[q].kind = "delete_rule" /\ Email!Goes(q, "sending") /\ UNCHANGED emailHolder
  BY DEF Email!ReadRules, Ruling
<1>3. CASE Email!Ends(q, "done") \/ Email!Ends(q, "refused")
  BY <1>1, <1>3, EndHandles
<1>4. CASE request[q].kind = "delete_rule" /\ Email!Goes(q, "sending") /\ UNCHANGED emailHolder
  BY <1>1, <1>4, GoHandles DEF Ruling
<1>5. CASE request[q].kind \in Ruling /\ ~Email!Taken(q) /\ Email!CheckNext(q) /\ UNCHANGED emailHolder
  <2>1. CASE Email!NeedsCheck(request[q].rule)
    <3>1. Email!Goes(q, "checking")
      BY <1>5, <2>1 DEF Email!CheckNext, Email!In
    <3>2. request[q].rule.to \in Dests
      BY <2>1, AskTypes, CheckedForwards
    <3> QED BY <1>1, <1>5, <3>1, <3>2, GoHandles DEF Ruling
  <2>2. CASE ~Email!NeedsCheck(request[q].rule)
    <3>1. Email!Goes(q, "sending")
      BY <1>5, <2>2 DEF Email!CheckNext, Email!In
    <3> QED BY <1>1, <1>5, <2>2, <3>1, GoHandles DEF Ruling
  <2> QED BY <2>1, <2>2
<1> QED BY <1>2, <1>3, <1>4, <1>5

LEMMA ReadCatchAllHandles ==
  ASSUME Email!TypeOK, AskInv, NEW q \in Requests, Email!ReadCatchAll(q) PROVE Handles(q)
<1> DEFINE n == Email!NextCatchAll(q)
           r == Email!Rule("none", n.on, n.to)
<1>1. /\ request[q].at = "locked" /\ UNCHANGED <<Email!cloudflare, Email!history>>
      /\ request[q].kind = "set_catch_all"
  BY DEF Email!ReadCatchAll, Email!At
<1>2. CASE Email!Ends(q, "done")
  BY <1>1, <1>2, EndHandles
<1>3. CASE ~Email!Ends(q, "done")
  <2>1. /\ UNCHANGED emailHolder
        /\ request' = [request EXCEPT ![q].at = IF Email!NeedsCheck(n) THEN "checking" ELSE "sending",
                                      ![q].rule = r]
    BY <1>3 DEF Email!ReadCatchAll
  <2>2. n.on \in BOOLEAN /\ n.to \in Email!Targets
    <3>1. request[q].zone \in Zones
      BY <1>1 DEF AskInv
    <3>2. catchAll[request[q].zone] \in [on : BOOLEAN, to : Email!Targets]
      BY <3>1 DEF Email!TypeOK
    <3> QED BY <3>2, AskTypes DEF Email!NextCatchAll, Email!In, Email!Zone, Email!RoutingRules
  <2>3. r \in Email!RoutingRules /\ r.on = n.on /\ r.to = n.to
    BY <2>2 DEF Email!Rule, Email!RoutingRules
  <2>4. Email!NeedsCheck(n) <=> Email!NeedsCheck(r)
    BY <2>3 DEF Email!NeedsCheck, Email!Forwards
  <2> DEFINE at == IF Email!NeedsCheck(r) THEN "checking" ELSE "sending"
             s == [request[q] EXCEPT !.at = at, !.rule = r]
  <2>5. request[q] \in Email!Asked
    BY AskTypes
  <2>6. request' = [request EXCEPT ![q] = s]
    BY <2>1, <2>4, <2>5 DEF Email!TypeOK
  <2>7. s \in Email!Asked /\ s.at = at /\ s.rule = r /\ s.kind = request[q].kind
        /\ s.zone = request[q].zone /\ s.id = request[q].id
    BY <2>3, <2>5 DEF Email!Asked
  <2> HIDE DEF s, r, n
  <2>8. OthersStay(q) /\ request'[q] = s
    BY <2>6, <2>7 DEF OthersStay, Email!TypeOK
  <2>9. at = "checking" => s.rule.to \in Dests
    BY <2>3, <2>7, CheckedForwards
  <2>10. Looks(q)
    BY <1>1, <2>1, <2>7, <2>8, <2>9 DEF Looks, Ruling, Email!cloudflare
  <2> QED BY <1>1, <2>8, <2>10 DEF Handles, RulesStay, Email!cloudflare, Email!history
<1> QED BY <1>2, <1>3

LEMMA RequireVerifiedHandles ==
  ASSUME Email!TypeOK, NEW q \in Requests, Email!RequireVerified(q) PROVE Handles(q)
<1>1. /\ request[q].at = "checking" /\ UNCHANGED <<Email!cloudflare, Email!history>>
      /\ request[q].kind # "delete_address"
  BY DEF Email!RequireVerified, Email!At
<1>2. CASE dest[request[q].rule.to].state = "verified"
  BY <1>1, <1>2, GoHandles DEF Email!RequireVerified, Email!In
<1>3. CASE dest[request[q].rule.to].state # "verified"
  BY <1>1, <1>3, EndHandles DEF Email!RequireVerified, Email!In
<1> QED BY <1>2, <1>3

LEMMA ReadAddressHandles ==
  ASSUME Email!TypeOK, NEW q \in Requests,
         Email!ReadAddresses(q) \/ Email!ReadUsers(q) \/ Email!ReadCatchAllUser(q)
  PROVE  Handles(q)
<1>1. CASE Email!ReadAddresses(q)
  <2>1. /\ request[q].at = "locked" /\ UNCHANGED <<Email!cloudflare, Email!history>>
        /\ request[q].kind = "create_address"
        /\ \/ Email!Ends(q, "done")
           \/ Email!Goes(q, "sending") /\ UNCHANGED emailHolder
    BY <1>1 DEF Email!ReadAddresses, Email!At
  <2> QED BY <2>1, GoHandles, EndHandles DEF Ruling
<1>2. CASE Email!ReadUsers(q)
  <2>1. /\ request[q].at = "locked" /\ UNCHANGED <<Email!cloudflare, Email!history>>
        /\ request[q].kind = "delete_address"
        /\ \/ Email!Ends(q, "refused")
           \/ Email!Goes(q, "checking") /\ UNCHANGED emailHolder
              /\ ~Email!RuleUses(request[q].zone, request[q].rule.to)
    BY <1>2 DEF Email!ReadUsers, Email!At, Email!In, Email!Zone
  <2> QED BY <2>1, GoHandles, EndHandles DEF Ruling
<1>3. CASE Email!ReadCatchAllUser(q)
  <2>1. /\ request[q].at = "checking" /\ UNCHANGED <<Email!cloudflare, Email!history>>
        /\ request[q].kind = "delete_address"
        /\ \/ Email!Ends(q, "refused")
           \/ Email!Goes(q, "sending") /\ UNCHANGED emailHolder
              /\ catchAll[request[q].zone].to # request[q].rule.to
    BY <1>3 DEF Email!ReadCatchAllUser, Email!At, Email!In, Email!Zone
  <2> QED BY <2>1, GoHandles, EndHandles DEF Ruling
<1> QED BY <1>1, <1>2, <1>3

LEMMA LastHandles ==
  ASSUME Email!TypeOK, NEW q \in Requests, Email!Fail(q) \/ Email!GiveUp(q)
  PROVE  Handles(q)
<1>1. CASE Email!Fail(q)
  BY <1>1, EndHandles DEF Email!Fail
<1>2. CASE Email!GiveUp(q)
  <2>1. OthersStay(q) /\ SameAsk(q) /\ request'[q].at = "done"
    BY <1>2, GoesOn DEF Email!GiveUp, Stages
  <2>2. GivesUp(q)
    <3>1. Email!Cardinality(late) = Cardinality(late)
      BY SameCount
    <3> QED BY <1>2, <2>1, <3>1 DEF GivesUp, Email!GiveUp, Email!At, Email!Unlock
  <2>3. RulesStay
    BY <1>2 DEF RulesStay, Email!GiveUp, Email!history
  <2> QED BY <2>1, <2>2, <2>3 DEF Handles
<1> QED BY <1>1, <1>2

-----------------------------------------------------------------------------
(* Steps that change something at Cloudflare *)

\* What the change of a request does to the rules and the addresses.
Changes(q) ==
  LET ask == request[q] IN
  \/ /\ ask.kind \in Ruling
     /\ rules' = [rules EXCEPT ![ask.zone] = [@ EXCEPT ![ask.id] = ask.rule]]
     /\ UNCHANGED <<catchAll, dest, removed>>
  \/ /\ ask.kind = "delete_rule"
     /\ rules' = [rules EXCEPT ![ask.zone] = [@ EXCEPT ![ask.id] = Email!NoRule]]
     /\ UNCHANGED <<catchAll, dest, removed>>
  \/ /\ ask.kind = "set_catch_all"
     /\ catchAll' = [catchAll EXCEPT ![ask.zone] = [on |-> ask.rule.on, to |-> ask.rule.to]]
     /\ UNCHANGED <<rules, dest, removed>>
  \/ /\ ask.kind = "create_address" /\ dest[ask.rule.to].state = "none"
     /\ dest' = [dest EXCEPT ![ask.rule.to] =
          [state |-> "unverified", made |-> dest[ask.rule.to].made + 1]]
     /\ UNCHANGED <<rules, catchAll, removed>>
  \/ /\ ask.kind = "delete_address"
     /\ dest' = [dest EXCEPT ![ask.rule.to] = [state |-> "none", made |-> dest[ask.rule.to].made]]
     /\ removed' = removed \cup {<<ask.rule.to, ask.zone>>}
     /\ UNCHANGED <<rules, catchAll>>

\* The change itself, answered or given up: what it writes.
LEMMA ChangeChanges ==
  ASSUME Email!TypeOK, AskInv, NEW q \in Requests, Email!Change(q),
         request[q].at = "sending" \/ q \in late
  PROVE  Changes(q)
<1> USE DEF Changes, Email!Change, Email!Zone, Email!In, Ruling
<1>1. request[q].kind \in Email!Kinds /\ request[q].rule.to \in Email!Targets
  BY AskTypes DEF Email!Asked, Email!RoutingRules
<1>2. CASE request[q].kind \in Ruling
  BY <1>2
<1>3. CASE request[q].kind = "delete_rule"
  BY <1>3
<1>4. CASE request[q].kind = "set_catch_all"
  BY <1>4
<1>5. request[q].kind \in {"create_address", "delete_address"} => request[q].rule.to \in Dests
  BY DEF AskInv
<1>6. \A d \in Dests : dest[d] \in [state : {"none", "unverified", "verified"}, made : Nat]
  BY DEF Email!TypeOK
<1>7. CASE request[q].kind = "create_address"
  BY <1>5, <1>6, <1>7 DEF Email!Dest, Email!TypeOK
<1>8. CASE request[q].kind = "delete_address"
  <2>1. dest' = [dest EXCEPT ![request[q].rule.to].state = "none"]
    BY <1>8
  <2>2. [dest[request[q].rule.to] EXCEPT !.state = "none"]
          = [state |-> "none", made |-> dest[request[q].rule.to].made]
    BY <1>5, <1>6, <1>8
  <2>3. dest' = [dest EXCEPT ![request[q].rule.to] = [state |-> "none", made |-> dest[request[q].rule.to].made]]
    BY <2>1, <2>2
  <2> QED BY <1>8, <2>3
<1> QED BY <1>1, <1>2, <1>3, <1>4, <1>7, <1>8 DEF Email!Kinds

\* Of the three kinds of step, each request's and the rest's.
Sends(q) ==
  /\ request[q].at = "sending" /\ Changes(q)
  /\ OthersStay(q) /\ Over(q) /\ UNCHANGED <<late, arrived>>

Arrives(q) ==
  /\ q \in late /\ Changes(q)
  /\ late' = late \ {q} /\ arrived' = arrived + 1 /\ UNCHANGED <<request, emailHolder>>

Verifies(d) ==
  /\ dest' = [dest EXCEPT ![d] = [state |-> "verified", made |-> dest[d].made]]
  /\ UNCHANGED <<rules, catchAll, late, request, emailHolder, arrived, removed>>

\* Each step of Email Routing is one of the kinds above.
LEMMA EmailSteps ==
  ASSUME Email!TypeOK, AskInv, [Email!Next]_emailVars
  PROVE  \/ \E q \in Requests : Handles(q) \/ Sends(q) \/ Arrives(q)
         \/ \E d \in Dests : Verifies(d)
         \/ UNCHANGED emailVars
<1>1. ASSUME NEW q \in Requests, Email!Open(q) \/ Email!Handle(q), ~Email!Send(q) PROVE Handles(q)
  BY <1>1, OpenHandles, LockHandles, ReadRulesHandles, ReadCatchAllHandles, RequireVerifiedHandles,
     ReadAddressHandles, LastHandles DEF Email!Handle
<1>2. ASSUME NEW q \in Requests, Email!Send(q) PROVE Sends(q)
  <2>1. request[q].at = "sending" /\ Changes(q)
    BY <1>2, ChangeChanges DEF Email!Send, Email!At
  <2>2. OthersStay(q) /\ Over(q)
    BY <1>2, EndsThere DEF Email!Send
  <2> QED BY <1>2, <2>1, <2>2 DEF Sends, Email!Send
<1>3. ASSUME NEW q \in Requests, Email!Arrive(q) PROVE Arrives(q)
  BY <1>3, ChangeChanges DEF Email!Arrive, Arrives
<1>4. ASSUME NEW d \in Dests, Email!Verify(d) PROVE Verifies(d)
  <2>1. dest[d] \in [state : {"none", "unverified", "verified"}, made : Nat]
    BY DEF Email!TypeOK
  <2>2. [dest[d] EXCEPT !.state = "verified"] = [state |-> "verified", made |-> dest[d].made]
    BY <2>1
  <2> QED BY <1>4, <2>2 DEF Email!Verify, Verifies, Email!history
<1> QED BY <1>1, <1>2, <1>3, <1>4 DEF Email!Next

-----------------------------------------------------------------------------
(* What the steps preserve *)

\* What a change writes has its type.
LEMMA ChangesTypes ==
  ASSUME Email!TypeOK, AskInv, NEW q \in Requests, Changes(q),
         request[q].at = "sending" \/ q \in late
  PROVE  /\ rules' \in [Zones -> [Requests -> Email!RoutingRules]]
         /\ catchAll' \in [Zones -> [on : BOOLEAN, to : Email!Targets]]
         /\ dest' \in [Dests -> [state : {"none", "unverified", "verified"}, made : Nat]]
         /\ removed' \subseteq Dests \X Zones
<1>1. /\ rules \in [Zones -> [Requests -> Email!RoutingRules]]
      /\ catchAll \in [Zones -> [on : BOOLEAN, to : Email!Targets]]
      /\ dest \in [Dests -> [state : {"none", "unverified", "verified"}, made : Nat]]
      /\ removed \subseteq Dests \X Zones
  BY DEF Email!TypeOK
<1>2. request[q].rule \in Email!RoutingRules /\ Email!NoRule \in Email!RoutingRules
  BY AskTypes DEF Email!NoRule, Email!Rule, Email!RoutingRules, Email!Targets, Email!Drop
<1>3. request[q].rule.on \in BOOLEAN /\ request[q].rule.to \in Email!Targets
  BY <1>2 DEF Email!RoutingRules
<1>4. ASSUME NEW r \in Email!RoutingRules, NEW z, NEW i,
             rules' = [rules EXCEPT ![z] = [@ EXCEPT ![i] = r]]
      PROVE  rules' \in [Zones -> [Requests -> Email!RoutingRules]]
  BY <1>1, <1>4
<1>5. CASE \E r \in Email!RoutingRules : \E z, i : rules' = [rules EXCEPT ![z] = [@ EXCEPT ![i] = r]]
           /\ UNCHANGED <<catchAll, dest, removed>>
  BY <1>1, <1>4, <1>5
<1>6. CASE catchAll' = [catchAll EXCEPT ![request[q].zone] =
                          [on |-> request[q].rule.on, to |-> request[q].rule.to]]
           /\ UNCHANGED <<rules, dest, removed>>
  BY <1>1, <1>3, <1>6
<1>7. CASE \E d \in Dests, n \in Nat : dest' = [dest EXCEPT ![d] = [state |-> "unverified", made |-> n]]
           /\ UNCHANGED <<rules, catchAll, removed>>
  BY <1>1, <1>7
<1>8. CASE \E d \in Dests, n \in Nat, z \in Zones :
             dest' = [dest EXCEPT ![d] = [state |-> "none", made |-> n]]
             /\ removed' = removed \cup {<<d, z>>} /\ UNCHANGED <<rules, catchAll>>
  BY <1>1, <1>8
<1>9. request[q].kind \in {"create_address", "delete_address"} =>
        /\ request[q].rule.to \in Dests /\ dest[request[q].rule.to].made \in Nat
        /\ request[q].kind = "delete_address" => request[q].zone \in Zones
  BY <1>1 DEF AskInv
<1>10. dest[request[q].rule.to].made \in Nat => dest[request[q].rule.to].made + 1 \in Nat
  OBVIOUS
<1> QED BY <1>2, <1>5, <1>6, <1>7, <1>8, <1>9, <1>10 DEF Changes

\* Each kind of step keeps each part of the invariant.
LEMMA EmailTypes ==
  ASSUME Email!TypeOK, AskInv, LateInv, [Email!Next]_emailVars
  PROVE  Email!TypeOK'
<1> USE AccountConstants DEF Email!EmailConstants
<1>0. \A q \in Requests : Email!Key(q) \in Zones \cup {"addresses", "none"}
  BY AskTypes DEF Email!Key, Email!Zone, Email!Asked
<1>1. ASSUME NEW q \in Requests, Handles(q) PROVE Email!TypeOK'
  <2>1. request' \in [Requests -> Email!Asked] /\ RulesStay
    BY <1>1 DEF Handles, OthersStay
  <2>2. emailHolder' \in [Zones \cup {"addresses"} -> Requests \cup {"nobody"}]
    BY <1>1 DEF Handles, Opens, Locks, Looks, Stops, GivesUp, Over, Email!TypeOK
  <2>3. late' \subseteq Requests
    BY <1>1 DEF Handles, Opens, Locks, Looks, Stops, GivesUp, Over, Email!TypeOK
  <2> QED BY <2>1, <2>2, <2>3 DEF RulesStay, Email!TypeOK
<1>2. ASSUME NEW q \in Requests, Sends(q) PROVE Email!TypeOK'
  <2>1. request' \in [Requests -> Email!Asked] /\ UNCHANGED <<late, arrived>>
    BY <1>2 DEF Sends, OthersStay
  <2>2. emailHolder' \in [Zones \cup {"addresses"} -> Requests \cup {"nobody"}]
    BY <1>2 DEF Sends, Over, Email!TypeOK
  <2>3. Changes(q) /\ request[q].at = "sending"
    BY <1>2 DEF Sends
  <2> QED BY <2>1, <2>2, <2>3, ChangesTypes DEF Email!TypeOK
<1>3. ASSUME NEW q \in Requests, Arrives(q) PROVE Email!TypeOK'
  <2>1. Changes(q) /\ q \in late /\ UNCHANGED <<request, emailHolder>> /\ late' \subseteq late
    BY <1>3 DEF Arrives
  <2>2. arrived' \in 0..MaxLate
    <3>1. Cardinality(late) \in Nat \ {0}
      BY <2>1, FS_CardinalityType, FS_EmptySet DEF LateInv
    <3>2. arrived \in Nat /\ MaxLate \in Nat /\ Cardinality(late) + arrived <= MaxLate
      BY DEF LateInv, Email!TypeOK
    <3>3. arrived' = arrived + 1
      BY <1>3 DEF Arrives
    <3>4. \A n \in Nat \ {0} : n + arrived <= MaxLate => arrived + 1 \in 0..MaxLate
      BY <3>2
    <3> QED BY <3>1, <3>2, <3>3, <3>4
  <2> QED BY <2>1, <2>2, ChangesTypes DEF Email!TypeOK
<1>4. ASSUME NEW d \in Dests, Verifies(d) PROVE Email!TypeOK'
  <2>1. dest \in [Dests -> [state : {"none", "unverified", "verified"}, made : Nat]]
    BY DEF Email!TypeOK
  <2>2. [state |-> "verified", made |-> dest[d].made] \in [state : {"none", "unverified", "verified"}, made : Nat]
    BY <2>1
  <2>3. dest' \in [Dests -> [state : {"none", "unverified", "verified"}, made : Nat]]
    BY <1>4, <2>1, <2>2 DEF Verifies
  <2> QED BY <1>4, <2>3 DEF Verifies, Email!TypeOK
<1>5. CASE UNCHANGED emailVars
  BY <1>5 DEF emailVars, Email!TypeOK
<1> QED BY <1>1, <1>2, <1>3, <1>4, <1>5, EmailSteps

LEMMA EmailLocks ==
  ASSUME Email!TypeOK, EmailLockInv, AskInv, [Email!Next]_emailVars
  PROVE  EmailLockInv'
<1> USE AccountConstants DEF Email!EmailConstants, EmailLockInv, Email!Key, Email!Zone
<1>0. emailHolder \in [Zones \cup {"addresses"} -> Requests \cup {"nobody"}]
  BY DEF Email!TypeOK
<1>1. \A q \in Requests : request[q].at \in {"opened", "locked", "checking", "sending"} =>
        Email!Key(q) \in Zones \cup {"addresses"}
  BY DEF AskInv
<1>2. ASSUME NEW q \in Requests, Handles(q) \/ Sends(q) PROVE EmailLockInv'
  <2>1. \A p \in Requests \ {q} : request'[p] = request[p]
    BY <1>2 DEF Handles, Sends, OthersStay
  <2>2. CASE Opens(q) \/ Looks(q)
    BY <2>1, <2>2 DEF Opens, Looks
  <2>3. CASE Locks(q)
    BY <1>0, <1>1, <2>1, <2>3 DEF Locks, SameAsk
  <2>4. CASE request[q].at \in {"locked", "checking", "sending"} /\ request'[q].at \in {"done", "refused"}
             /\ emailHolder' = [emailHolder EXCEPT ![Email!Key(q)] = "nobody"]
    BY <1>0, <1>1, <2>1, <2>4
  <2> QED BY <1>2, <2>2, <2>3, <2>4 DEF Handles, Sends, Stops, GivesUp, Over
<1>3. ASSUME NEW q \in Requests, Arrives(q) PROVE EmailLockInv'
  BY <1>3 DEF Arrives
<1>4. ASSUME NEW d \in Dests, Verifies(d) PROVE EmailLockInv'
  BY <1>4 DEF Verifies
<1>5. CASE UNCHANGED emailVars
  BY <1>5 DEF emailVars
<1> QED BY <1>2, <1>3, <1>4, <1>5, EmailSteps

LEMMA AskNext ==
  ASSUME Email!TypeOK, AskInv, [Email!Next]_emailVars
  PROVE  AskInv'
<1> USE DEF AskInv
<1>1. ASSUME NEW q \in Requests, Handles(q) PROVE AskInv'
  <2>1. \A p \in Requests \ {q} : request'[p] = request[p]
    BY <1>1 DEF Handles, OthersStay
  <2>2. CASE Opens(q)
    BY <2>1, <2>2 DEF Opens
  <2>3. CASE Locks(q)
    BY <2>1, <2>3 DEF Locks, SameAsk
  <2>4. CASE Looks(q)
    BY <2>1, <2>4 DEF Looks
  <2>5. CASE Stops(q)
    BY <2>1, <2>5 DEF Stops, Over
  <2>6. CASE GivesUp(q)
    BY <2>1, <2>6 DEF GivesUp, SameAsk
  <2> QED BY <1>1, <2>2, <2>3, <2>4, <2>5, <2>6 DEF Handles
<1>2. ASSUME NEW q \in Requests, Sends(q) PROVE AskInv'
  BY <1>2 DEF Sends, OthersStay, Over
<1>3. ASSUME NEW q \in Requests, Arrives(q) PROVE AskInv'
  BY <1>3 DEF Arrives
<1>4. ASSUME NEW d \in Dests, Verifies(d) PROVE AskInv'
  BY <1>4 DEF Verifies
<1>5. CASE UNCHANGED emailVars
  BY <1>5 DEF emailVars
<1> QED BY <1>1, <1>2, <1>3, <1>4, <1>5, EmailSteps

LEMMA LateNext ==
  ASSUME Email!TypeOK, AskInv, LateInv, [Email!Next]_emailVars
  PROVE  LateInv'
<1> USE AccountConstants DEF Email!EmailConstants, LateInv
<1>0. arrived \in Nat /\ Cardinality(late) \in Nat
  BY FS_CardinalityType DEF Email!TypeOK
<1>1. ASSUME NEW q \in Requests, Handles(q) \/ Sends(q) PROVE LateInv'
  <2>1. CASE UNCHANGED <<late, arrived>>
    BY <2>1
  <2>2. CASE GivesUp(q) /\ RulesStay
    <3>1. q \notin late
      BY <2>2 DEF GivesUp, AskInv
    <3>2. IsFiniteSet(late') /\ Cardinality(late') = Cardinality(late) + 1
      BY <2>2, <3>1, FS_AddElement DEF GivesUp
    <3> QED BY <1>0, <2>2, <3>2 DEF GivesUp, RulesStay
  <2> QED BY <1>1, <2>1, <2>2 DEF Handles, Sends, Opens, Locks, Looks, Stops, RulesStay
<1>2. ASSUME NEW q \in Requests, Arrives(q) PROVE LateInv'
  <2>1. IsFiniteSet(late') /\ Cardinality(late') = Cardinality(late) - 1
    BY <1>2, FS_RemoveElement DEF Arrives
  <2> QED BY <1>0, <1>2, <2>1 DEF Arrives
<1>3. ASSUME NEW d \in Dests, Verifies(d) PROVE LateInv'
  BY <1>3 DEF Verifies
<1>4. CASE UNCHANGED emailVars
  BY <1>4 DEF emailVars
<1> QED BY <1>1, <1>2, <1>3, <1>4, EmailSteps

\* Two requests on what concerns a Zone work on different Zones.
LEMMA ZonesApart ==
  ASSUME EmailLockInv, NEW p \in Requests, NEW q \in Requests, p # q,
         request[p].at \in {"locked", "checking", "sending"},
         request[q].at \in {"locked", "checking", "sending"},
         request[p].kind # "create_address", request[q].kind # "create_address"
  PROVE  request[p].zone # request[q].zone
BY DEF EmailLockInv, Email!Key, Email!Zone

\* What a change leaves alone.
LEMMA ChangeIsLocal ==
  ASSUME Email!TypeOK, AskInv, NEW q \in Requests, Changes(q), request[q].at = "sending"
  PROVE  /\ \A z \in Zones \ {request[q].zone} : rules'[z] = rules[z] /\ catchAll'[z] = catchAll[z]
         /\ request[q].kind \in {"create_address", "delete_address"} => UNCHANGED <<rules, catchAll>>
         /\ removed \subseteq removed'
         /\ \A d \in Dests : dest[d].state = "verified" =>
              \/ dest'[d].state = "verified"
              \/ /\ request[q].kind = "delete_address" /\ request[q].zone \in Zones
                 /\ <<d, request[q].zone>> \in removed' /\ d = request[q].rule.to
<1> USE DEF Changes, Ruling
<1>1. \A z \in Zones \ {request[q].zone} : rules'[z] = rules[z] /\ catchAll'[z] = catchAll[z]
  BY DEF Email!TypeOK
<1>2. request[q].kind \in {"create_address", "delete_address"} => UNCHANGED <<rules, catchAll>>
  OBVIOUS
<1>3. removed \subseteq removed'
  OBVIOUS
<1>4. ASSUME NEW d \in Dests, dest[d].state = "verified"
      PROVE  \/ dest'[d].state = "verified"
             \/ /\ request[q].kind = "delete_address" /\ request[q].zone \in Zones
                /\ <<d, request[q].zone>> \in removed' /\ d = request[q].rule.to
  BY <1>4 DEF Email!TypeOK, AskInv
<1> QED BY <1>1, <1>2, <1>3, <1>4

\* An address that was verified, or removed for another Zone, stays so for the
\* Zones other than that of a change.
LEMMA VerifiedStays ==
  ASSUME Email!TypeOK, AskInv, NEW q \in Requests, Changes(q), request[q].at = "sending",
         NEW d \in Dests, NEW z, IsVerified(d, z),
         request[q].kind = "delete_address" => z # request[q].zone \/ d # request[q].rule.to
  PROVE  IsVerified(d, z)'
<1>1. removed \subseteq removed'
  BY ChangeIsLocal
<1>2. CASE dest[d].state = "verified"
  BY <1>2, ChangeIsLocal DEF IsVerified
<1>3. CASE \E y \in Zones \ {z} : <<d, y>> \in removed
  BY <1>1, <1>3 DEF IsVerified
<1> QED BY <1>2, <1>3 DEF IsVerified

\* What a handler looked up: another's change is of another Zone, or would need
\* the lock.
LEMMA LookupNext ==
  ASSUME Email!TypeOK, EmailLockInv, AskInv, LookupInv, [Email!Next]_emailVars
  PROVE  LookupInv'
<1> USE DEF LookupInv
<1>1. ASSUME NEW q \in Requests, Handles(q) PROVE LookupInv'
  <2> SUFFICES ASSUME arrived' = 0, NEW p \in Requests
               PROVE  NotTaken(p)' /\ Checked(p)' /\ Unused(p)'
    OBVIOUS
  <2>1. RulesStay /\ NotTaken(p) /\ Checked(p) /\ Unused(p)
    BY <1>1 DEF Handles, RulesStay
  <2>2. CASE request'[p] = request[p]
    BY <2>1, <2>2 DEF NotTaken, Checked, Unused, RulesStay, IsVerified, Email!Taken, Email!RuleUses,
         Email!Made, Email!Zone, Email!In, Email!NeedsCheck, Email!Forwards, Email!Drop
  <2>3. CASE p = q /\ ~Looks(q)
    <3>1. request'[q].at \notin {"checking", "sending"}
      BY <1>1, <2>3 DEF Handles, Opens, Locks, Stops, GivesUp, Over
    <3> QED BY <2>3, <3>1 DEF NotTaken, Checked, Unused
  <2>4. CASE p = q /\ Looks(q)
    <3>1. NotTaken(p)'
      <4> SUFFICES ASSUME request'[q].kind \in Ruling PROVE ~Email!Taken(q)'
        BY <2>4 DEF NotTaken
      <4>1. ~Email!Taken(q)
        BY <2>1, <2>4 DEF NotTaken, Looks
      <4>2. request'[q].rule = request[q].rule /\ request'[q].zone = request[q].zone
            /\ request'[q].id = request[q].id
        BY <2>4 DEF Looks, Ruling
      <4> QED BY <2>1, <4>1, <4>2 DEF RulesStay, Email!Taken, Email!Made, Email!Zone, Email!In
    <3>2. Checked(p)'
      BY <2>1, <2>4 DEF Checked, Looks, IsVerified, RulesStay
    <3>3. Unused(p)'
      BY <2>1, <2>4 DEF Unused, Looks, RulesStay, Email!RuleUses, Email!Made
    <3> QED BY <3>1, <3>2, <3>3
  <2> QED BY <1>1, <2>2, <2>3, <2>4 DEF Handles, OthersStay
<1>2. ASSUME NEW q \in Requests, Sends(q) PROVE LookupInv'
  <2> SUFFICES ASSUME arrived' = 0, NEW p \in Requests,
                      request'[p].at \in {"checking", "sending"}
               PROVE  NotTaken(p)' /\ Checked(p)' /\ Unused(p)'
    BY DEF NotTaken, Checked, Unused
  <2>1. p # q /\ request'[p] = request[p] /\ request[q].at = "sending" /\ Changes(q)
    BY <1>2 DEF Sends, OthersStay, Over
  <2>2. NotTaken(p) /\ Checked(p) /\ Unused(p)
    BY <1>2 DEF Sends
  <2>3. CASE request[p].kind = "create_address"
    BY <2>1, <2>3 DEF NotTaken, Checked, Unused, Ruling
  <2>4. CASE request[p].kind # "create_address"
    <3>1. request[p].zone \in Zones
      BY <2>1, <2>4 DEF AskInv
    <3>2. request[q].kind = "create_address" \/ request[p].zone # request[q].zone
      BY <2>1, <2>4, ZonesApart
    <3>3. rules'[request[p].zone] = rules[request[p].zone]
          /\ catchAll'[request[p].zone] = catchAll[request[p].zone]
      BY <2>1, <3>1, <3>2, ChangeIsLocal
    <3>4. NotTaken(p)' /\ Unused(p)'
      BY <2>1, <2>2, <3>3 DEF NotTaken, Unused, Email!Taken, Email!RuleUses, Email!Made,
           Email!Zone, Email!In
    <3>5. Checked(p)'
      <4> SUFFICES ASSUME request[p].at = "sending",
                          request[p].kind \in Ruling \cup {"set_catch_all"},
                          Email!NeedsCheck(request[p].rule)
                   PROVE  IsVerified(request[p].rule.to, request[p].zone)'
        BY <2>1 DEF Checked, Email!NeedsCheck, Email!Forwards, Email!Drop
      <4>1. IsVerified(request[p].rule.to, request[p].zone)
        BY <2>2 DEF Checked
      <4>2. request[p].rule.to \in Dests
        BY AskTypes, CheckedForwards
      <4>3. request[q].kind = "delete_address" => request[p].zone # request[q].zone
        BY <3>2
      <4>4. \A d \in Dests, z \in Zones :
              IsVerified(d, z) /\ (request[q].kind = "delete_address" => z # request[q].zone)
                => IsVerified(d, z)'
        BY <2>1, VerifiedStays
      <4>5. IsVerified(request[p].rule.to, request[p].zone)'
             <=> \/ dest'[request[p].rule.to].state = "verified"
                 \/ \E y \in Zones \ {request[p].zone} : <<request[p].rule.to, y>> \in removed'
        BY <2>1 DEF IsVerified
      <4> DEFINE d == request[p].rule.to
                 z == request[p].zone
      <4>6. \/ dest'[d].state = "verified"
            \/ \E y \in Zones \ {z} : <<d, y>> \in removed'
        BY <3>1, <4>1, <4>2, <4>3, <4>4 DEF IsVerified
      <4> QED BY <4>5, <4>6
    <3> QED BY <3>4, <3>5
  <2> QED BY <2>3, <2>4
<1>3. ASSUME NEW q \in Requests, Arrives(q) PROVE LookupInv'
  BY <1>3 DEF Arrives, Email!TypeOK
<1>4. ASSUME NEW d \in Dests, Verifies(d) PROVE LookupInv'
  BY <1>4 DEF Verifies, NotTaken, Checked, Unused, IsVerified, Email!Taken, Email!RuleUses,
       Email!Made, Email!Zone, Email!In, Email!NeedsCheck, Email!Forwards, Email!Drop, Email!TypeOK
<1>5. CASE UNCHANGED emailVars
  BY <1>5 DEF emailVars, NotTaken, Checked, Unused, IsVerified, Email!Taken, Email!RuleUses,
       Email!Made, Email!Zone, Email!In, Email!NeedsCheck, Email!Forwards, Email!Drop
<1> QED BY <1>1, <1>2, <1>3, <1>4, <1>5, EmailSteps

\* The rules of the Zone that a change is about.
LEMMA OneRuleNext ==
  ASSUME Email!TypeOK, AskInv, NEW q \in Requests, Changes(q), request[q].at = "sending",
         NotTaken(q), NEW z \in Zones,
         \A i, j \in Email!Made(z) : rules[z][i].addr = rules[z][j].addr => i = j
  PROVE  \A i, j \in Email!Made(z)' : rules'[z][i].addr = rules'[z][j].addr => i = j
<1>1. CASE rules'[z] = rules[z]
  BY <1>1 DEF Email!Made
<1>2. CASE rules'[z] # rules[z]
  <2>1. z = request[q].zone /\ rules[z] \in [Requests -> Email!RoutingRules]
    BY <1>2, ChangeIsLocal DEF Email!TypeOK
  <2>2. \/ request[q].kind \in Ruling /\ rules'[z] = [rules[z] EXCEPT ![request[q].id] = request[q].rule]
        \/ rules'[z] = [rules[z] EXCEPT ![request[q].id] = Email!NoRule]
    BY <1>2, <2>1 DEF Changes, Email!TypeOK
  <2>3. CASE rules'[z] = [rules[z] EXCEPT ![request[q].id] = Email!NoRule]
    BY <2>1, <2>3 DEF Email!Made
  <2>4. CASE request[q].kind \in Ruling
             /\ rules'[z] = [rules[z] EXCEPT ![request[q].id] = request[q].rule]
    <3>1. \A i \in Email!Made(z) \ {request[q].id} : rules[z][i].addr # request[q].rule.addr
      BY <2>1, <2>4 DEF NotTaken, Email!Taken, Email!Zone, Email!In
    <3> QED BY <2>1, <2>4, <3>1 DEF Email!Made
  <2> QED BY <2>2, <2>3, <2>4
<1> QED BY <1>1, <1>2

Forwarding(z, d) == \E r \in Email!Live(z) : r.on /\ r.to = d

\* What forwards to an address after a change did so before, or is the change.
LEMMA ForwardingNext ==
  ASSUME Email!TypeOK, AskInv, NEW q \in Requests, Changes(q), request[q].at = "sending",
         NEW z \in Zones, NEW d \in Dests, Forwarding(z, d)'
  PROVE  \/ Forwarding(z, d)
         \/ /\ z = request[q].zone /\ request[q].kind \in Ruling \cup {"set_catch_all"}
            /\ request[q].rule.on /\ request[q].rule.to = d
<1> USE DEF Forwarding, Email!Live, Email!Made
<1>1. CASE rules'[z] = rules[z] /\ catchAll'[z] = catchAll[z]
  BY <1>1
<1>2. CASE ~(rules'[z] = rules[z] /\ catchAll'[z] = catchAll[z])
  <2>1. z = request[q].zone /\ rules[z] \in [Requests -> Email!RoutingRules]
    BY <1>2, ChangeIsLocal DEF Email!TypeOK
  <2>2. \/ /\ request[q].kind \in Ruling /\ catchAll'[z] = catchAll[z]
           /\ rules'[z] = [rules[z] EXCEPT ![request[q].id] = request[q].rule]
        \/ /\ catchAll'[z] = catchAll[z]
           /\ rules'[z] = [rules[z] EXCEPT ![request[q].id] = Email!NoRule]
        \/ /\ request[q].kind = "set_catch_all" /\ rules'[z] = rules[z]
           /\ catchAll'[z] = [on |-> request[q].rule.on, to |-> request[q].rule.to]
    BY <1>2, <2>1 DEF Changes, Email!TypeOK
  <2> QED BY <2>1, <2>2
<1> QED BY <1>1, <1>2

\* Nothing in the Zone of an address that is deleted forwards to it.
LEMMA UnusedForwards ==
  ASSUME AskInv, NEW q \in Requests, request[q].at = "sending", Unused(q),
         request[q].kind = "delete_address"
  PROVE  ~Forwarding(request[q].zone, request[q].rule.to)
BY DEF Unused, Forwarding, Email!Live, Email!RuleUses, Email!Made

\* The properties themselves.
LEMMA RulesNext ==
  ASSUME Email!TypeOK, AskInv, LookupInv, RulesHold, [Email!Next]_emailVars
  PROVE  RulesHold'
<1>0. RulesHold <=>
        (arrived = 0 => \A z \in Zones :
           /\ \A i, j \in Email!Made(z) : rules[z][i].addr = rules[z][j].addr => i = j
           /\ \A d \in Dests : Forwarding(z, d) => IsVerified(d, z))
  BY DEF RulesHold, Email!RulesHold, Email!OneRulePerAddress, Email!ForwardsVerified, Forwarding,
         IsVerified
<1>1. ASSUME UNCHANGED <<rules, catchAll, dest, removed, arrived>> PROVE RulesHold'
  BY <1>1 DEF RulesHold, Email!RulesHold, Email!OneRulePerAddress, Email!ForwardsVerified,
              Email!Made, Email!Live
<1>2. ASSUME NEW q \in Requests, Sends(q), arrived = 0, NEW z \in Zones
      PROVE  /\ \A i, j \in Email!Made(z)' : rules'[z][i].addr = rules'[z][j].addr => i = j
             /\ \A d \in Dests : Forwarding(z, d)' => IsVerified(d, z)'
  <2>1. Changes(q) /\ request[q].at = "sending" /\ NotTaken(q) /\ Checked(q) /\ Unused(q)
    BY <1>2 DEF Sends, LookupInv
  <2>2. \A i, j \in Email!Made(z)' : rules'[z][i].addr = rules'[z][j].addr => i = j
    BY <1>0, <1>2, <2>1, OneRuleNext
  <2>3. ASSUME NEW d \in Dests, Forwarding(z, d)' PROVE IsVerified(d, z)'
    <3>1. CASE Forwarding(z, d)
      <4>1. request[q].kind = "delete_address" => z # request[q].zone \/ d # request[q].rule.to
        BY <2>1, <3>1, UnusedForwards
      <4> QED BY <1>0, <1>2, <2>1, <3>1, <4>1, VerifiedStays
    <3>2. CASE /\ z = request[q].zone /\ request[q].kind \in Ruling \cup {"set_catch_all"}
               /\ request[q].rule.on /\ request[q].rule.to = d
      <4>1. Email!NeedsCheck(request[q].rule)
        BY <3>2, AccountConstants DEF Email!EmailConstants, Email!NeedsCheck, Email!Forwards, Email!Drop
      <4>2. IsVerified(d, z)
        BY <2>1, <3>2, <4>1 DEF Checked
      <4>3. request[q].kind # "delete_address"
        BY <3>2 DEF Ruling
      <4> QED BY <2>1, <4>2, <4>3, VerifiedStays
    <3> QED BY <2>1, <2>3, <3>1, <3>2, ForwardingNext
  <2> QED BY <2>2, <2>3
<1>3. ASSUME NEW q \in Requests, Sends(q) PROVE RulesHold'
  <2>1. UNCHANGED arrived
    BY <1>3 DEF Sends
  <2> QED BY <1>2, <1>3, <2>1 DEF RulesHold, Email!RulesHold, Email!OneRulePerAddress,
        Email!ForwardsVerified, Forwarding, IsVerified
<1>4. ASSUME NEW q \in Requests, Arrives(q) PROVE RulesHold'
  BY <1>4 DEF Arrives, Email!TypeOK, RulesHold, Email!RulesHold, Email!OneRulePerAddress,
              Email!ForwardsVerified
<1>5. ASSUME NEW d \in Dests, Verifies(d) PROVE RulesHold'
  <2>1. \A e \in Dests : dest'[e].state = dest[e].state \/ dest'[e].state = "verified"
    BY <1>5 DEF Verifies, Email!TypeOK
  <2> QED BY <1>5, <2>1 DEF Verifies, RulesHold, Email!RulesHold, Email!OneRulePerAddress,
        Email!ForwardsVerified, Email!Made, Email!Live
<1>6. ASSUME NEW q \in Requests, Handles(q) PROVE RulesHold'
  BY <1>1, <1>6 DEF Handles, RulesStay
<1> QED BY <1>1, <1>3, <1>4, <1>5, <1>6, EmailSteps DEF emailVars

LEMMA EmailNext == EmailInv /\ [Email!Next]_emailVars => EmailInv'
BY EmailTypes, EmailLocks, AskNext, LateNext, LookupNext, RulesNext DEF EmailInv

\* The invariant of Email Routing.
THEOREM EmailInductive == Email!Spec => []EmailInv
<1>1. EmailInv /\ [Email!Next]_(Email!vars) => EmailInv'
  BY EmailNext DEF Email!vars, emailVars
<1> QED BY <1>1, EmailInit, PTL DEF Email!Spec

\* An address of a Zone has one rule, and what forwards is verified: whatever
\* the requests look up stays as they found it until they change it.
THEOREM RulesAlwaysHold == Email!Spec => []RulesHold
<1>1. EmailInv => RulesHold
  BY DEF EmailInv
<1> QED BY <1>1, EmailInductive, PTL

-----------------------------------------------------------------------------
(* Zone Rules *)

ZoneStages == {"idle", "shown", "read", "locked", "sent", "done", "refused"}
Accepted == {"read", "locked", "sent", "done"}

\* Versions tell rulesets apart, and grow.
VersionInv ==
  \A e \in Requests :
    /\ zoneEdit[e].page.version <= live.version
    /\ zoneEdit[e].page.version = live.version => zoneEdit[e].page = live

\* What a request read is what its page showed, as far as it was checked.
PageInv ==
  \A e \in Requests : zoneEdit[e].at \in Accepted =>
    /\ zoneEdit[e].asks = "update" => zoneEdit[e].seen = zoneEdit[e].page
    /\ zoneEdit[e].asks = "reorder" =>
         Zone!ToSet(zoneEdit[e].order) = Zone!Ids(zoneEdit[e].seen)

\* Losses are of requests that have sent their change.
LossInv ==
  /\ \A d \in lost : zoneEdit[d[2]].at \in {"sent", "done"}
  /\ \A e \in stale : zoneEdit[e].at \in {"sent", "done"} /\ zoneEdit[e].asks = "update"

ZoneInv == Zone!TypeOK /\ VersionInv /\ PageInv /\ LossInv /\ LosesOnlyUnseen

RuleTexts == [id : Nat, text : Nat]

LEMMA RulesetType ==
  ASSUME NEW v \in Nat, NEW s \in Seq(RuleTexts)
  PROVE  Zone!Ruleset(v, s) \in Zone!Rulesets
BY DEF Zone!Ruleset, Zone!Rulesets, RuleTexts

\* The ids of a ruleset are finitely many numbers.
LEMMA IdsFinite ==
  ASSUME NEW rs \in Zone!Rulesets
  PROVE  Zone!Ids(rs) \subseteq Nat /\ IsFiniteSet(Zone!Ids(rs))
<1>1. rs.rules \in Seq(RuleTexts) /\ Len(rs.rules) \in Nat /\ DOMAIN rs.rules = 1..Len(rs.rules)
  BY DEF Zone!Rulesets, RuleTexts
<1>2. Zone!Ids(rs) \subseteq Nat
  <2>1. \A i \in DOMAIN rs.rules : rs.rules[i] \in RuleTexts
    BY <1>1
  <2>2. \A r \in RuleTexts : r.id \in Nat
    BY DEF RuleTexts
  <2> QED BY <2>1, <2>2 DEF Zone!Ids
<1>3. IsFiniteSet(1..Len(rs.rules))
  BY <1>1, FS_Interval
<1>4. IsFiniteSet({rs.rules[i].id : i \in 1..Len(rs.rules)})
  <2> DEFINE f == [i \in 1..Len(rs.rules) |-> rs.rules[i].id]
             S == 1..Len(rs.rules)
             T == Zone!Ids(rs)
  <2>1. f \in Surjection(S, T)
    BY <1>1 DEF Zone!Ids, Surjection
  <2>2. IsFiniteSet(T)
    BY <1>3, <2>1, FS_Surjection
  <2> QED BY <1>1, <2>2 DEF Zone!Ids
<1> QED BY <1>1, <1>2, <1>4 DEF Zone!Ids

\* An order a person may ask for is a sequence of ids that the page shows.
LEMMA OrderType ==
  ASSUME NEW rs \in Zone!Rulesets, NEW order \in Zone!Orders(rs)
  PROVE  order \in Seq(Nat) /\ Zone!ToSet(order) \subseteq Zone!Ids(rs)
<1>1. PICK S \in SUBSET Zone!Ids(rs) : order \in Zone!SetToSeqs(S)
  BY DEF Zone!Orders, Zone!SetToAllKPermutations
<1>2. IsFiniteSet(S) /\ S \subseteq Nat
  BY <1>1, IdsFinite, FS_Subset
<1>3. Zone!Cardinality(S) = Cardinality(S) /\ Cardinality(S) \in Nat
  BY <1>2, SameCount, FS_CardinalityType
<1>4. order \in [1..Cardinality(S) -> S]
  BY <1>1, <1>3 DEF Zone!SetToSeqs
<1>5. order \in Seq(Nat)
  <2>1. \A n \in Nat : [1..n -> Nat] \subseteq Seq(Nat)
    OBVIOUS
  <2>2. order \in [1..Cardinality(S) -> Nat]
    BY <1>2, <1>4
  <2> QED BY <1>3, <2>1, <2>2
<1>6. Zone!ToSet(order) \subseteq S
  BY <1>4 DEF Zone!ToSet
<1> QED BY <1>1, <1>5, <1>6

\* The text of a rule that is there is a number.
LEMMA TextType ==
  ASSUME NEW rs \in Zone!Rulesets, NEW id \in Zone!Ids(rs)
  PROVE  Zone!TextOf(rs, id) \in Nat
<1>1. rs.rules \in Seq(RuleTexts)
  BY DEF Zone!Rulesets, RuleTexts
<1>2. \E r \in Zone!ToSet(rs.rules) : r.id = id
  BY DEF Zone!Ids, Zone!ToSet
<1>3. \A r \in Zone!ToSet(rs.rules) : r.text \in Nat
  <2>1. \A i \in DOMAIN rs.rules : rs.rules[i] \in RuleTexts
    BY <1>1
  <2>2. \A r \in RuleTexts : r.text \in Nat
    BY DEF RuleTexts
  <2> QED BY <2>1, <2>2 DEF Zone!ToSet
<1> QED BY <1>2, <1>3 DEF Zone!TextOf

LEMMA ZoneInit == Zone!Init => ZoneInv
<1> SUFFICES ASSUME Zone!Init PROVE ZoneInv
  OBVIOUS
<1>1. Zone!Missing \in Zone!Rulesets
  <2>1. <<>> \in Seq(RuleTexts) /\ 0 \in Nat
    OBVIOUS
  <2> QED BY <2>1, RulesetType DEF Zone!Missing
<1>2. live \in Zone!Rulesets /\ ids \in Nat
  <2>1. CASE live = Zone!Missing /\ ids = 0
    BY <1>1, <2>1
  <2>2. CASE live = Zone!Ruleset(1, [i \in 1..Rules |-> Zone!Rule(i, 1)]) /\ ids = Rules
    <3>1. Rules \in Nat
      BY AccountConstants DEF Zone!RuleConstants
    <3>2. [i \in 1..Rules |-> Zone!Rule(i, 1)] \in Seq(RuleTexts)
      BY <3>1 DEF Zone!Rule, RuleTexts
    <3> QED BY <2>2, <3>1, <3>2, RulesetType
  <2> QED BY <2>1, <2>2 DEF Zone!Init
<1>3. Zone!NoEdit \in Zone!Edits
  BY <1>1 DEF Zone!NoEdit, Zone!Edits, Zone!Asks
<1>4. Zone!TypeOK
  BY <1>2, <1>3 DEF Zone!Init, Zone!TypeOK
<1>5. \A e \in Requests : zoneEdit[e].at = "idle" /\ zoneEdit[e].page = Zone!Missing
  BY DEF Zone!Init, Zone!NoEdit
<1>6. VersionInv
  BY <1>5 DEF VersionInv, Zone!Init, Zone!Missing, Zone!Ruleset
<1>7. PageInv /\ LossInv /\ LosesOnlyUnseen
  BY <1>5 DEF PageInv, LossInv, Accepted, LosesOnlyUnseen, Zone!LosesOnlyUnseen, Zone!Init
<1> QED BY <1>4, <1>6, <1>7 DEF ZoneInv

\* Request e moves; the others stay where they are.
EditsStay(e) ==
  /\ zoneEdit' \in [Requests -> Zone!Edits]
  /\ \A f \in Requests \ {e} : zoneEdit'[f] = zoneEdit[f]

SameEdit(e) ==
  /\ zoneEdit'[e].asks = zoneEdit[e].asks /\ zoneEdit'[e].page = zoneEdit[e].page
  /\ zoneEdit'[e].seen = zoneEdit[e].seen /\ zoneEdit'[e].rule = zoneEdit[e].rule
  /\ zoneEdit'[e].order = zoneEdit[e].order

\* A request that goes on keeps what it asks and what its page showed.
LEMMA EditGoesOn ==
  ASSUME Zone!TypeOK, NEW e \in Requests, NEW at \in ZoneStages, Zone!Goes(e, at)
  PROVE  EditsStay(e) /\ SameEdit(e) /\ zoneEdit'[e].at = at
<1>1. zoneEdit \in [Requests -> Zone!Edits] /\ zoneEdit[e] \in Zone!Edits
  BY DEF Zone!TypeOK
<1>2. zoneEdit' = [zoneEdit EXCEPT ![e] = [zoneEdit[e] EXCEPT !.at = at]]
  BY DEF Zone!Goes
<1>3. [zoneEdit[e] EXCEPT !.at = at] \in Zone!Edits
  BY <1>1 DEF Zone!Edits, ZoneStages
<1>4. EditsStay(e) /\ zoneEdit'[e] = [zoneEdit[e] EXCEPT !.at = at]
  BY <1>1, <1>2, <1>3 DEF EditsStay
<1>5. SameEdit(e) /\ zoneEdit'[e].at = at
  BY <1>1, <1>4 DEF SameEdit, Zone!Edits
<1> QED BY <1>4, <1>5

Shows(e) ==
  /\ zoneEdit[e].at = "idle" /\ zoneEdit'[e].at = "shown" /\ zoneEdit'[e].page = live
  /\ UNCHANGED <<live, zoneHolder, ids, lost, stale>>

\* The handler reads the ruleset, and goes on only if it accepts the change.
Reads(e) ==
  /\ zoneEdit[e].at = "shown" /\ zoneEdit'[e].at \in {"read", "refused"}
  /\ zoneEdit'[e].seen = live /\ zoneEdit'[e].page = zoneEdit[e].page
  /\ zoneEdit'[e].asks = zoneEdit[e].asks /\ zoneEdit'[e].order = zoneEdit[e].order
  /\ zoneEdit'[e].rule = zoneEdit[e].rule
  /\ zoneEdit'[e].at = "read" => Zone!Accepted(e)
  /\ UNCHANGED <<live, zoneHolder, ids, lost, stale>>

\* Nothing is sent.
Passes(e) ==
  /\ SameEdit(e) /\ zoneEdit[e].at \in {"read", "locked", "sent"}
  /\ zoneEdit'[e].at \in {"locked", "sent", "done", "refused"}
  /\ zoneEdit[e].at = "sent" => zoneEdit'[e].at = "done"
  /\ zoneHolder' \in Requests \cup {Zone!Nobody}
  /\ UNCHANGED <<live, ids, lost, stale>>

\* A change is sent, and makes a new version.
SendsChange(e) ==
  /\ SameEdit(e) /\ zoneEdit[e].at = "locked" /\ zoneEdit'[e].at = "sent"
  /\ live' \in Zone!Rulesets /\ live'.version = live.version + 1 /\ ids' \in Nat
  /\ lost' \subseteq lost \cup ((Nat \ Zone!Ids(zoneEdit[e].seen)) \X {e})
  /\ stale' \subseteq stale \cup (IF zoneEdit[e].asks = "update" THEN {e} ELSE {})
  /\ UNCHANGED zoneHolder

\* Each action of a request on Zone Rules: what it keeps and what it loses.
LEMMA ShowShows ==
  ASSUME Zone!TypeOK, NEW e \in Requests, Zone!Show(e) PROVE EditsStay(e) /\ Shows(e)
<1>1. PICK asks \in Zone!Asks, rule \in Zone!Ids(live) \cup {0}, order \in Zone!Orders(live) :
        /\ (asks \in {"update", "delete"}) <=> (rule # 0)
        /\ asks # "reorder" => order = <<>>
        /\ zoneEdit' = [zoneEdit EXCEPT ![e] =
             [at |-> "shown", asks |-> asks, page |-> live, seen |-> Zone!Missing,
              rule |-> rule, order |-> order]]
  BY Zenon DEF Zone!Show
<1> DEFINE r == [at |-> "shown", asks |-> asks, page |-> live, seen |-> Zone!Missing,
                 rule |-> rule, order |-> order]
<1>2. live \in Zone!Rulesets /\ Zone!Missing \in Zone!Rulesets
  <2>1. <<>> \in Seq(RuleTexts) /\ 0 \in Nat
    OBVIOUS
  <2> QED BY <2>1, RulesetType DEF Zone!Missing, Zone!TypeOK
<1>3. rule \in Nat /\ order \in Seq(Nat)
  BY <1>2, IdsFinite, OrderType
<1>4. r \in Zone!Edits
  BY <1>2, <1>3 DEF Zone!Edits
<1>5. EditsStay(e) /\ zoneEdit'[e] = r
  BY <1>1, <1>4 DEF EditsStay, Zone!TypeOK
<1> QED BY <1>5 DEF Shows, Zone!Show, Zone!At, Zone!history

LEMMA ReadReads ==
  ASSUME Zone!TypeOK, NEW e \in Requests, Zone!Read(e) PROVE EditsStay(e) /\ Reads(e)
<1> DEFINE at == IF Zone!Accepted(e) THEN "read" ELSE "refused"
           r == [zoneEdit[e] EXCEPT !.seen = live, !.at = at]
<1>1. zoneEdit \in [Requests -> Zone!Edits] /\ zoneEdit[e] \in Zone!Edits /\ live \in Zone!Rulesets
  BY DEF Zone!TypeOK
<1>2. zoneEdit' = [zoneEdit EXCEPT ![e] = r]
  BY <1>1 DEF Zone!Read
<1>3. /\ r \in Zone!Edits /\ r.at = at /\ r.seen = live /\ r.page = zoneEdit[e].page
      /\ r.asks = zoneEdit[e].asks /\ r.order = zoneEdit[e].order /\ r.rule = zoneEdit[e].rule
  BY <1>1 DEF Zone!Edits
<1>4. EditsStay(e) /\ zoneEdit'[e] = r
  BY <1>1, <1>2, <1>3 DEF EditsStay
<1> HIDE DEF r
<1> QED BY <1>3, <1>4 DEF Reads, Zone!Read, Zone!At, Zone!history

LEMMA LockPasses ==
  ASSUME Zone!TypeOK, NEW e \in Requests,
         Zone!Lock(e) \/ Zone!LogFails(e) \/ Zone!SendRefused(e) \/ Zone!Unlock(e)
  PROVE  EditsStay(e) /\ Passes(e)
<1> USE EditGoesOn DEF Passes, ZoneStages, Zone!At, Zone!history, Zone!Sent, Zone!TypeOK
<1>1. CASE Zone!Lock(e)
  BY <1>1 DEF Zone!Lock
<1>2. CASE Zone!LogFails(e)
  BY <1>2 DEF Zone!LogFails
<1>3. CASE Zone!SendRefused(e)
  BY <1>3 DEF Zone!SendRefused
<1>4. CASE Zone!Unlock(e)
  BY <1>4 DEF Zone!Unlock
<1> QED BY <1>1, <1>2, <1>3, <1>4

LEMMA RulesetParts ==
  ASSUME NEW rs \in Zone!Rulesets
  PROVE  /\ rs.version \in Nat /\ rs.rules \in Seq(RuleTexts)
         /\ \A i \in DOMAIN rs.rules : rs.rules[i] \in RuleTexts
<1>1. rs.version \in Nat /\ rs.rules \in Seq(RuleTexts)
  BY DEF Zone!Rulesets, RuleTexts
<1> QED BY <1>1

\* The rules a write drops were not among those its handler read, if it keeps those.
LEMMA DropsUnseen ==
  ASSUME Zone!TypeOK, NEW e \in Requests, NEW s \in Seq(RuleTexts),
         Zone!Ids(zoneEdit[e].seen) \subseteq Zone!Ids(Zone!Ruleset(0, s)), Zone!Replace(e, s)
  PROVE  /\ live' \in Zone!Rulesets /\ live'.version = live.version + 1
         /\ lost' \subseteq lost \cup ((Nat \ Zone!Ids(zoneEdit[e].seen)) \X {e})
         /\ stale' = stale
<1>1. live.version \in Nat /\ Zone!Ids(live) \subseteq Nat
  BY RulesetParts, IdsFinite DEF Zone!TypeOK
<1>2. live' = Zone!Ruleset(live.version + 1, s) /\ live.version + 1 \in Nat
  BY <1>1 DEF Zone!Replace, Zone!NextVersion
<1>3. live' \in Zone!Rulesets /\ live'.version = live.version + 1
  BY <1>2, RulesetType DEF Zone!Ruleset
<1>4. lost' \subseteq lost \cup ((Nat \ Zone!Ids(zoneEdit[e].seen)) \X {e})
  BY <1>1 DEF Zone!Replace, Zone!Dropped
<1> QED BY <1>3, <1>4 DEF Zone!Replace

LEMMA CreateSends ==
  ASSUME Zone!TypeOK, NEW e \in Requests, Zone!SendCreate(e) PROVE EditsStay(e) /\ SendsChange(e)
<1> DEFINE seen == zoneEdit[e].seen
           s == Append(seen.rules, Zone!NewRule)
<1>1. seen \in Zone!Rulesets /\ ids \in Nat /\ live.version \in Nat
  BY RulesetParts DEF Zone!TypeOK, Zone!Edits
<1>2. Zone!NewRule \in RuleTexts
  BY <1>1 DEF Zone!NewRule, Zone!NextVersion, Zone!Rule, RuleTexts
<1>3. seen.rules \in Seq(RuleTexts)
  BY <1>1, RulesetParts
<1>4. s \in Seq(RuleTexts) /\ DOMAIN seen.rules \subseteq DOMAIN s
      /\ \A i \in DOMAIN seen.rules : s[i] = seen.rules[i]
  BY <1>2, <1>3
<1>5. Zone!Ids(seen) \subseteq Zone!Ids(Zone!Ruleset(0, s))
  BY <1>4 DEF Zone!Ids, Zone!Ruleset
<1>6. Zone!Replace(e, s) /\ ids' = ids + 1 /\ UNCHANGED zoneHolder /\ zoneEdit[e].at = "locked"
      /\ Zone!Goes(e, "sent")
  BY DEF Zone!SendCreate, Zone!At, Zone!Sent
<1>7. /\ live' \in Zone!Rulesets /\ live'.version = live.version + 1
      /\ lost' \subseteq lost \cup ((Nat \ Zone!Ids(seen)) \X {e})
      /\ stale' = stale
  BY <1>4, <1>5, <1>6, DropsUnseen
<1>8. EditsStay(e) /\ SameEdit(e) /\ zoneEdit'[e].at = "sent"
  BY <1>6, EditGoesOn DEF ZoneStages
<1> QED BY <1>1, <1>6, <1>7, <1>8 DEF SendsChange

LEMMA ReorderSends ==
  ASSUME Zone!TypeOK, PageInv, NEW e \in Requests, Zone!SendReorder(e)
  PROVE  EditsStay(e) /\ SendsChange(e)
<1> DEFINE seen == zoneEdit[e].seen
           order == zoneEdit[e].order
           s == Zone!Reordered(e)
<1>1. seen \in Zone!Rulesets /\ order \in Seq(Nat) /\ ids \in Nat
  BY DEF Zone!TypeOK, Zone!Edits
<1>2. Zone!Replace(e, s) /\ ids' = ids /\ UNCHANGED zoneHolder /\ zoneEdit[e].at = "locked"
      /\ Zone!Goes(e, "sent") /\ zoneEdit[e].asks = "reorder"
  BY DEF Zone!SendReorder, Zone!At, Zone!Sent
<1>3. Zone!ToSet(order) = Zone!Ids(seen)
  BY <1>2 DEF PageInv, Accepted
<1>4. \A i \in DOMAIN order : order[i] \in Zone!Ids(seen) /\ order[i] \in Nat
  BY <1>1, <1>3 DEF Zone!ToSet
<1>5. \A i \in DOMAIN order : Zone!TextOf(seen, order[i]) \in Nat
  BY <1>1, <1>4, TextType
<1>6. s = [i \in DOMAIN order |-> Zone!Rule(order[i], Zone!TextOf(seen, order[i]))]
  BY DEF Zone!Reordered
<1>7. \A i \in DOMAIN order : Zone!Rule(order[i], Zone!TextOf(seen, order[i])) \in RuleTexts
  BY <1>4, <1>5 DEF Zone!Rule, RuleTexts
<1>8. DOMAIN order = 1..Len(order) /\ Len(order) \in Nat
  BY <1>1
<1>9. s \in Seq(RuleTexts) /\ DOMAIN s = DOMAIN order /\ \A i \in DOMAIN order : s[i].id = order[i]
  <2>1. s \in [1..Len(order) -> RuleTexts]
    BY <1>6, <1>7, <1>8
  <2>2. \A i \in DOMAIN order : s[i].id = order[i]
    BY <1>6 DEF Zone!Rule
  <2> HIDE DEF s
  <2>3. s \in Seq(RuleTexts)
    BY <1>8, <2>1
  <2> QED BY <1>8, <2>1, <2>2, <2>3
<1> HIDE DEF s
<1>10. Zone!Ids(seen) \subseteq Zone!Ids(Zone!Ruleset(0, s))
  BY <1>3, <1>9 DEF Zone!Ids, Zone!Ruleset, Zone!ToSet
<1>11. /\ live' \in Zone!Rulesets /\ live'.version = live.version + 1
       /\ lost' \subseteq lost \cup ((Nat \ Zone!Ids(seen)) \X {e})
       /\ stale' = stale
  BY <1>2, <1>9, <1>10, DropsUnseen
<1>12. EditsStay(e) /\ SameEdit(e) /\ zoneEdit'[e].at = "sent"
  BY <1>2, EditGoesOn DEF ZoneStages
<1> QED BY <1>1, <1>2, <1>11, <1>12 DEF SendsChange

\* Changing or deleting one rule.
LEMMA OneRuleSends ==
  ASSUME Zone!TypeOK, NEW e \in Requests, Zone!SendUpdate(e) \/ Zone!SendDelete(e)
  PROVE  EditsStay(e) /\ SendsChange(e)
<1>1. live \in Zone!Rulesets /\ ids \in Nat /\ zoneEdit[e].rule \in Nat
  BY DEF Zone!TypeOK, Zone!Edits
<1>2. live.version \in Nat /\ live.version + 1 \in Nat /\ live.rules \in Seq(RuleTexts)
      /\ \A i \in DOMAIN live.rules : live.rules[i] \in RuleTexts
  BY <1>1, RulesetParts
<1>3. ids' = ids /\ UNCHANGED zoneHolder /\ zoneEdit[e].at = "locked" /\ Zone!Goes(e, "sent")
      /\ lost' = lost
      /\ stale' \subseteq stale \cup (IF zoneEdit[e].asks = "update" THEN {e} ELSE {})
  BY DEF Zone!SendUpdate, Zone!SendDelete, Zone!At, Zone!Sent, Zone!history
<1>4. EditsStay(e) /\ SameEdit(e) /\ zoneEdit'[e].at = "sent"
  BY <1>3, EditGoesOn DEF ZoneStages
<1>5. CASE Zone!SendUpdate(e)
  <2> DEFINE n == Len(live.rules)
             s == [i \in DOMAIN live.rules |->
                     IF live.rules[i].id = zoneEdit[e].rule
                     THEN Zone!Rule(zoneEdit[e].rule, live.version + 1) ELSE live.rules[i]]
  <2>1. Zone!Rule(zoneEdit[e].rule, live.version + 1) \in RuleTexts
    BY <1>1, <1>2 DEF Zone!Rule, RuleTexts
  <2>2. n \in Nat /\ s \in [1..n -> RuleTexts]
    BY <1>2, <2>1
  <2>3. live' = Zone!Ruleset(live.version + 1, s)
    BY <1>5 DEF Zone!SendUpdate, Zone!NextVersion
  <2> HIDE DEF s, n
  <2>4. s \in Seq(RuleTexts)
    BY <2>2
  <2> QED BY <1>1, <1>2, <1>3, <1>4, <2>3, <2>4, RulesetType DEF SendsChange, Zone!Ruleset
<1>6. CASE Zone!SendDelete(e)
  <2>1. PICK i \in DOMAIN live.rules :
          live' = Zone!Ruleset(live.version + 1, Zone!RemoveAt(live.rules, i))
    BY <1>6 DEF Zone!SendDelete, Zone!NextVersion
  <2> DEFINE s == Zone!RemoveAt(live.rules, i)
  <2>2. s \in Seq(RuleTexts)
    BY <1>2 DEF Zone!RemoveAt
  <2> HIDE DEF s
  <2>3. live' = Zone!Ruleset(live.version + 1, s)
    BY <2>1 DEF s
  <2> QED BY <1>1, <1>2, <1>3, <1>4, <2>2, <2>3, RulesetType DEF SendsChange, Zone!Ruleset
<1> QED BY <1>5, <1>6

LEMMA ZoneSteps ==
  ASSUME Zone!TypeOK, PageInv, [Zone!Next]_zoneVars
  PROVE  \/ \E e \in Requests : EditsStay(e) /\ (Shows(e) \/ Reads(e) \/ Passes(e) \/ SendsChange(e))
         \/ UNCHANGED zoneVars
BY ShowShows, ReadReads, LockPasses, CreateSends, ReorderSends, OneRuleSends
   DEF Zone!Next, Zone!Handle, Zone!Send

-----------------------------------------------------------------------------

\* Each kind of step keeps each part of the invariant.
LEMMA ZoneTypes ==
  ASSUME Zone!TypeOK, PageInv, [Zone!Next]_zoneVars
  PROVE  Zone!TypeOK'
<1>1. ASSUME NEW e \in Requests, EditsStay(e), Shows(e) \/ Reads(e) \/ Passes(e) \/ SendsChange(e)
      PROVE  Zone!TypeOK'
  BY <1>1 DEF EditsStay, Shows, Reads, Passes, SendsChange, Zone!TypeOK
<1>2. CASE UNCHANGED zoneVars
  BY <1>2 DEF zoneVars, Zone!TypeOK
<1> QED BY <1>1, <1>2, ZoneSteps

LEMMA VersionNext ==
  ASSUME Zone!TypeOK, PageInv, VersionInv, [Zone!Next]_zoneVars
  PROVE  VersionInv'
<1> USE DEF VersionInv
<1>1. live.version \in Nat /\ \A e \in Requests : zoneEdit[e].page.version \in Nat
  BY RulesetParts DEF Zone!TypeOK, Zone!Edits
<1>2. ASSUME NEW e \in Requests, EditsStay(e), Shows(e) \/ Reads(e) \/ Passes(e) PROVE VersionInv'
  BY <1>1, <1>2 DEF EditsStay, Shows, Reads, Passes, SameEdit
<1>3. ASSUME NEW e \in Requests, EditsStay(e), SendsChange(e) PROVE VersionInv'
  BY <1>1, <1>3 DEF EditsStay, SendsChange, SameEdit
<1>4. CASE UNCHANGED zoneVars
  BY <1>4 DEF zoneVars
<1> QED BY <1>2, <1>3, <1>4, ZoneSteps

LEMMA PageNext ==
  ASSUME Zone!TypeOK, PageInv, VersionInv, [Zone!Next]_zoneVars
  PROVE  PageInv'
<1> USE DEF PageInv, Accepted
<1>1. ASSUME NEW e \in Requests, EditsStay(e), Shows(e) \/ Passes(e) \/ SendsChange(e) PROVE PageInv'
  BY <1>1 DEF EditsStay, Shows, Passes, SendsChange, SameEdit
<1>2. ASSUME NEW e \in Requests, EditsStay(e), Reads(e) PROVE PageInv'
  <2>1. CASE zoneEdit'[e].at = "refused"
    BY <1>2, <2>1 DEF EditsStay
  <2>2. CASE zoneEdit'[e].at = "read"
    <3>1. Zone!Accepted(e)
      BY <1>2, <2>2 DEF Reads
    <3>2. zoneEdit[e].asks = "update" => zoneEdit[e].page = live
      BY <3>1 DEF Zone!Accepted, Zone!Unchanged, VersionInv
    <3>3. zoneEdit[e].asks = "reorder" => Zone!ToSet(zoneEdit[e].order) = Zone!Ids(live)
      BY <3>1 DEF Zone!Accepted, Zone!WholeOrder
    <3> QED BY <1>2, <3>2, <3>3 DEF EditsStay, Reads
  <2> QED BY <1>2, <2>1, <2>2 DEF Reads
<1>3. CASE UNCHANGED zoneVars
  BY <1>3 DEF zoneVars
<1> QED BY <1>1, <1>2, <1>3, ZoneSteps

LEMMA LossNext ==
  ASSUME Zone!TypeOK, PageInv, LossInv, LosesOnlyUnseen, [Zone!Next]_zoneVars
  PROVE  LossInv' /\ LosesOnlyUnseen'
<1> USE DEF LossInv, LosesOnlyUnseen, Zone!LosesOnlyUnseen
<1>0. lost \subseteq Nat \X Requests /\ stale \subseteq Requests
  BY DEF Zone!TypeOK
<1>1. ASSUME NEW e \in Requests, EditsStay(e), Shows(e) \/ Reads(e)
      PROVE  LossInv' /\ LosesOnlyUnseen'
  <2>1. /\ zoneEdit[e].at \notin {"sent", "done"} /\ lost' = lost /\ stale' = stale
        /\ \A f \in Requests \ {e} : zoneEdit'[f] = zoneEdit[f]
    BY <1>1 DEF EditsStay, Shows, Reads
  <2> QED BY <1>0, <2>1
<1>2. ASSUME NEW e \in Requests, EditsStay(e), Passes(e) \/ SendsChange(e)
      PROVE  LossInv'
  BY <1>0, <1>2 DEF EditsStay, Passes, SendsChange, SameEdit
<1>3. ASSUME NEW e \in Requests, EditsStay(e), Passes(e) \/ SendsChange(e)
      PROVE  LosesOnlyUnseen'
  <2>1. /\ SameEdit(e) /\ lost' \subseteq lost \cup ((Nat \ Zone!Ids(zoneEdit[e].seen)) \X {e})
        /\ stale' \subseteq stale \cup {e}
        /\ e \in stale' => zoneEdit[e].asks = "update" /\ zoneEdit[e].at \in Accepted
        /\ \A f \in Requests \ {e} : zoneEdit'[f] = zoneEdit[f]
    BY <1>3 DEF EditsStay, Passes, SendsChange, Accepted
  <2>2. \A f \in Requests : /\ zoneEdit'[f].seen = zoneEdit[f].seen
                            /\ zoneEdit'[f].page = zoneEdit[f].page
                            /\ zoneEdit'[f].rule = zoneEdit[f].rule
    BY <2>1 DEF SameEdit
  <2>3. ASSUME NEW d \in lost' PROVE d[1] \notin Zone!Ids(zoneEdit'[d[2]].seen)
    BY <1>0, <2>1, <2>2, <2>3
  <2>4. e \in stale' => zoneEdit[e].seen = zoneEdit[e].page
    BY <2>1 DEF PageInv
  <2>5. ASSUME NEW f \in stale'
        PROVE  Zone!TextOf(zoneEdit'[f].page, zoneEdit'[f].rule)
                 = Zone!TextOf(zoneEdit'[f].seen, zoneEdit'[f].rule)
    BY <1>0, <2>1, <2>2, <2>4, <2>5
  <2> QED BY <2>3, <2>5 DEF Zone!Ids, Zone!TextOf
<1>4. CASE UNCHANGED zoneVars
  BY <1>4 DEF zoneVars
<1> QED BY <1>1, <1>2, <1>3, <1>4, ZoneSteps

LEMMA ZoneNext == ZoneInv /\ [Zone!Next]_zoneVars => ZoneInv'
BY ZoneTypes, VersionNext, PageNext, LossNext DEF ZoneInv

\* The invariant of Zone Rules.
THEOREM ZoneInductive == Zone!Spec => []ZoneInv
<1>1. ZoneInv /\ [Zone!Next]_(Zone!vars) => ZoneInv'
  BY ZoneNext DEF Zone!vars, zoneVars
<1> QED BY <1>1, ZoneInit, PTL DEF Zone!Spec

\* A request on Zone Rules undoes no change that its person had seen, and an
\* update is of the rule as it was on the page.
THEOREM OnlyUnseenIsLost == Zone!Spec => []LosesOnlyUnseen
<1>1. ZoneInv => LosesOnlyUnseen
  BY DEF ZoneInv
<1> QED BY <1>1, ZoneInductive, PTL

-----------------------------------------------------------------------------
(* A Tunnel: its ingress *)

IngressRules == [host : Hosts \cup {""}, path : Paths,
                 service : Services \cup {Tunnel!NotFound, Configured},
                 settings : {"none", "some"}]

KeyOf(r) == <<r.host, r.path>>
IsRoute(r) ==
  /\ r \in IngressRules /\ ~Tunnel!IsCatchAll(r)
  /\ r.host \in Hosts /\ r.service \in (Services \cup {Configured}) \ {"none"}

\* The routes of an ingress, each of a hostname and path of its own.
Places(s) == {i \in DOMAIN s : ~Tunnel!IsCatchAll(s[i])}
Routes(s) == {s[i] : i \in Places(s)}
Distinct(s) == \A i, j \in Places(s) : KeyOf(s[i]) = KeyOf(s[j]) => i = j
GoodIngress(s) ==
  /\ s \in Seq(IngressRules)
  /\ Distinct(s)
  /\ \A i \in Places(s) : IsRoute(s[i])

NoRoute == [service |-> "none", settings |-> "none"]
Target(r) == [service |-> r.service, settings |-> r.settings]

\* A rule with a hostname is not the catch-all.
LEMMA CatchAll ==
  /\ Tunnel!DefaultCatchAll \in IngressRules /\ Tunnel!IsCatchAll(Tunnel!DefaultCatchAll)
  /\ \A r \in IngressRules : r.host \in Hosts => ~Tunnel!IsCatchAll(r)
BY AccountConstants
   DEF Tunnel!TunnelConstants, Tunnel!DefaultCatchAll, Tunnel!Rule, Tunnel!NoHost, Tunnel!NoPath,
       Tunnel!IsCatchAll, IngressRules, Tunnel!NotFound

\* Where a hostname and path are routed.
LEMMA RoutingIs ==
  ASSUME NEW s, GoodIngress(s), NEW h, NEW p
  PROVE  /\ Tunnel!Has(s, h, p) <=> \E r \in Routes(s) : KeyOf(r) = <<h, p>>
         /\ Tunnel!Has(s, h, p) => /\ Tunnel!Index(s, h, p) \in Places(s)
                                   /\ KeyOf(s[Tunnel!Index(s, h, p)]) = <<h, p>>
<1> DEFINE R == Tunnel!Routing(s, h, p)
<1>1. R = {i \in Places(s) : KeyOf(s[i]) = <<h, p>>}
  BY DEF Tunnel!Routing, Places, KeyOf
<1>2. Tunnel!Has(s, h, p) <=> R # {}
  BY DEF Tunnel!Has
<1>3. ASSUME NEW i \in R PROVE Tunnel!Index(s, h, p) = i
  <2>1. R = {i}
    BY <1>1, <1>3 DEF GoodIngress, Distinct
  <2>2. i \in Nat
    BY <1>1, <1>3 DEF Places, GoodIngress
  <2>3. Tunnel!Index(s, h, p) = CHOOSE k \in R : \A j \in R : k <= j
    BY DEF Tunnel!Index
  <2> HIDE DEF R
  <2>4. \A k \in R : (\A j \in R : k <= j) <=> k = i
    BY <2>1, <2>2
  <2> QED BY <2>1, <2>2, <2>3, <2>4
<1> QED BY <1>1, <1>2, <1>3 DEF Routes

\* The table of an ingress has its routes and no others.
LEMMA TableIs ==
  ASSUME NEW s, GoodIngress(s)
  PROVE  /\ Tunnel!TableOf(s) = [k \in Tunnel!Keys |-> Tunnel!TableOf(s)[k]]
         /\ \A k \in Tunnel!Keys :
              /\ \A r \in Routes(s) : KeyOf(r) = k => Tunnel!TableOf(s)[k] = Target(r)
              /\ (\A r \in Routes(s) : KeyOf(r) # k) => Tunnel!TableOf(s)[k] = NoRoute
<1>1. Tunnel!TableOf(s) = [k \in Tunnel!Keys |-> Tunnel!TableOf(s)[k]]
  BY DEF Tunnel!TableOf
<1>2. ASSUME NEW k \in Tunnel!Keys
      PROVE  /\ \A r \in Routes(s) : KeyOf(r) = k => Tunnel!TableOf(s)[k] = Target(r)
             /\ (\A r \in Routes(s) : KeyOf(r) # k) => Tunnel!TableOf(s)[k] = NoRoute
  <2>1. k = <<k[1], k[2]>>
    BY DEF Tunnel!Keys
  <2>2. Tunnel!TableOf(s)[k] = IF Tunnel!Has(s, k[1], k[2])
                               THEN Target(s[Tunnel!Index(s, k[1], k[2])]) ELSE NoRoute
    BY DEF Tunnel!TableOf, Target, NoRoute
  <2>3. ASSUME NEW r \in Routes(s), KeyOf(r) = k PROVE Tunnel!TableOf(s)[k] = Target(r)
    <3>1. PICK i \in Places(s) : r = s[i]
      BY <2>3 DEF Routes
    <3> DEFINE j == Tunnel!Index(s, k[1], k[2])
    <3>2. Tunnel!Has(s, k[1], k[2]) /\ j \in Places(s) /\ KeyOf(s[j]) = k
      BY <2>1, <2>3, RoutingIs
    <3>3. j = i
      BY <2>3, <3>1, <3>2 DEF GoodIngress, Distinct
    <3> QED BY <2>2, <3>1, <3>2, <3>3
  <2>4. ASSUME \A r \in Routes(s) : KeyOf(r) # k PROVE Tunnel!TableOf(s)[k] = NoRoute
    <3>1. ~Tunnel!Has(s, k[1], k[2])
      BY <2>1, <2>4, RoutingIs
    <3> QED BY <2>2, <3>1
  <2> QED BY <2>3, <2>4
<1> QED BY <1>1, <1>2

\* Adding a route.
LEMMA AddedRoute ==
  ASSUME NEW s, GoodIngress(s), NEW r, IsRoute(r), \A x \in Routes(s) : KeyOf(x) # KeyOf(r)
  PROVE  GoodIngress(Tunnel!WithRoute(s, r)) /\ Routes(Tunnel!WithRoute(s, r)) = Routes(s) \cup {r}
<1> DEFINE n == Len(s)
           t == Tunnel!WithRoute(s, r)
<1>1. s \in Seq(IngressRules) /\ n \in Nat /\ DOMAIN s = 1..n /\ r \in IngressRules
      /\ ~Tunnel!IsCatchAll(r)
  BY DEF GoodIngress, IsRoute
<1>2. CASE Tunnel!EndsWithCatchAll(s)
  <2>1. t = SubSeq(s, 1, n - 1) \o <<r, s[n]>> /\ n \in Nat \ {0} /\ Tunnel!IsCatchAll(s[n])
    BY <1>1, <1>2 DEF Tunnel!WithRoute, Tunnel!EndsWithCatchAll
  <2>2. /\ t \in Seq(IngressRules) /\ DOMAIN t = 1..(n + 1)
        /\ \A i \in 1..(n - 1) : t[i] = s[i]
        /\ t[n] = r /\ t[n + 1] = s[n]
    <3> DEFINE a == SubSeq(s, 1, n - 1)
               b == <<r, s[n]>>
    <3>1. a \in Seq(IngressRules) /\ Len(a) = n - 1 /\ \A i \in 1..(n - 1) : a[i] = s[i]
      BY <1>1, <2>1
    <3>2. b \in Seq(IngressRules) /\ Len(b) = 2 /\ b[1] = r /\ b[2] = s[n]
      BY <1>1, <2>1
    <3>3. t = a \o b
      BY <2>1
    <3> HIDE DEF a, b, t, n
    <3> QED BY <1>1, <2>1, <3>1, <3>2, <3>3
  <2> HIDE DEF t, n
  <2>3. Places(s) \subseteq 1..(n - 1)
    BY <1>1, <2>1 DEF Places
  <2>4. Places(t) = Places(s) \cup {n}
    BY <1>1, <2>1, <2>2, <2>3 DEF Places
  <2>5. \A i \in Places(s) : t[i] = s[i]
    BY <2>2, <2>3
  <2>6. Routes(t) = Routes(s) \cup {r}
    BY <2>2, <2>4, <2>5 DEF Routes
  <2>7. Distinct(t)
    BY <2>2, <2>4, <2>5 DEF GoodIngress, Distinct, Routes
  <2>8. \A i \in Places(t) : IsRoute(t[i])
    BY <2>2, <2>4, <2>5 DEF GoodIngress
  <2> QED BY <2>2, <2>6, <2>7, <2>8 DEF GoodIngress, t
<1>3. CASE ~Tunnel!EndsWithCatchAll(s)
  <2> DEFINE c == Tunnel!DefaultCatchAll
  <2>1. t = s \o <<r, c>> /\ c \in IngressRules /\ Tunnel!IsCatchAll(c)
    BY <1>3, CatchAll DEF Tunnel!WithRoute
  <2> HIDE DEF c
  <2>2. /\ t \in Seq(IngressRules) /\ DOMAIN t = 1..(n + 2)
        /\ \A i \in 1..n : t[i] = s[i]
        /\ t[n + 1] = r /\ t[n + 2] = c
    BY <1>1, <2>1
  <2> HIDE DEF t, n
  <2>3. Places(s) \subseteq 1..n
    BY <1>1 DEF Places
  <2>4. Places(t) = Places(s) \cup {n + 1}
    BY <1>1, <2>1, <2>2, <2>3 DEF Places
  <2>5. \A i \in Places(s) : t[i] = s[i]
    BY <2>2, <2>3
  <2>6. Routes(t) = Routes(s) \cup {r}
    BY <2>2, <2>4, <2>5 DEF Routes
  <2>7. Distinct(t)
    BY <2>2, <2>4, <2>5 DEF GoodIngress, Distinct, Routes
  <2>8. \A i \in Places(t) : IsRoute(t[i])
    BY <2>2, <2>4, <2>5 DEF GoodIngress
  <2> QED BY <2>2, <2>6, <2>7, <2>8 DEF GoodIngress, t
<1> QED BY <1>2, <1>3

\* A sequence without the element at place i.
LEMMA WithoutPlace ==
  ASSUME NEW S, NEW s \in Seq(S), NEW i \in 1..Len(s)
  PROVE  LET t == SubSeq(s, 1, i - 1) \o SubSeq(s, i + 1, Len(s))
         IN  /\ t \in Seq(S) /\ DOMAIN t = 1..(Len(s) - 1)
             /\ \A j \in 1..(i - 1) : t[j] = s[j]
             /\ \A j \in i..(Len(s) - 1) : t[j] = s[j + 1]
<1> DEFINE n == Len(s)
           a == SubSeq(s, 1, i - 1)
           b == SubSeq(s, i + 1, n)
<1>1. n \in Nat /\ i \in 1..n /\ \A j \in 1..n : s[j] \in S
  OBVIOUS
<1>2. a \in Seq(S) /\ Len(a) = i - 1 /\ \A j \in 1..(i - 1) : a[j] = s[j]
  BY <1>1, SubSeqProperties
<1>3. b \in Seq(S) /\ Len(b) = n - i /\ \A j \in 1..(n - i) : b[j] = s[j + i]
  <2>1. i + 1 \in Int /\ n \in Int /\ \A j \in (i + 1)..n : s[j] \in S
    BY <1>1
  <2> HIDE DEF n
  <2>2. /\ b \in Seq(S)
        /\ Len(b) = IF i + 1 <= n THEN n - (i + 1) + 1 ELSE 0
        /\ \A j \in 1..(n - (i + 1) + 1) : b[j] = s[(i + 1) + j - 1]
    BY <2>1, SubSeqProperties
  <2>3. n - (i + 1) + 1 = n - i
    BY <1>1
  <2> HIDE DEF b
  <2>4. \A j \in 1..(n - i) : (i + 1) + j - 1 = j + i
    BY <1>1
  <2> QED BY <1>1, <2>2, <2>3, <2>4
<1> HIDE DEF a, b, n
<1>4. a \o b \in Seq(S) /\ Len(a \o b) = n - 1 /\ n - 1 \in Nat
      /\ \A j \in 1..(n - 1) : (a \o b)[j] = IF j <= i - 1 THEN a[j] ELSE b[j - (i - 1)]
  <2>1. /\ a \o b \in Seq(S) /\ Len(a \o b) = Len(a) + Len(b)
        /\ \A j \in 1..Len(a) + Len(b) : (a \o b)[j] = IF j <= Len(a) THEN a[j] ELSE b[j - Len(a)]
    BY <1>2, <1>3, ConcatProperties
  <2>2. Len(a) + Len(b) = n - 1 /\ n - 1 \in Nat
    BY <1>1, <1>2, <1>3
  <2> QED BY <1>2, <2>1, <2>2
<1> DEFINE t == a \o b
<1>5. t \in Seq(S) /\ DOMAIN t = 1..(n - 1)
  BY <1>4
<1>6. \A j \in 1..(i - 1) : t[j] = s[j]
  BY <1>1, <1>2, <1>4
<1>7. \A j \in i..(n - 1) : t[j] = s[j + 1]
  <2>1. ASSUME NEW j \in i..(n - 1) PROVE t[j] = s[j + 1]
    <3>1. t[j] = b[j - (i - 1)] /\ j - (i - 1) \in 1..(n - i) /\ (j - (i - 1)) + i = j + 1
      BY <1>1, <1>4, <2>1
    <3> QED BY <1>3, <3>1
  <2> QED BY <2>1
<1> QED BY <1>5, <1>6, <1>7 DEF a, b, n

\* A rule with another path and service: its hostname and settings stay.
RuleTo(x, p, v) == [x EXCEPT !.path = p, !.service = v]
ChangeAt(s, i, p, v) == [s EXCEPT ![i] = RuleTo(s[i], p, v)]

\* Changing the route at place i.
LEMMA ChangedRoute ==
  ASSUME NEW s, GoodIngress(s), NEW i \in Places(s), NEW p \in Paths, NEW v \in Services,
         p = s[i].path \/ \A x \in Routes(s) : KeyOf(x) # <<s[i].host, p>>
  PROVE  /\ GoodIngress(ChangeAt(s, i, p, v))
         /\ Routes(ChangeAt(s, i, p, v)) = (Routes(s) \ {s[i]}) \cup {RuleTo(s[i], p, v)}
         /\ KeyOf(RuleTo(s[i], p, v)) = <<s[i].host, p>>
         /\ Target(RuleTo(s[i], p, v)) = [service |-> v, settings |-> s[i].settings]
<1> DEFINE r == RuleTo(s[i], p, v)
           t == ChangeAt(s, i, p, v)
<1>1. s \in Seq(IngressRules) /\ DOMAIN s = 1..Len(s) /\ i \in DOMAIN s /\ s[i] \in IngressRules
      /\ s[i].host \in Hosts
  BY DEF GoodIngress, Places, IsRoute
<1>2. r \in IngressRules /\ r.host = s[i].host /\ r.path = p /\ r.service = v
      /\ r.settings = s[i].settings
  <2> DEFINE x == s[i]
  <2>1. r = [x EXCEPT !.path = p, !.service = v] /\ x \in IngressRules
    BY <1>1 DEF RuleTo
  <2> HIDE DEF x, r
  <2>2. /\ r \in IngressRules /\ r.host = x.host /\ r.path = p /\ r.service = v
        /\ r.settings = x.settings
    BY <2>1 DEF IngressRules
  <2> QED BY <2>2 DEF x
<1>3. t = [s EXCEPT ![i] = r]
  BY DEF ChangeAt
<1> HIDE DEF r, t
<1>4. IsRoute(r)
  BY <1>1, <1>2, CatchAll, AccountConstants DEF IsRoute, Tunnel!TunnelConstants
<1>5. KeyOf(r) = <<s[i].host, p>> /\ Target(r) = [service |-> v, settings |-> s[i].settings]
  BY <1>2 DEF KeyOf, Target
<1>6. t \in Seq(IngressRules) /\ DOMAIN t = DOMAIN s /\ t[i] = r /\ \A j \in DOMAIN s \ {i} : t[j] = s[j]
  BY <1>1, <1>2, <1>3
<1>7. Places(t) = Places(s)
  BY <1>4, <1>6 DEF Places, IsRoute
<1>8. \A j \in Places(s) \ {i} : t[j] = s[j] /\ s[j] # s[i] /\ KeyOf(s[j]) # KeyOf(s[i])
  BY <1>6 DEF Places, GoodIngress, Distinct
<1>9. Routes(t) = (Routes(s) \ {s[i]}) \cup {r}
  BY <1>6, <1>7, <1>8 DEF Routes
<1>10. \A j \in Places(s) \ {i} : KeyOf(s[j]) # KeyOf(r)
  <2>1. CASE p = s[i].path
    BY <1>5, <1>8, <2>1 DEF KeyOf
  <2>2. CASE \A x \in Routes(s) : KeyOf(x) # <<s[i].host, p>>
    BY <1>5, <2>2 DEF Routes
  <2> QED BY <2>1, <2>2
<1>11. Distinct(t)
  BY <1>6, <1>7, <1>8, <1>10 DEF Distinct, GoodIngress
<1>12. \A j \in Places(t) : IsRoute(t[j])
  BY <1>4, <1>6, <1>7, <1>8 DEF GoodIngress
<1> QED BY <1>4, <1>5, <1>6, <1>9, <1>11, <1>12 DEF GoodIngress, t, r

\* Removing the route at place i.
LEMMA RemovedRoute ==
  ASSUME NEW s, GoodIngress(s), NEW i \in Places(s)
  PROVE  LET t == SubSeq(s, 1, i - 1) \o SubSeq(s, i + 1, Len(s))
         IN  GoodIngress(t) /\ Routes(t) = Routes(s) \ {s[i]}
<1> DEFINE n == Len(s)
           t == SubSeq(s, 1, i - 1) \o SubSeq(s, i + 1, n)
<1>1. s \in Seq(IngressRules) /\ n \in Nat /\ DOMAIN s = 1..n /\ i \in 1..n
  BY DEF GoodIngress, Places
<1>2. /\ t \in Seq(IngressRules) /\ DOMAIN t = 1..(n - 1)
      /\ \A j \in 1..(i - 1) : t[j] = s[j]
      /\ \A j \in i..(n - 1) : t[j] = s[j + 1]
  BY <1>1, WithoutPlace
<1> HIDE DEF t, n
<1> DEFINE at(j) == IF j < i THEN j ELSE j + 1
<1>3. \A j \in DOMAIN t : at(j) \in DOMAIN s \ {i} /\ t[j] = s[at(j)]
  BY <1>1, <1>2
<1>4. \A j \in DOMAIN s \ {i} : \E k \in DOMAIN t : at(k) = j
  <2>1. ASSUME NEW j \in DOMAIN s \ {i} PROVE \E k \in DOMAIN t : at(k) = j
    <3>1. CASE j < i
      BY <1>1, <1>2, <2>1, <3>1
    <3>2. CASE j > i
      <4>1. j - 1 \in DOMAIN t /\ at(j - 1) = j
        BY <1>1, <1>2, <2>1, <3>2
      <4> QED BY <4>1
    <3> QED BY <1>1, <2>1, <3>1, <3>2
  <2> QED BY <2>1
<1>5. \A j, k \in DOMAIN t : at(j) = at(k) => j = k
  BY <1>1, <1>2
<1> HIDE DEF at
<1>6. \A j \in Places(t) : at(j) \in Places(s) \ {i} /\ t[j] = s[at(j)]
  BY <1>3 DEF Places
<1>7. \A j \in Places(s) \ {i} : \E k \in Places(t) : at(k) = j
  BY <1>3, <1>4 DEF Places
<1>8. \A j \in Places(s) \ {i} : s[j] # s[i]
  BY DEF GoodIngress, Distinct
<1>9. Routes(t) = Routes(s) \ {s[i]}
  <2>1. Routes(t) \subseteq Routes(s) \ {s[i]}
    BY <1>6, <1>8 DEF Routes
  <2>2. Routes(s) \ {s[i]} \subseteq Routes(t)
    BY <1>6, <1>7 DEF Routes
  <2> QED BY <2>1, <2>2
<1>10. Distinct(t)
  <2>1. ASSUME NEW j \in Places(t), NEW k \in Places(t), KeyOf(t[j]) = KeyOf(t[k]) PROVE j = k
    <3>1. at(j) = at(k)
      BY <1>6, <2>1 DEF GoodIngress, Distinct
    <3> QED BY <1>5, <3>1 DEF Places
  <2> QED BY <2>1 DEF Distinct
<1>11. \A j \in Places(t) : IsRoute(t[j])
  BY <1>6 DEF GoodIngress
<1> QED BY <1>2, <1>9, <1>10, <1>11 DEF GoodIngress, t, n

\* Tables of ingresses that route a key alike.
LEMMA SameTarget ==
  ASSUME NEW s, GoodIngress(s), NEW t, GoodIngress(t), NEW k \in Tunnel!Keys,
         \A r : KeyOf(r) = k => (r \in Routes(t) <=> r \in Routes(s))
  PROVE  Tunnel!TableOf(t)[k] = Tunnel!TableOf(s)[k]
<1>1. CASE \E r \in Routes(s) : KeyOf(r) = k
  <2>1. PICK r \in Routes(s) : KeyOf(r) = k
    BY <1>1
  <2>2. r \in Routes(t)
    BY <2>1
  <2> QED BY <2>1, <2>2, TableIs
<1>2. CASE ~\E r \in Routes(s) : KeyOf(r) = k
  BY <1>2, TableIs
<1> QED BY <1>1, <1>2

\* A route has a key, and the table says where it goes.
LEMMA RouteKey ==
  ASSUME NEW s, GoodIngress(s), NEW r \in Routes(s)
  PROVE  /\ KeyOf(r) \in Tunnel!Keys /\ Tunnel!TableOf(s)[KeyOf(r)] = Target(r)
         /\ Target(r) # NoRoute
         /\ \A x \in Routes(s) : KeyOf(x) = KeyOf(r) => x = r
<1>1. IsRoute(r)
  BY DEF GoodIngress, Routes
<1>2. KeyOf(r) \in Tunnel!Keys
  BY <1>1 DEF IsRoute, IngressRules, KeyOf, Tunnel!Keys
<1>3. Tunnel!TableOf(s)[KeyOf(r)] = Target(r)
  BY <1>2, TableIs
<1>4. Target(r) # NoRoute
  <2>1. Target(r).service # NoRoute.service
    BY <1>1 DEF IsRoute, Target, NoRoute
  <2> QED BY <2>1
<1>5. \A x \in Routes(s) : KeyOf(x) = KeyOf(r) => x = r
  BY DEF GoodIngress, Distinct, Routes
<1> QED BY <1>2, <1>3, <1>4, <1>5

\* A key without a route.
LEMMA Unrouted ==
  ASSUME NEW s, GoodIngress(s), NEW h \in Hosts, NEW p \in Paths, ~Tunnel!Has(s, h, p)
  PROVE  Tunnel!TableOf(s)[<<h, p>>] = NoRoute /\ \A x \in Routes(s) : KeyOf(x) # <<h, p>>
<1>1. \A x \in Routes(s) : KeyOf(x) # <<h, p>>
  BY RoutingIs
<1>2. <<h, p>> \in Tunnel!Keys
  BY DEF Tunnel!Keys
<1> QED BY <1>1, <1>2, TableIs

\* The three changes of a configuration, as steps of its table.
LEMMA AddStep ==
  ASSUME NEW s, GoodIngress(s), NEW h \in Hosts, NEW p \in Paths, NEW v \in Services,
         ~Tunnel!Has(s, h, p)
  PROVE  LET t == Tunnel!WithRoute(s, Tunnel!Rule(h, p, v, "none"))
         IN  /\ GoodIngress(t)
             /\ Tunnel!TableOf(s)[<<h, p>>] = NoRoute
             /\ Tunnel!TableOf(t) =
                  [Tunnel!TableOf(s) EXCEPT ![<<h, p>>] = [service |-> v, settings |-> "none"]]
<1> DEFINE r == Tunnel!Rule(h, p, v, "none")
           t == Tunnel!WithRoute(s, r)
           k == <<h, p>>
           T == Tunnel!TableOf(s)
           U == Tunnel!TableOf(t)
<1>1. IsRoute(r) /\ KeyOf(r) = k /\ Target(r) = [service |-> v, settings |-> "none"]
  BY CatchAll, AccountConstants
     DEF Tunnel!TunnelConstants, Tunnel!Rule, IsRoute, IngressRules, KeyOf, Target
<1>2. T[k] = NoRoute /\ \A x \in Routes(s) : KeyOf(x) # k
  BY Unrouted
<1> HIDE DEF r
<1>3. GoodIngress(t) /\ Routes(t) = Routes(s) \cup {r}
  BY <1>1, <1>2, AddedRoute
<1> HIDE DEF t
<1>4. U[k] = Target(r) /\ k \in Tunnel!Keys
  BY <1>1, <1>3, RouteKey
<1>5. \A j \in Tunnel!Keys \ {k} : U[j] = T[j]
  BY <1>1, <1>3, SameTarget
<1>6. U = [j \in Tunnel!Keys |-> U[j]] /\ T = [j \in Tunnel!Keys |-> T[j]]
  BY <1>3, TableIs
<1> HIDE DEF T, U, k
<1>7. U = [T EXCEPT ![k] = Target(r)]
  BY <1>4, <1>5, <1>6
<1> QED BY <1>1, <1>2, <1>3, <1>7 DEF T, U, k, t, r

LEMMA RemoveStep ==
  ASSUME NEW s, GoodIngress(s), NEW h \in Hosts, NEW p \in Paths, Tunnel!Has(s, h, p)
  PROVE  LET t == Tunnel!WithoutRoute(s, h, p)
         IN  /\ GoodIngress(t)
             /\ Tunnel!TableOf(s)[<<h, p>>] # NoRoute
             /\ Tunnel!TableOf(t) = [Tunnel!TableOf(s) EXCEPT ![<<h, p>>] = NoRoute]
<1> DEFINE i == Tunnel!Index(s, h, p)
           t == Tunnel!WithoutRoute(s, h, p)
           k == <<h, p>>
           T == Tunnel!TableOf(s)
           U == Tunnel!TableOf(t)
<1>1. i \in Places(s) /\ KeyOf(s[i]) = k /\ s[i] \in Routes(s)
  BY RoutingIs DEF Routes
<1>2. t = SubSeq(s, 1, i - 1) \o SubSeq(s, i + 1, Len(s))
  BY DEF Tunnel!WithoutRoute
<1> HIDE DEF i, t
<1>3. GoodIngress(t) /\ Routes(t) = Routes(s) \ {s[i]}
  BY <1>1, <1>2, RemovedRoute
<1>4. T[k] # NoRoute /\ k \in Tunnel!Keys /\ \A x \in Routes(s) : KeyOf(x) = k => x = s[i]
  BY <1>1, RouteKey
<1>5. U[k] = NoRoute
  BY <1>3, <1>4, TableIs
<1>6. \A j \in Tunnel!Keys \ {k} : U[j] = T[j]
  BY <1>1, <1>3, SameTarget
<1>7. U = [j \in Tunnel!Keys |-> U[j]] /\ T = [j \in Tunnel!Keys |-> T[j]]
  BY <1>3, TableIs
<1> HIDE DEF T, U, k
<1>8. U = [T EXCEPT ![k] = NoRoute]
  BY <1>4, <1>5, <1>6, <1>7
<1> QED BY <1>3, <1>4, <1>8 DEF T, U, k, t

LEMMA ChangeStep ==
  ASSUME NEW s, GoodIngress(s), NEW h \in Hosts, NEW p \in Paths, NEW q \in Paths,
         NEW v \in Services, Tunnel!Has(s, h, p), q = p \/ ~Tunnel!Has(s, h, q)
  PROVE  LET t == Tunnel!WithRouteChanged(s, h, p, q, v)
             T == Tunnel!TableOf(s)
         IN  /\ GoodIngress(t)
             /\ T[<<h, p>>] # NoRoute
             /\ <<h, q>> = <<h, p>> \/ T[<<h, q>>] = NoRoute
             /\ Tunnel!TableOf(t) = [j \in Tunnel!Keys |->
                  IF j = <<h, q>> THEN [service |-> v, settings |-> T[<<h, p>>].settings]
                  ELSE IF j = <<h, p>> THEN NoRoute ELSE T[j]]
<1> DEFINE i == Tunnel!Index(s, h, p)
           t == Tunnel!WithRouteChanged(s, h, p, q, v)
           r == RuleTo(s[i], q, v)
           k == <<h, p>>
           to == <<h, q>>
           T == Tunnel!TableOf(s)
           U == Tunnel!TableOf(t)
<1>1. i \in Places(s) /\ KeyOf(s[i]) = k /\ s[i] \in Routes(s)
  BY RoutingIs DEF Routes
<1>2. t = ChangeAt(s, i, q, v)
  <2>1. t = [s EXCEPT ![i].path = q, ![i].service = v]
    BY DEF Tunnel!WithRouteChanged
  <2>2. s \in Seq(IngressRules) /\ i \in DOMAIN s
    BY <1>1 DEF GoodIngress, Places
  <2> HIDE DEF i
  <2>3. [s EXCEPT ![i].path = q, ![i].service = v] = ChangeAt(s, i, q, v)
    BY <2>2 DEF RuleTo, ChangeAt
  <2> QED BY <2>1, <2>3
<1>3. s[i].host = h /\ s[i].path = p
  BY <1>1 DEF KeyOf
<1>4. q # p => T[to] = NoRoute /\ \A x \in Routes(s) : KeyOf(x) # to
  BY Unrouted
<1>5. q = s[i].path \/ \A x \in Routes(s) : KeyOf(x) # <<s[i].host, q>>
  BY <1>3, <1>4
<1> HIDE DEF i
<1>6. /\ GoodIngress(t) /\ Routes(t) = (Routes(s) \ {s[i]}) \cup {r}
      /\ KeyOf(r) = to /\ Target(r) = [service |-> v, settings |-> s[i].settings]
  <2>1. /\ GoodIngress(ChangeAt(s, i, q, v))
        /\ Routes(ChangeAt(s, i, q, v)) = (Routes(s) \ {s[i]}) \cup {RuleTo(s[i], q, v)}
        /\ KeyOf(RuleTo(s[i], q, v)) = <<s[i].host, q>>
        /\ Target(RuleTo(s[i], q, v)) = [service |-> v, settings |-> s[i].settings]
    BY <1>1, <1>5, ChangedRoute
  <2> QED BY <1>2, <1>3, <2>1
<1> HIDE DEF t, r
<1>7. /\ T[k] # NoRoute /\ k \in Tunnel!Keys /\ T[k] = Target(s[i])
      /\ \A x \in Routes(s) : KeyOf(x) = k => x = s[i]
  BY <1>1, RouteKey
<1>8. U[to] = Target(r) /\ T[k].settings = s[i].settings
  BY <1>6, <1>7, RouteKey DEF Target
<1>9. to # k => U[k] = NoRoute
  BY <1>6, <1>7, TableIs
<1>10. \A j \in Tunnel!Keys \ {k, to} : U[j] = T[j]
  BY <1>1, <1>6, SameTarget
<1>11. U = [j \in Tunnel!Keys |-> U[j]]
  BY <1>6, TableIs
<1> HIDE DEF T, U, k, to
<1>12. U = [j \in Tunnel!Keys |->
              IF j = to THEN [service |-> v, settings |-> T[k].settings]
              ELSE IF j = k THEN NoRoute ELSE T[j]]
  BY <1>6, <1>8, <1>9, <1>10, <1>11
<1>13. to = k \/ T[to] = NoRoute
  BY <1>4 DEF k, to
<1> QED BY <1>6, <1>7, <1>12, <1>13 DEF T, U, k, to, t

Changing == {"locked", "read", "put"}

\* Who changes the configuration holds the lock.
TunnelLockInv == \A e \in TunnelEditors : tunnelEdit[e].at \in Changing => tunnelHolder = e

\* What was read is still the configuration when the change is sent.
ConfigReadInv ==
  \A e \in TunnelEditors : tunnelEdit[e].at = "read" =>
    tunnelEdit[e].read = ingress /\ tunnelEdit[e].asks # "drop"

\* What an edit asks for has been checked.
EditInv ==
  \A e \in TunnelEditors : tunnelEdit[e].at # "idle" =>
    tunnelEdit[e].key \in Tunnel!Keys /\ tunnelEdit[e].service \in Services

\* While nobody else changes a record, the one to be deleted is the Tunnel's.
DeleteInv ==
  changes = 0 =>
    \A e \in TunnelEditors : tunnelEdit[e].at = "deleting" => dns[Tunnel!Host(e)] # "other"

TunnelInv == /\ Tunnel!TypeOK /\ GoodIngress(ingress)
             /\ TunnelLockInv /\ ConfigReadInv /\ EditInv /\ DeleteInv

\* A handler moves, and the others stay.
EditMoves(e) ==
  /\ tunnelEdit' \in [TunnelEditors -> Tunnel!Edits]
  /\ \A f \in TunnelEditors \ {e} : tunnelEdit'[f] = tunnelEdit[f]
  /\ tunnelEdit[e].at # "idle"
  /\ tunnelEdit'[e].key = tunnelEdit[e].key /\ tunnelEdit'[e].service = tunnelEdit[e].service

\* It takes the lock to change the configuration, and gives it back.
LockMoves(e) ==
  \/ /\ tunnelHolder = "nobody" /\ tunnelHolder' = e
     /\ tunnelEdit[e].at = "opened" /\ tunnelEdit'[e].at = "locked"
  \/ /\ tunnelEdit[e].at \in Changing /\ tunnelHolder' = "nobody"
     /\ tunnelEdit'[e].at \notin Changing
  \/ /\ tunnelHolder' = tunnelHolder
     /\ tunnelEdit'[e].at \in Changing => tunnelEdit[e].at \in Changing

\* It changes one route of what it read, or none.
RouteMoves(e) ==
  \/ /\ ingress' = ingress
     /\ tunnelEdit'[e].at = "read" =>
          tunnelEdit'[e].read = ingress /\ tunnelEdit'[e].asks # "drop"
  \/ /\ tunnelEdit[e].at = "read" /\ tunnelEdit'[e].at # "read"
     /\ Tunnel!Possible(e) /\ ingress' = Tunnel!NextConfig(e)

\* It changes its hostname's record, or none.
RecordMoves(e) ==
  /\ changes' = changes
  /\ \/ dns' = dns /\ (tunnelEdit'[e].at = "deleting" => dns[Tunnel!Host(e)] = "tunnel")
     \/ /\ \/ dns' = [dns EXCEPT ![Tunnel!Host(e)] = "tunnel"] /\ dns[Tunnel!Host(e)] = "none"
           \/ dns' = [dns EXCEPT ![Tunnel!Host(e)] = "none"] /\ tunnelEdit[e].at = "deleting"
        /\ tunnelEdit'[e].at = "done"

HandlerMoves(e) ==
  /\ EditMoves(e) /\ LockMoves(e) /\ RouteMoves(e) /\ RecordMoves(e)
  /\ tunnel' \in {"live", "deleted"}

\* One change of a configuration is one step of its table.
LEMMA ConfigStep ==
  ASSUME TunnelInv, NEW e \in TunnelEditors, tunnelEdit[e].at = "read", Tunnel!Possible(e)
  PROVE  /\ GoodIngress(Tunnel!NextConfig(e))
         /\ ingress' = Tunnel!NextConfig(e) => Tunnel!Table!Next
<1> DEFINE x == tunnelEdit[e]
           h == x.key[1]
           p == x.key[2]
           k == <<h, p>>
           v == x.service
           q == x.path
           s == ingress
           c == Tunnel!NextConfig(e)
           T == Tunnel!TableOf(s)
           U == Tunnel!TableOf(c)
<1>1. x \in Tunnel!Edits /\ x.read = s /\ GoodIngress(s)
  BY DEF TunnelInv, Tunnel!TypeOK, ConfigReadInv
<1>2. h \in Hosts /\ p \in Paths /\ q \in Paths /\ v \in Services
      /\ v \in Services \cup {Configured} /\ k \in Tunnel!Keys
      /\ x.asks \in Tunnel!Asks
  BY <1>1 DEF TunnelInv, EditInv, Tunnel!Keys, Tunnel!Edits
<1>3. Tunnel!Host(e) = h /\ Tunnel!Path(e) = p
  BY DEF Tunnel!Host, Tunnel!Path
<1>4. x.asks \in {"add", "change", "delete"}
  BY <1>2 DEF TunnelInv, ConfigReadInv, Tunnel!Asks
<1>5. CASE x.asks = "add"
  <2>1. ~Tunnel!Has(s, h, p) /\ c = Tunnel!WithRoute(s, Tunnel!Rule(h, p, v, "none"))
    BY <1>1, <1>3, <1>5 DEF Tunnel!Possible, Tunnel!NextConfig
  <2> HIDE DEF x, h, p, q, v, s, c
  <2>2. /\ GoodIngress(c) /\ T[k] = NoRoute
        /\ U = [T EXCEPT ![k] = [service |-> v, settings |-> "none"]]
    BY <1>1, <1>2, <2>1, AddStep
  <2>3. ingress' = c => Tunnel!Table!Add(k, v)
    BY <2>2 DEF Tunnel!Table!Add, Tunnel!Table!Routed, Tunnel!Table!NoRoute, NoRoute, s
  <2> QED BY <1>2, <2>2, <2>3 DEF Tunnel!Table!Next, c
<1>6. CASE x.asks = "delete"
  <2>1. Tunnel!Has(s, h, p) /\ c = Tunnel!WithoutRoute(s, h, p)
    BY <1>1, <1>3, <1>6 DEF Tunnel!Possible, Tunnel!NextConfig
  <2> HIDE DEF x, h, p, q, v, s, c
  <2>2. GoodIngress(c) /\ T[k] # NoRoute /\ U = [T EXCEPT ![k] = NoRoute]
    BY <1>1, <1>2, <2>1, RemoveStep
  <2>3. ingress' = c => Tunnel!Table!Remove(k)
    BY <2>2 DEF Tunnel!Table!Remove, Tunnel!Table!Routed, Tunnel!Table!NoRoute, NoRoute, s
  <2> QED BY <1>2, <2>2, <2>3 DEF Tunnel!Table!Next, c
<1>7. CASE x.asks = "change"
  <2>1. /\ Tunnel!Has(s, h, p) /\ (q = p \/ ~Tunnel!Has(s, h, q))
        /\ c = Tunnel!WithRouteChanged(s, h, p, q, v)
    BY <1>1, <1>3, <1>7 DEF Tunnel!Possible, Tunnel!NextConfig
  <2> DEFINE to == <<h, q>>
  <2> HIDE DEF x, h, p, q, v, s, c
  <2>2. /\ GoodIngress(c) /\ T[k] # NoRoute /\ (to = k \/ T[to] = NoRoute)
        /\ U = [j \in Tunnel!Keys |->
                  IF j = to THEN [service |-> v, settings |-> T[k].settings]
                  ELSE IF j = k THEN NoRoute ELSE T[j]]
    BY <1>1, <1>2, <2>1, ChangeStep
  <2>3. ingress' = c => Tunnel!Table!Change(k, to, v)
    BY <2>2 DEF Tunnel!Table!Change, Tunnel!Table!Routed, Tunnel!Table!NoRoute, NoRoute, s
  <2>4. to \in Tunnel!Keys
    BY <1>2 DEF Tunnel!Keys
  <2> QED BY <1>2, <2>2, <2>3, <2>4 DEF Tunnel!Table!Next, c
<1> QED BY <1>4, <1>5, <1>6, <1>7

\* Each action of a handler.
LEMMA HandlerSteps ==
  ASSUME TunnelInv, NEW e \in TunnelEditors, Tunnel!Handle(e)
  PROVE  HandlerMoves(e)
<1> DEFINE x == tunnelEdit[e]
           y == tunnelEdit'[e]
<1>1. /\ tunnelEdit \in [TunnelEditors -> Tunnel!Edits] /\ x \in Tunnel!Edits
      /\ tunnel \in {"live", "deleted"} /\ GoodIngress(ingress)
  BY DEF TunnelInv, Tunnel!TypeOK
<1>2. \A s : GoodIngress(s) => s \in Tunnel!Ingresses
  BY DEF GoodIngress, Tunnel!Ingresses, IngressRules, Tunnel!NoHost
<1> USE DEF HandlerMoves, EditMoves, LockMoves, RouteMoves, RecordMoves, Changing,
            Tunnel!external, Tunnel!At, Tunnel!Goes
<1>3. CASE Tunnel!Lock(e)
  BY <1>1, <1>3 DEF Tunnel!Lock, Tunnel!Edits, Tunnel!Nobody
<1>4. CASE Tunnel!ReadConfig(e)
  BY <1>1, <1>2, <1>4 DEF Tunnel!ReadConfig, Tunnel!Edits
<1>5. CASE Tunnel!Refuse(e)
  BY <1>1, <1>5 DEF Tunnel!Refuse, Tunnel!Edits, Tunnel!Nobody
<1>6. CASE Tunnel!PutConfig(e)
  <2> DEFINE c == Tunnel!NextConfig(e)
  <2>1. /\ x.at = "read" /\ Tunnel!Possible(e) /\ ingress' = c
        /\ tunnelEdit' = [tunnelEdit EXCEPT ![e].at = "put", ![e].back = c]
        /\ UNCHANGED <<tunnel, dns, tunnelHolder, changes>>
    BY <1>6 DEF Tunnel!PutConfig
  <2>2. c \in Tunnel!Ingresses
    BY <1>2, <2>1, ConfigStep
  <2> HIDE DEF c
  <2>3. EditMoves(e) /\ y.at = "put"
    BY <1>1, <2>1, <2>2 DEF Tunnel!Edits
  <2> QED BY <1>1, <2>1, <2>3 DEF c
<1>7. CASE Tunnel!PutUnconfirmed(e)
  BY <1>1, <1>7 DEF Tunnel!PutUnconfirmed, Tunnel!Edits, Tunnel!Nobody
<1>8. CASE Tunnel!Unlock(e)
  <2>1. /\ x.at = "put" /\ tunnelHolder' = "nobody" /\ UNCHANGED <<ingress, tunnel, dns, changes>>
        /\ \E a \in {"done", "pointing", "unlinking"}, r \in {"kept", x.result} :
             tunnelEdit' = [tunnelEdit EXCEPT ![e].at = a, ![e].result = r]
    BY <1>8 DEF Tunnel!Unlock, Tunnel!Nobody
  <2>2. PICK a \in {"done", "pointing", "unlinking"}, r \in {"kept", x.result} :
             tunnelEdit' = [tunnelEdit EXCEPT ![e].at = a, ![e].result = r]
    BY <2>1
  <2>3. r \in Tunnel!Results
    BY <1>1, <2>2 DEF Tunnel!Edits, Tunnel!Results
  <2>4. EditMoves(e) /\ y.at = a
    BY <1>1, <2>1, <2>2, <2>3 DEF Tunnel!Edits
  <2> QED BY <1>1, <2>1, <2>2, <2>4
<1>9. CASE Tunnel!DropTunnel(e)
  BY <1>1, <1>9 DEF Tunnel!DropTunnel, Tunnel!Edits, Tunnel!Nobody
<1>10. CASE Tunnel!LookBeforeCreate(e)
  <2>1. /\ x.at = "pointing" /\ UNCHANGED <<ingress, tunnel, dns, tunnelHolder, changes>>
        /\ \/ tunnelEdit' = [tunnelEdit EXCEPT ![e].at = "creating"]
           \/ \E r \in {"exists", "conflict"} :
                tunnelEdit' = [tunnelEdit EXCEPT ![e].at = "done", ![e].result = r]
    <3>1. dns[Tunnel!Host(e)] \in Tunnel!Records
      <4>1. x.at = "pointing"
        BY <1>10 DEF Tunnel!LookBeforeCreate
      <4>2. Tunnel!Host(e) \in Hosts
        BY <1>1, <4>1 DEF TunnelInv, EditInv, Tunnel!Keys, Tunnel!Host
      <4> QED BY <4>2 DEF TunnelInv, Tunnel!TypeOK
    <3> QED
      BY <1>10, <3>1 DEF Tunnel!LookBeforeCreate, Tunnel!Ends, Tunnel!Records
  <2> QED BY <1>1, <2>1 DEF Tunnel!Edits, Tunnel!Results
<1>11. CASE Tunnel!CreateCNAME(e)
  BY <1>1, <1>11 DEF Tunnel!CreateCNAME, Tunnel!Ends, Tunnel!Edits, Tunnel!Results
<1>12. CASE Tunnel!LookBeforeDelete(e)
  BY <1>1, <1>12 DEF Tunnel!LookBeforeDelete, Tunnel!Ends, Tunnel!Edits, Tunnel!Results
<1>13. CASE Tunnel!DeleteCNAME(e)
  BY <1>1, <1>13 DEF Tunnel!DeleteCNAME, Tunnel!Ends, Tunnel!Edits, Tunnel!Results
<1>14. CASE Tunnel!RecordFails(e)
  BY <1>1, <1>14 DEF Tunnel!RecordFails, Tunnel!Ends, Tunnel!Edits, Tunnel!Results
<1> QED
  BY <1>3, <1>4, <1>5, <1>6, <1>7, <1>8, <1>9, <1>10, <1>11, <1>12, <1>13, <1>14
     DEF Tunnel!Handle

\* A handler that moves keeps the invariant, and the promises.
LEMMA TunnelHandled ==
  ASSUME TunnelInv, NEW e \in TunnelEditors, HandlerMoves(e)
  PROVE  /\ TunnelInv'
         /\ Tunnel!Table!Next \/ UNCHANGED Tunnel!TableOf(ingress)
         /\ changes' = 0 => \A h \in Hosts : dns[h] = "other" => dns'[h] = "other"
<1> DEFINE x == tunnelEdit[e]
           y == tunnelEdit'[e]
<1>1. /\ GoodIngress(ingress')
      /\ \/ ingress' = ingress /\ (y.at = "read" => y.read = ingress /\ y.asks # "drop")
         \/ x.at = "read" /\ y.at # "read" /\ Tunnel!Table!Next
  BY ConfigStep DEF HandlerMoves, RouteMoves, TunnelInv
<1>2. Tunnel!Host(e) \in Hosts /\ dns \in [Hosts -> Tunnel!Records] /\ x.key \in Tunnel!Keys
      /\ x.service \in Services
  BY DEF HandlerMoves, EditMoves, TunnelInv, EditInv, Tunnel!Keys, Tunnel!Host, Tunnel!TypeOK
<1>3. /\ tunnelEdit' \in [TunnelEditors -> Tunnel!Edits]
      /\ \A f \in TunnelEditors \ {e} : tunnelEdit'[f] = tunnelEdit[f]
      /\ \A f \in TunnelEditors : tunnelEdit'[f].at # "idle" => tunnelEdit'[f].key = tunnelEdit[f].key
      /\ x.at # "idle" /\ y.key = x.key /\ y.service = x.service
      /\ tunnel' \in {"live", "deleted"}
  BY DEF HandlerMoves, EditMoves
<1>4. /\ dns' \in [Hosts -> Tunnel!Records] /\ changes' = changes
      /\ changes' = 0 => \A h \in Hosts : dns[h] = "other" => dns'[h] = "other"
      /\ changes' = 0 => \A h \in Hosts : dns[h] # "other" => dns'[h] # "other"
      /\ y.at = "deleting" => dns'[Tunnel!Host(e)] # "other"
  BY <1>2, <1>3 DEF HandlerMoves, RecordMoves, TunnelInv, DeleteInv, Tunnel!Records
<1>5. Tunnel!TypeOK'
  <2>1. ingress' \in Tunnel!Ingresses
    BY <1>1 DEF GoodIngress, Tunnel!Ingresses, IngressRules, Tunnel!NoHost
  <2>2. tunnelHolder' \in TunnelEditors \cup {"nobody"} /\ changes' \in 0..MaxDNS
    BY <1>4 DEF HandlerMoves, LockMoves, TunnelInv, Tunnel!TypeOK, Tunnel!Nobody
  <2> QED BY <1>3, <1>4, <2>1, <2>2 DEF Tunnel!TypeOK, Tunnel!Nobody
<1>6. TunnelLockInv'
  BY <1>3, AccountConstants DEF HandlerMoves, LockMoves, TunnelInv, TunnelLockInv, Changing, Tunnel!TunnelConstants
<1>7. ConfigReadInv'
  BY <1>1, <1>3 DEF TunnelInv, ConfigReadInv, TunnelLockInv, Changing
<1>8. EditInv'
  BY <1>2, <1>3 DEF TunnelInv, EditInv
<1>9. DeleteInv'
  <2> SUFFICES ASSUME changes' = 0, NEW f \in TunnelEditors, tunnelEdit'[f].at = "deleting"
               PROVE  dns'[tunnelEdit'[f].key[1]] # "other"
    BY DEF DeleteInv, Tunnel!Host
  <2>1. CASE f = e
    BY <1>3, <1>4, <2>1 DEF Tunnel!Host
  <2>2. CASE f # e
    <3>1. dns[tunnelEdit[f].key[1]] # "other" /\ tunnelEdit[f].key[1] \in Hosts
      BY <1>3, <1>4, <2>2 DEF TunnelInv, DeleteInv, EditInv, Tunnel!Host, Tunnel!Keys
    <3> QED BY <1>3, <1>4, <2>2, <3>1
  <2> QED BY <2>1, <2>2
<1>10. Tunnel!Table!Next \/ UNCHANGED Tunnel!TableOf(ingress)
  BY <1>1
<1> QED BY <1>1, <1>4, <1>5, <1>6, <1>7, <1>8, <1>9, <1>10 DEF TunnelInv

\* The paths in some order, each once.
LEMMA PathList ==
  LET s == Tunnel!SetToSeq(Paths)
  IN  /\ s \in Seq(Paths)
      /\ \A i, j \in DOMAIN s : s[i] = s[j] => i = j
<1> DEFINE n == Cardinality(Paths)
           Inj(f) == \A i, j \in DOMAIN f : f[i] = f[j] => i = j
           s == Tunnel!SetToSeq(Paths)
<1>1. IsFiniteSet(Paths)
  BY AccountConstants, SameCount DEF Tunnel!TunnelConstants
<1>2. n \in Nat /\ ExistsBijection(1..n, Paths)
  BY <1>1, FS_CardinalityType
<1>3. \E f \in [1..n -> Paths] : Inj(f)
  BY <1>2 DEF ExistsBijection, Bijection, Injection, IsInjective
<1>4. \A f : Tunnel!IsInjective(f) <=> Inj(f)
  BY DEF Tunnel!IsInjective
<1>5. s = CHOOSE f \in [1..n -> Paths] : Tunnel!IsInjective(f)
  <2>1. s = CHOOSE f \in [1..Tunnel!Cardinality(Paths) -> Paths] : Tunnel!IsInjective(f)
    BY DEF Tunnel!SetToSeq
  <2>2. Tunnel!Cardinality(Paths) = n
    BY SameCount
  <2> QED BY <2>1, <2>2, Zenon
<1> HIDE DEF Inj, s, n
<1>6. s \in [1..n -> Paths] /\ Inj(s)
  BY <1>3, <1>4, <1>5
<1>7. s \in Seq(Paths)
  <2>1. s \in UNION {[1..m -> Paths] : m \in Nat}
    BY <1>2, <1>6
  <2> QED BY <2>1, SeqDef, Zenon
<1> QED BY <1>6, <1>7 DEF Inj, s

\* The routes made elsewhere.
LEMMA FirstIngress ==
  /\ GoodIngress(<<>>)
  /\ Configured # "none" => GoodIngress(Append(Tunnel!FirstRoutes, Tunnel!DefaultCatchAll))
<1>1. GoodIngress(<<>>)
  BY DEF GoodIngress, Distinct, Places
<1>2. ASSUME Configured # "none"
      PROVE  GoodIngress(Append(Tunnel!FirstRoutes, Tunnel!DefaultCatchAll))
  <2> DEFINE host == CHOOSE h \in Hosts : TRUE
             paths == Tunnel!SetToSeq(Paths)
             s == Tunnel!FirstRoutes
             c == Tunnel!DefaultCatchAll
             t == Append(s, c)
             n == Len(paths)
  <2>1. paths \in Seq(Paths) /\ n \in Nat /\ DOMAIN paths = 1..n
        /\ \A i, j \in 1..n : paths[i] = paths[j] => i = j
    BY PathList
  <2>2. host \in Hosts
    BY <1>2, AccountConstants DEF Tunnel!TunnelConstants
  <2>3. s = [i \in 1..n |-> Tunnel!Rule(host, paths[i], Configured, "some")]
    BY <2>1, Zenon DEF Tunnel!FirstRoutes
  <2> HIDE DEF paths, host, n
  <2>4. ASSUME NEW i \in 1..n
        PROVE  Tunnel!Rule(host, paths[i], Configured, "some") \in IngressRules
    <3>1. paths[i] \in Paths
      BY <2>1
    <3> QED BY <2>2, <3>1 DEF Tunnel!Rule, IngressRules
  <2> HIDE DEF s, c
  <2>5. s \in Seq(IngressRules) /\ Len(s) = n
    BY <2>1, <2>3, <2>4
  <2>6. \A i \in 1..n : s[i].host = host /\ s[i].path = paths[i] /\ s[i].service = Configured
    BY <2>3 DEF Tunnel!Rule
  <2>7. c \in IngressRules /\ Tunnel!IsCatchAll(c)
    BY CatchAll DEF c
  <2>8. /\ t \in Seq(IngressRules) /\ DOMAIN t = 1..(n + 1) /\ t[n + 1] = c
        /\ \A i \in 1..n : t[i] = s[i]
    BY <2>1, <2>5, <2>7
  <2> HIDE DEF t
  <2>9. Places(t) \subseteq 1..n
    BY <2>1, <2>7, <2>8 DEF Places
  <2>10. \A i \in Places(t) : t[i].host = host /\ t[i].path = paths[i] /\ t[i].service = Configured
    BY <2>6, <2>8, <2>9
  <2>11. Distinct(t)
    BY <2>1, <2>9, <2>10 DEF Distinct, KeyOf
  <2>12. \A i \in Places(t) : IsRoute(t[i])
    BY <1>2, <2>1, <2>2, <2>8, <2>9, <2>10 DEF Places, IsRoute
  <2> QED BY <2>8, <2>11, <2>12 DEF GoodIngress, t, s, c
<1> QED BY <1>1, <1>2

\* A request that is opened.
LEMMA AskedType ==
  ASSUME NEW asks \in Tunnel!Asks, NEW key \in (Hosts \cup {""}) \X Paths, NEW path \in Paths,
         NEW service \in Services \cup {"none"}, NEW record \in BOOLEAN
  PROVE  LET y == Tunnel!Asked(asks, key, path, service, record)
         IN  /\ y \in Tunnel!Edits
             /\ y.at = "opened" /\ y.key = key /\ y.service = service
<1>1. <<>> \in Tunnel!Ingresses
  BY EmptySeq, Zenon DEF Tunnel!Ingresses
<1> QED
  BY <1>1 DEF Tunnel!Asked, Tunnel!Edits, Tunnel!NoHost, Tunnel!Results

LEMMA IdleEdit == Tunnel!NoEdit \in Tunnel!Edits /\ Tunnel!NoEdit.at = "idle"
<1> DEFINE y == Tunnel!Asked("drop", <<Tunnel!NoHost, Tunnel!NoPath>>, Tunnel!NoPath, "none", FALSE)
<1>1. Tunnel!NoHost = "" /\ Tunnel!NoPath = "" /\ "" \in Paths
  BY AccountConstants DEF Tunnel!TunnelConstants, Tunnel!NoHost, Tunnel!NoPath
<1>2. y \in Tunnel!Edits
  BY <1>1, AskedType DEF Tunnel!Asks
<1>3. Tunnel!NoEdit = [y EXCEPT !.at = "idle"]
  BY DEF Tunnel!NoEdit
<1> HIDE DEF y
<1> QED BY <1>2, <1>3 DEF Tunnel!Edits

LEMMA TunnelInit == Tunnel!Init => TunnelInv
<1> SUFFICES ASSUME Tunnel!Init PROVE TunnelInv
  OBVIOUS
<1>1. GoodIngress(ingress)
  BY FirstIngress DEF Tunnel!Init
<1>2. ingress \in Tunnel!Ingresses
  BY <1>1 DEF GoodIngress, Tunnel!Ingresses, IngressRules, Tunnel!NoHost
<1>3. tunnelEdit = [e \in TunnelEditors |-> Tunnel!NoEdit]
  BY DEF Tunnel!Init
<1>4. tunnelEdit \in [TunnelEditors -> Tunnel!Edits]
      /\ \A e \in TunnelEditors : tunnelEdit[e].at = "idle"
  BY <1>3, IdleEdit
<1>5. Tunnel!TypeOK
  BY <1>2, <1>4, AccountConstants DEF Tunnel!Init, Tunnel!TypeOK, Tunnel!TunnelConstants
<1> QED BY <1>1, <1>4, <1>5 DEF TunnelInv, TunnelLockInv, ConfigReadInv, EditInv, DeleteInv, Changing

LEMMA TunnelOpened ==
  ASSUME TunnelInv, NEW e \in TunnelEditors, Tunnel!Open(e)
  PROVE  TunnelInv' /\ UNCHANGED <<ingress, dns>>
<1>1. PICK asks \in Tunnel!Asks, key \in Tunnel!Keys, path \in Paths, service \in Services,
           record \in BOOLEAN :
        tunnelEdit' = [tunnelEdit EXCEPT ![e] = Tunnel!Asked(asks, key, path, service, record)]
  BY Zenon DEF Tunnel!Open
<1>2. UNCHANGED <<ingress, tunnel, dns, tunnelHolder, changes>>
  BY DEF Tunnel!Open, Tunnel!external
<1> DEFINE y == Tunnel!Asked(asks, key, path, service, record)
<1>3. y \in Tunnel!Edits /\ y.at = "opened" /\ y.key = key /\ y.service = service
  <2>1. key \in (Hosts \cup {""}) \X Paths
    BY DEF Tunnel!Keys
  <2>2. service \in Services \cup {"none"}
    OBVIOUS
  <2>3. <<>> \in Tunnel!Ingresses
    BY EmptySeq, Zenon DEF Tunnel!Ingresses
  <2> QED BY <2>1, <2>2, <2>3 DEF Tunnel!Asked, Tunnel!Edits, Tunnel!NoHost, Tunnel!Results
<1> HIDE DEF y
<1>4. /\ tunnelEdit' \in [TunnelEditors -> Tunnel!Edits] /\ tunnelEdit'[e] = y
      /\ \A f \in TunnelEditors \ {e} : tunnelEdit'[f] = tunnelEdit[f]
  BY <1>1, <1>3 DEF TunnelInv, Tunnel!TypeOK, y
<1>5. Tunnel!TypeOK'
  BY <1>2, <1>4 DEF TunnelInv, Tunnel!TypeOK
<1>6. \A f \in TunnelEditors : tunnelEdit'[f] = tunnelEdit[f] \/ tunnelEdit'[f] = y
  BY <1>4
<1> QED
  BY <1>2, <1>3, <1>5, <1>6
     DEF TunnelInv, TunnelLockInv, ConfigReadInv, EditInv, DeleteInv, Changing, Tunnel!Host

LEMMA RecordChanged ==
  ASSUME TunnelInv, NEW h \in Hosts, Tunnel!ChangeRecord(h)
  PROVE  TunnelInv' /\ changes' # 0 /\ UNCHANGED ingress
<1>1. PICK r \in Tunnel!Records : dns' = [dns EXCEPT ![h] = r]
  BY Zenon DEF Tunnel!ChangeRecord
<1>2. UNCHANGED <<ingress, tunnel, tunnelEdit, tunnelHolder>>
      /\ changes' \in 0..MaxDNS /\ changes' # 0
  BY AccountConstants DEF Tunnel!ChangeRecord, TunnelInv, Tunnel!TypeOK, Tunnel!TunnelConstants
<1> QED
  BY <1>1, <1>2 DEF TunnelInv, Tunnel!TypeOK, TunnelLockInv, ConfigReadInv, EditInv, DeleteInv

\* Each step of a Tunnel keeps the invariant, and the promises.
LEMMA TunnelStep ==
  TunnelInv /\ [Tunnel!Next]_(Tunnel!vars) =>
    /\ TunnelInv'
    /\ Tunnel!Table!Next \/ UNCHANGED Tunnel!TableOf(ingress)
    /\ changes' = 0 => \A h \in Hosts : dns[h] = "other" => dns'[h] = "other"
<1> SUFFICES ASSUME TunnelInv, [Tunnel!Next]_(Tunnel!vars)
             PROVE  /\ TunnelInv'
                    /\ Tunnel!Table!Next \/ UNCHANGED Tunnel!TableOf(ingress)
                    /\ changes' = 0 => \A h \in Hosts : dns[h] = "other" => dns'[h] = "other"
  OBVIOUS
<1>1. ASSUME NEW e \in TunnelEditors, Tunnel!Open(e)
      PROVE  TunnelInv' /\ UNCHANGED <<ingress, dns>>
  BY <1>1, TunnelOpened
<1>2. ASSUME UNCHANGED Tunnel!vars PROVE TunnelInv' /\ UNCHANGED <<ingress, dns>>
  BY <1>2 DEF Tunnel!vars, Tunnel!external, TunnelInv, Tunnel!TypeOK, TunnelLockInv, ConfigReadInv, EditInv,
              DeleteInv, Tunnel!Host
<1>3. ASSUME UNCHANGED ingress PROVE UNCHANGED Tunnel!TableOf(ingress)
  BY <1>3
<1> QED
  BY <1>1, <1>2, <1>3, RecordChanged, HandlerSteps, TunnelHandled DEF Tunnel!Next

\* The table routes to services.
LEMMA TableType ==
  TunnelInv => Tunnel!TableOf(ingress) \in
    [Tunnel!Keys -> [service : (Services \cup {Configured}) \cup {"none"}, settings : {"none", "some"}]]
<1> DEFINE T == Tunnel!TableOf(ingress)
           R == [service : (Services \cup {Configured}) \cup {"none"}, settings : {"none", "some"}]
<1> SUFFICES ASSUME TunnelInv PROVE T \in [Tunnel!Keys -> R]
  OBVIOUS
<1>1. GoodIngress(ingress) /\ T = [k \in Tunnel!Keys |-> T[k]]
  BY TableIs DEF TunnelInv
<1>2. ASSUME NEW k \in Tunnel!Keys PROVE T[k] \in R
  <2>1. CASE \E r \in Routes(ingress) : KeyOf(r) = k
    <3>1. PICK r \in Routes(ingress) : KeyOf(r) = k
      BY <2>1
    <3>2. IsRoute(r)
      BY <1>1 DEF GoodIngress, Routes
    <3>3. T[k] = Target(r)
      BY <1>1, <3>1, TableIs
    <3>4. r.service \in (Services \cup {Configured}) \cup {"none"} /\ r.settings \in {"none", "some"}
      BY <3>2 DEF IsRoute, IngressRules
    <3> HIDE DEF T
    <3> QED BY <3>3, <3>4 DEF Target
  <2>2. CASE ~\E r \in Routes(ingress) : KeyOf(r) = k
    <3>1. T[k] = NoRoute
      BY <1>1, <2>2, TableIs
    <3> HIDE DEF T
    <3> QED BY <3>1 DEF NoRoute
  <2> QED BY <2>1, <2>2
<1> HIDE DEF T
<1> QED BY <1>1, <1>2

\* The invariant of a Tunnel.
THEOREM TunnelInductive == Tunnel!Spec => []TunnelInv
<1>1. TunnelInv /\ [Tunnel!Next]_(Tunnel!vars) => TunnelInv'
  BY TunnelStep
<1> QED BY <1>1, TunnelInit, PTL DEF Tunnel!Spec

\* A public hostname changes alone. Each write changes one route of the table,
\* for the lock keeps what was read true until it is written, and a record that
\* points elsewhere stays as long as nobody changes records in between.
THEOREM HostnamesChangeAlone == Tunnel!Spec => HostnameAlone
<1>1. TunnelInv /\ [Tunnel!Next]_(Tunnel!vars) => [Tunnel!Table!Next]_(Tunnel!TableOf(ingress))
  BY TunnelStep
<1>2. TunnelInv /\ [Tunnel!Next]_(Tunnel!vars) =>
        [changes' = 0 => \A h \in Hosts : dns[h] = "other" => dns'[h] = "other"]_dns
  BY TunnelStep
<1>3. Tunnel!Spec => Tunnel!Table!Spec
  BY <1>1, TunnelInductive, TunnelInit, TableType, PTL DEF Tunnel!Spec, Tunnel!Table!Spec
<1>4. Tunnel!Spec => Tunnel!ForeignRecordsKept
  BY <1>2, TunnelInductive, PTL DEF Tunnel!Spec, Tunnel!ForeignRecordsKept
<1> QED
  BY <1>3, <1>4 DEF HostnameAlone, Tunnel!HostnameAlone, Tunnel!OneRouteAtATime

-----------------------------------------------------------------------------
(* The account *)

\* The parts share no state: what an account does, each part does.
THEOREM PartsAlone == AccountSpec => Spec /\ Zone!Spec /\ Tunnel!Spec /\ Email!Spec
<1> USE DEF allVars, zoneVars, tunnelVars, emailVars, vars, Zone!vars, Tunnel!vars, Tunnel!external,
            Email!vars
<1>1. AccountInit => Init /\ Zone!Init /\ Tunnel!Init /\ Email!Init
  BY DEF AccountInit
<1>2. [AccountNext]_allVars => [Next]_vars
  BY DEF AccountNext
<1>3. [AccountNext]_allVars => [Zone!Next]_(Zone!vars)
  BY DEF AccountNext
<1>4. [AccountNext]_allVars => [Tunnel!Next]_(Tunnel!vars)
  BY DEF AccountNext
<1>5. [AccountNext]_allVars => [Email!Next]_(Email!vars)
  BY DEF AccountNext
<1> QED
  BY <1>1, <1>2, <1>3, <1>4, <1>5, PTL DEF AccountSpec, Spec, Zone!Spec, Tunnel!Spec, Email!Spec

\* Every variable of every part has its type, for any account.
THEOREM AccountTypes == AccountSpec => []TypesOK
<1>1. Zone!Spec => []Zone!TypeOK
  <2>1. ZoneInv => Zone!TypeOK
    BY DEF ZoneInv
  <2> QED BY <2>1, ZoneInductive, PTL
<1>2. Tunnel!Spec => []Tunnel!TypeOK
  <2>1. TunnelInv => Tunnel!TypeOK
    BY DEF TunnelInv
  <2> QED BY <2>1, TunnelInductive, PTL
<1>3. Email!Spec => []Email!TypeOK
  <2>1. EmailInv => Email!TypeOK
    BY DEF EmailInv
  <2> QED BY <2>1, EmailInductive, PTL
<1>4. TypeOK /\ Zone!TypeOK /\ Tunnel!TypeOK /\ Email!TypeOK => TypesOK
  BY DEF TypesOK
<1> QED BY <1>1, <1>2, <1>3, <1>4, TypeCorrect, PartsAlone, PTL

\* The account keeps what each of its parts promises: no change is made twice
\* and the log tells the truth, Zone Rules lose only what was unseen, an
\* address has one rule that forwards to who was verified, and a hostname
\* changes alone.
THEOREM AccountKept ==
  AccountSpec => [](NeverTwice /\ ToldTrue /\ LosesOnlyUnseen /\ RulesHold) /\ HostnameAlone
BY PartsAlone, MadeOnce, LogAndAnswersTrue, OnlyUnseenIsLost, RulesAlwaysHold,
   HostnamesChangeAlone, PTL
=============================================================================
