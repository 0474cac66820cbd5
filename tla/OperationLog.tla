---------------------------- MODULE OperationLog ----------------------------
(***************************************************************************)
(* Writes to a provider and the log kept of them: Cloudflare's DNS and     *)
(* resource operations and Google Workspace's operations. A write is       *)
(* logged as pending, sent over HTTP, and its outcome is logged; what the  *)
(* provider did is only known from the answer. Deleting the connection     *)
(* deletes its log.                                                        *)
(***************************************************************************)
EXTENDS Integers, FiniteSets

CONSTANTS
  Provider,   \* whose client and log: "cloudflare" or "google"
  Ops,        \* operations, each a request of its own
  DNS,        \* those that change DNS records (Cloudflare has two logs)
  MaxRetries  \* resends of a throttled Cloudflare write

ASSUME OperationConstants ==
  /\ Provider \in {"cloudflare", "google"}
  /\ DNS \subseteq Ops
  /\ MaxRetries \in Nat

VARIABLES
  row,     \* the log: the status recorded for each operation
  work,    \* the handlers: where each is, resends so far, what it learnt
  told,    \* what the person was told
  conn,    \* the connection and the request that deletes it
  made,    \* external: how often the provider made the change
  inAir    \* external: writes given up that may still arrive

vars == <<row, work, told, conn, made, inAir>>
provider == <<made, inAir>>

Statuses == {"none", "pending", "succeeded", "failed", "unknown", "deleted"}
Outcomes == {"succeeded", "failed", "unknown"}
Work(at, tries, outcome) == [at |-> at, tries |-> tries, outcome |-> outcome]
NoWork == Work("idle", 0, "unknown")

TypeOK ==
  /\ row \in [Ops -> Statuses]
  /\ work \in [Ops -> [at : {"idle", "opened", "send", "wait", "finish", "done"},
                       tries : 0..MaxRetries, outcome : Outcomes]]
  /\ told \in [Ops -> {"nothing", "not_sent", "made", "made_unlogged",
                       "refused", "unconfirmed", "outcome_unlogged"}]
  /\ conn \in {"kept", "clearing", "cleared", "gone"}
  /\ made \in [Ops -> 0..(MaxRetries + 1)]
  /\ inAir \subseteq Ops

Init ==
  /\ row = [o \in Ops |-> "none"]
  /\ work = [o \in Ops |-> NoWork]
  /\ told = [o \in Ops |-> "nothing"]
  /\ conn = "kept"
  /\ made = [o \in Ops |-> 0]
  /\ inAir = {}

At(o, at) == work[o].at = at
Goes(o, at) == work' = [work EXCEPT ![o].at = at]
Tells(o, what) == told' = [told EXCEPT ![o] = what]

-----------------------------------------------------------------------------
(* Recording and sending *)

\* The request loads the connection and what it is about to change.
Open(o) ==
  /\ At(o, "idle")
  /\ conn # "gone"
  /\ Goes(o, "opened")
  /\ UNCHANGED <<row, told, conn, provider>>

\* The pending entry is stored.
Record(o) ==
  /\ At(o, "opened")
  /\ row' = [row EXCEPT ![o] = "pending"]
  /\ Goes(o, "send")
  /\ UNCHANGED <<told, conn, provider>>

\* Without the pending entry nothing is sent; the insert that reports an
\* error may have been applied.
RecordFails(o) ==
  /\ At(o, "opened")
  /\ \E s \in {"none", "pending"} : row' = [row EXCEPT ![o] = s]
  /\ Goes(o, "done")
  /\ Tells(o, "not_sent")
  /\ UNCHANGED <<conn, provider>>

Learns(o, outcome) ==
  work' = [work EXCEPT ![o] = Work("finish", @.tries, outcome)]

\* A 2xx that can be read.
Confirmed(o) ==
  /\ At(o, "send")
  /\ made' = [made EXCEPT ![o] = @ + 1]
  /\ Learns(o, "succeeded")
  /\ UNCHANGED <<row, told, conn, inAir>>

\* A 4xx, a 2xx without success, or no token to send it with.
Refused(o) ==
  /\ At(o, "send")
  /\ Learns(o, "failed")
  /\ UNCHANGED <<row, told, conn, provider>>

\* Mutant of Throttled: one resend too many is allowed.
ThrottledOnceMore(o) ==
  /\ At(o, "send")
  /\ Provider = "cloudflare"
  /\ work[o].tries <= MaxRetries
  /\ Goes(o, "wait")
  /\ UNCHANGED <<row, told, conn, provider>>

\* 429: Cloudflare's client waits and sends again, up to maxRetries times
\* and unless the wait asked for is too long; Google's takes it as refused.
Throttled(o) ==
  /\ At(o, "send")
  /\ Provider = "cloudflare"
  /\ work[o].tries < MaxRetries
  /\ Goes(o, "wait")
  /\ UNCHANGED <<row, told, conn, provider>>

\* Mutant of NoAnswer: a write without an answer is sent again, as a read is.
NoAnswerRetried(o) ==
  /\ At(o, "send")
  /\ work[o].tries < MaxRetries
  /\ Goes(o, "wait")
  /\ \/ UNCHANGED provider
     \/ made' = [made EXCEPT ![o] = @ + 1] /\ UNCHANGED inAir
  /\ UNCHANGED <<row, told, conn>>

\* Mutant of NoAnswer: every error is taken for a failure.
NoAnswerFailed(o) ==
  /\ At(o, "send")
  /\ Learns(o, "failed")
  /\ \/ UNCHANGED provider
     \/ made' = [made EXCEPT ![o] = @ + 1] /\ UNCHANGED inAir
     \/ inAir' = inAir \cup {o} /\ UNCHANGED made
  /\ UNCHANGED <<row, told, conn>>

\* A 5xx, a lost connection, a timeout or an answer that cannot be read: the
\* change may have been made, or may be made once the write arrives.
NoAnswer(o) ==
  /\ At(o, "send")
  /\ Learns(o, "unknown")
  /\ \/ UNCHANGED provider
     \/ made' = [made EXCEPT ![o] = @ + 1] /\ UNCHANGED inAir
     \/ inAir' = inAir \cup {o} /\ UNCHANGED made
  /\ UNCHANGED <<row, told, conn>>

\* After the delay the write is sent again.
SendAgain(o) ==
  /\ At(o, "wait")
  /\ work' = [work EXCEPT ![o] = Work("send", @.tries + 1, @.outcome)]
  /\ UNCHANGED <<row, told, conn, provider>>

\* writeTimeout passes during a wait; the last attempt was refused.
WaitEnds(o) ==
  /\ At(o, "wait")
  /\ Learns(o, "failed")
  /\ UNCHANGED <<row, told, conn, provider>>

\* External: a write that was given up arrives.
Arrive(o) ==
  /\ o \in inAir
  /\ inAir' = inAir \ {o}
  /\ made' = [made EXCEPT ![o] = @ + 1]
  /\ UNCHANGED <<row, work, told, conn>>

-----------------------------------------------------------------------------
(* The outcome *)

Answer(outcome) ==
  CASE outcome = "succeeded" -> "made"
    [] outcome = "failed"    -> "refused"
    [] outcome = "unknown"   -> "unconfirmed"

\* Cloudflare's changes are reported as they went, with LogErr next to a
\* success; Google's writes report that the outcome was not recorded.
Unlogged(outcome) ==
  IF Provider = "google" THEN "outcome_unlogged"
  ELSE IF outcome = "succeeded" THEN "made_unlogged" ELSE Answer(outcome)

Finish(o) ==
  /\ At(o, "finish")
  /\ row[o] # "deleted"
  /\ row' = [row EXCEPT ![o] = work[o].outcome]
  /\ Goes(o, "done")
  /\ Tells(o, Answer(work[o].outcome))
  /\ UNCHANGED <<conn, provider>>

\* The row is gone with the connection, or the update reports an error: it
\* may have been applied.
FinishFails(o) ==
  /\ At(o, "finish")
  /\ \/ row[o] = "deleted" /\ UNCHANGED row
     \/ /\ row[o] # "deleted"
        /\ \E s \in {row[o], work[o].outcome} : row' = [row EXCEPT ![o] = s]
  /\ Goes(o, "done")
  /\ Tells(o, Unlogged(work[o].outcome))
  /\ UNCHANGED <<conn, provider>>

-----------------------------------------------------------------------------
(* Deleting the connection *)

Erase(ops) ==
  row' = [o \in Ops |-> IF o \in ops /\ row[o] # "none" THEN "deleted" ELSE row[o]]

\* Cloudflare's two logs are deleted one after the other, DNS first.
ClearDNS ==
  /\ Provider = "cloudflare"
  /\ conn \in {"kept", "clearing"}
  /\ Erase(DNS)
  /\ conn' = "clearing"
  /\ UNCHANGED <<work, told, provider>>

ClearLog ==
  /\ IF Provider = "cloudflare" THEN conn = "clearing" ELSE conn = "kept"
  /\ Erase(Ops \ DNS)
  /\ conn' = "cleared"
  /\ UNCHANGED <<work, told, provider>>

\* A delete fails: Delete returns an error, and the connection stays until
\* somebody deletes it again.
ClearFails ==
  /\ conn \in {"clearing", "cleared"}
  /\ conn' = "kept"
  /\ UNCHANGED <<row, work, told, provider>>

\* Last, the connection's row is deleted.
DeleteConnection ==
  /\ conn = "cleared"
  /\ conn' = "gone"
  /\ UNCHANGED <<row, work, told, provider>>

\* The process stops: its handlers are gone. A write on its way may arrive.
Crash ==
  /\ work' = [o \in Ops |-> IF At(o, "idle") THEN NoWork
                            ELSE Work("done", 0, "unknown")]
  /\ \E late \in SUBSET {o \in Ops : At(o, "send")} : inAir' = inAir \cup late
  /\ conn' = IF conn \in {"clearing", "cleared"} THEN "kept" ELSE conn
  /\ UNCHANGED <<row, told, made>>

-----------------------------------------------------------------------------

Handle(o) ==
  \/ Open(o) \/ Record(o) \/ RecordFails(o)
  \/ Confirmed(o) \/ Refused(o) \/ Throttled(o) \/ NoAnswer(o)
  \/ SendAgain(o) \/ WaitEnds(o)
  \/ Finish(o) \/ FinishFails(o)

Next ==
  \/ \E o \in Ops : Handle(o) \/ Arrive(o)
  \/ ClearDNS \/ ClearLog \/ ClearFails \/ DeleteConnection
  \/ Crash

Spec == Init /\ [][Next]_vars
-----------------------------------------------------------------------------
(* Properties *)

\* A change is never made twice, however often the client sends it.
NeverTwice == \A o \in Ops : made[o] + Cardinality(inAir \cap {o}) <= 1

\* What the log says happened: a success was made, once, and a failure was
\* not made and cannot be any more.
LogIsTrue ==
  \A o \in Ops :
    /\ row[o] = "succeeded" => made[o] = 1
    /\ row[o] = "failed" => made[o] = 0 /\ o \notin inAir

\* Nothing is, or may still be, changed without an entry of the log, unless
\* the log was deleted with the connection.
WriteAhead ==
  \A o \in Ops : made[o] > 0 \/ o \in inAir => row[o] # "none"

\* What a person is told: that nothing was changed only when nothing was or
\* will be, and that the change was made only when it was.
AnswerIsTrue ==
  \A o \in Ops :
    /\ told[o] \in {"not_sent", "refused"} => made[o] = 0 /\ o \notin inAir
    /\ told[o] \in {"made", "made_unlogged"} => made[o] = 1
    /\ told[o] = "made" => row[o] \in {"succeeded", "deleted"}

\* Both the log and the answer can be relied on, whatever was lost on the way.
ToldTrue == WriteAhead /\ LogIsTrue /\ AnswerIsTrue

=============================================================================
