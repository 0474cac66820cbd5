---------------------------- MODULE NotifyProofs ----------------------------
(***************************************************************************)
(* Theorems of Notify, for any alerts, channels and editors, any capacity  *)
(* of the queue and any clock: what it says of alerts and messages, and    *)
(* that it keeps what AlertLog promises.                                   *)
(***************************************************************************)
EXTENDS Notify, TLAPS

\* A stopped process has nothing in memory.
DownInv ==
  phase = "down" =>
    /\ \A n \in Alerts : call[n] # "stored"
    /\ queue = <<>> /\ pending = {} /\ work = Idle

StoredInv == delivered \subseteq stored /\ errored \subseteq stored

\* What the worker has sent of the alert in its hands.
WorkInv ==
  work.at # "idle" =>
    /\ work.alert \in Alerts
    /\ work.at = "taken" => work.got = {}
    /\ work.got \subseteq reached[work.alert]
    /\ work.todo \cap work.got = {}
    /\ told[work.alert] = work.got

\* Nothing is left of a delivery that was lost: an alert that waits is new to
\* every channel.
ToldInv ==
  \A n \in Alerts : told[n] # {} => InHand(n) \/ n \in delivered \cup errored

\* The channels that are on since the alert was taken are tried or to be tried.
SteadyInv ==
  /\ work.at = "taken" => steady \subseteq On
  /\ work.at \in {"sending", "sent", "tried"} => steady \subseteq work.todo \cup work.got \cup work.bad
  /\ work.at = "tried" => work.todo = {}

ResultInv ==
  /\ \A c \in Channels :
       result[c] = "ok" => c \in tested \/ \E n \in Alerts : c \in reached[n]
  /\ test.at = "ok" => test.channel \in tested
  /\ test.at # "idle" => test.channel \in Channels

DeliveryInv == DownInv /\ StoredInv /\ WorkInv /\ ToldInv /\ NoRepeat

IInv == TypeOK /\ DeliveryInv /\ SteadyInv /\ ResultInv

-----------------------------------------------------------------------------
(* The queue *)

Distinct == \A i, j \in 1..Len(queue) : queue[i] = queue[j] => i = j

LEMMA QueueGrows ==
  ASSUME queue \in Seq(Alerts), Distinct, NEW n \in Alerts, ~Queued(n), queue' = Append(queue, n)
  PROVE  /\ queue' \in Seq(Alerts) /\ Distinct'
         /\ \A m \in Alerts : Queued(m)' <=> Queued(m) \/ m = n
<1>1. Len(queue') = Len(queue) + 1 /\ Len(queue) \in Nat
  OBVIOUS
<1>2. \A i \in 1..Len(queue) : queue'[i] = queue[i] /\ queue[i] # n
  BY DEF Queued
<1>3. queue'[Len(queue) + 1] = n
  OBVIOUS
<1>4. Distinct'
  BY <1>1, <1>2, <1>3 DEF Distinct
<1>5. \A m \in Alerts : Queued(m)' <=> Queued(m) \/ m = n
  BY <1>1, <1>2, <1>3 DEF Queued
<1> QED BY <1>4, <1>5

LEMMA QueueShrinks ==
  ASSUME queue \in Seq(Alerts), Distinct, queue # <<>>, queue' = Tail(queue)
  PROVE  /\ Head(queue) \in Alerts /\ Queued(Head(queue))
         /\ queue' \in Seq(Alerts) /\ Distinct'
         /\ \A m \in Alerts : Queued(m)' <=> Queued(m) /\ m # Head(queue)
<1>1. Len(queue) \in Nat \ {0} /\ Len(queue') = Len(queue) - 1 /\ Head(queue) = queue[1]
  OBVIOUS
<1>2. \A i \in 1..Len(queue') : queue'[i] = queue[i + 1]
  OBVIOUS
<1>3. Head(queue) \in Alerts /\ Queued(Head(queue))
  BY <1>1 DEF Queued
<1>4. Distinct'
  BY <1>1, <1>2 DEF Distinct
<1>5. ASSUME NEW m \in Alerts PROVE Queued(m)' <=> Queued(m) /\ m # Head(queue)
  <2>1. ASSUME Queued(m)' PROVE Queued(m) /\ m # Head(queue)
    BY <1>1, <1>2, <2>1 DEF Queued, Distinct
  <2>2. ASSUME Queued(m), m # Head(queue) PROVE Queued(m)'
    <3>1. PICK i \in 1..Len(queue) : queue[i] = m
      BY <2>2 DEF Queued
    <3>2. i - 1 \in 1..Len(queue') /\ queue'[i - 1] = m
      BY <1>1, <1>2, <2>2, <3>1
    <3> QED BY <3>2 DEF Queued
  <2> QED BY <2>1, <2>2
<1> QED BY <1>3, <1>4, <1>5

-----------------------------------------------------------------------------

LEMMA InitInv == Init => IInv
<1> SUFFICES ASSUME Init PROVE IInv
  OBVIOUS
<1>1. TypeOK
  <2>1. Idle \in Jobs
    BY DEF Idle, Jobs
  <2>2. /\ NoTest \in [at : {"idle", "loaded", "ok", "error"}, channel : Channels \cup {None}]
        /\ NoEdit \in Channels \cup {None}
    BY DEF NoTest, NoEdit
  <2>3. 0 \in 0..MaxTime
    BY NotifyConstants
  <2>4. /\ createdAt \in [Alerts -> 0..MaxTime] /\ clock \in 0..MaxTime
        /\ test \in [at : {"idle", "loaded", "ok", "error"}, channel : Channels \cup {None}]
        /\ edit \in [Editors -> Channels \cup {None}]
    BY <2>2, <2>3 DEF Init
  <2>5. queue \in Seq(Alerts) /\ work \in Jobs
    BY <2>1 DEF Init
  <2> QED BY <2>4, <2>5 DEF Init, TypeOK
<1>2. DeliveryInv
  BY DEF Init, DeliveryInv, DownInv, StoredInv, WorkInv, ToldInv, NoRepeat, InOnePlace, InHand,
         Queued, Idle
<1>3. SteadyInv /\ ResultInv
  BY DEF Init, SteadyInv, ResultInv, Idle, NoTest
<1> QED BY <1>1, <1>2, <1>3 DEF IInv

\* A step that moves no alert.
LEMMA NoAlertMoves ==
  ASSUME DeliveryInv, phase' = phase \/ (phase # "down" /\ phase' # "down"),
         UNCHANGED <<stored, delivered, errored, call, queue, pending, work, messages>>
  PROVE  DeliveryInv'
BY DEF DeliveryInv, DownInv, StoredInv, WorkInv, ToldInv, NoRepeat, InOnePlace, InHand, Queued,
       Undelivered, messages

\* A step within a delivery leaves every alert where it is.
LEMMA WorkMoves ==
  ASSUME DeliveryInv, work.at # "idle", work'.at # "idle", work'.alert = work.alert,
         UNCHANGED <<phase, stored, delivered, errored, call, queue, pending>>
  PROVE  DownInv' /\ StoredInv' /\ InOnePlace'
<1>1. \A n \in Alerts : (InHand(n)' <=> InHand(n)) /\ (Queued(n)' <=> Queued(n))
  BY DEF InHand, Queued
<1>2. work # Idle
  BY DEF Idle
<1>3. DownInv' /\ StoredInv'
  BY <1>2 DEF DeliveryInv, DownInv, StoredInv
<1>4. Undelivered' = Undelivered
  BY DEF Undelivered
<1> QED BY <1>1, <1>3, <1>4 DEF DeliveryInv, NoRepeat, InOnePlace

-----------------------------------------------------------------------------
(* Raising an alert *)

LEMMA NotifyStoreInv ==
  ASSUME IInv, NEW n \in Alerts, NotifyStore(n) \/ NotifyStoreFails(n)
  PROVE  IInv'
<1>1. /\ phase = "up" /\ call[n] = "new"
      /\ UNCHANGED <<phase, delivered, errored, queue, pending, work, channel, edit, result, test,
                     clock, reached, told, repeated, dropped, steady, tested>>
  BY DEF NotifyStore, NotifyStoreFails, workerVars, channelVars, history, messages
<1>2. \/ call' = [call EXCEPT ![n] = "done"] /\ UNCHANGED <<stored, createdAt>>
      \/ /\ n \notin stored /\ call' = [call EXCEPT ![n] = "stored"]
         /\ stored' = stored \cup {n} /\ createdAt' = [createdAt EXCEPT ![n] = clock]
  BY DEF NotifyStore, NotifyStoreFails, KeyTaken
<1>3. TypeOK'
  <2>1. /\ call' \in [Alerts -> {"new", "stored", "done"}] /\ stored' \subseteq Alerts
        /\ createdAt' \in [Alerts -> 0..MaxTime]
    <3>1. clock \in 0..MaxTime /\ createdAt \in [Alerts -> 0..MaxTime] /\ stored \subseteq Alerts
          /\ call \in [Alerts -> {"new", "stored", "done"}]
      BY DEF IInv, TypeOK
    <3>2. CASE call' = [call EXCEPT ![n] = "done"] /\ UNCHANGED <<stored, createdAt>>
      BY <3>1, <3>2
    <3>3. CASE /\ call' = [call EXCEPT ![n] = "stored"] /\ stored' = stored \cup {n}
               /\ createdAt' = [createdAt EXCEPT ![n] = clock]
      BY <3>1, <3>3
    <3> QED BY <1>2, <3>2, <3>3
  <2> QED BY <1>1, <2>1 DEF IInv, TypeOK
<1>4. /\ call'[n] = "stored" => n \notin stored /\ n \in stored'
      /\ \A m \in Alerts : m # n => call'[m] = call[m] /\ (m \in stored' <=> m \in stored)
      /\ stored \subseteq stored'
  BY <1>1, <1>2 DEF IInv, TypeOK
<1>5. DownInv' /\ StoredInv' /\ WorkInv' /\ ToldInv'
  BY <1>1, <1>4 DEF IInv, DeliveryInv, DownInv, StoredInv, WorkInv, ToldInv, InHand
<1>6. InOnePlace'
  <2>1. \A m \in Alerts : (InHand(m)' <=> InHand(m)) /\ (Queued(m)' <=> Queued(m))
    BY <1>1 DEF InHand, Queued
  <2>2. \A m \in Alerts : m \in Undelivered => m \in Undelivered'
    BY <1>1, <1>4 DEF Undelivered
  <2>3. call'[n] = "stored" =>
          n \notin pending /\ ~Queued(n) /\ ~InHand(n) /\ n \in Undelivered'
    BY <1>1, <1>4 DEF IInv, DeliveryInv, NoRepeat, InOnePlace, StoredInv, Undelivered
  <2> QED BY <1>1, <1>4, <2>1, <2>2, <2>3 DEF IInv, DeliveryInv, NoRepeat, InOnePlace
<1>7. SteadyInv' /\ ResultInv'
  BY <1>1 DEF IInv, SteadyInv, ResultInv, On
<1> QED BY <1>1, <1>3, <1>5, <1>6, <1>7 DEF IInv, DeliveryInv, NoRepeat

\* An alert is queued, by its call or by Start, or left to the next start.
LEMMA EnqueueInv ==
  ASSUME IInv, NEW n \in Alerts, Enqueue(n), phase # "down",
         \/ /\ call[n] = "stored" /\ call' = [call EXCEPT ![n] = "done"]
            /\ UNCHANGED pending
         \/ /\ n \in pending /\ pending' = pending \ {n}
            /\ UNCHANGED call,
         UNCHANGED <<phase, stored, createdAt, delivered, errored, work, channelVars, clock,
                     messages, steady, tested>>
  PROVE  IInv'
<1>1. /\ UNCHANGED <<channel, edit, result, test, reached, told, repeated>>
      /\ \A m \in Alerts : InHand(m)' <=> InHand(m)
  BY DEF channelVars, messages, InHand
<1>2. queue \in Seq(Alerts) /\ Distinct
  BY DEF IInv, TypeOK, DeliveryInv, NoRepeat, InOnePlace, Distinct
<1>3. ~Queued(n)
  BY DEF IInv, DeliveryInv, NoRepeat, InOnePlace
<1>4. /\ queue' \in Seq(Alerts) /\ Distinct'
      /\ \A m \in Alerts : Queued(m)' => Queued(m) \/ m = n
  <2>1. CASE queue' = Append(queue, n)
    BY <1>2, <1>3, <2>1, QueueGrows
  <2>2. CASE queue' = queue
    BY <1>2, <2>2 DEF Distinct, Queued
  <2> QED BY <2>1, <2>2 DEF Enqueue
<1>5. dropped' \subseteq Alerts
  BY DEF Enqueue, IInv, TypeOK
<1>6. TypeOK'
  BY <1>1, <1>4, <1>5 DEF IInv, TypeOK
<1>7. DownInv' /\ StoredInv' /\ WorkInv' /\ ToldInv' /\ SteadyInv' /\ ResultInv'
  BY <1>1 DEF IInv, DeliveryInv, DownInv, StoredInv, WorkInv, ToldInv, SteadyInv, ResultInv, On
<1>8. InOnePlace'
  <2>1. /\ n \notin pending' /\ call'[n] # "stored" /\ ~InHand(n) /\ n \in Undelivered
        /\ \A m \in Alerts : m # n => (m \in pending' <=> m \in pending) /\ call'[m] = call[m]
    BY DEF IInv, TypeOK, DeliveryInv, NoRepeat, InOnePlace
  <2>2. Undelivered' = Undelivered
    BY DEF Undelivered
  <2> QED BY <1>1, <1>4, <2>1, <2>2
          DEF IInv, DeliveryInv, NoRepeat, InOnePlace, Distinct
<1> QED BY <1>1, <1>6, <1>7, <1>8 DEF IInv, DeliveryInv, NoRepeat

-----------------------------------------------------------------------------
(* Starts, stops and the clock *)

LEMMA StartInv == ASSUME IInv, Start PROVE IInv'
<1>1. /\ phase = "down" /\ phase' = "starting"
      /\ pending' \subseteq Undelivered /\ dropped' \subseteq Undelivered
      /\ UNCHANGED <<stored, createdAt, delivered, errored, call, queue, work, channel, edit,
                     result, test, clock, reached, told, repeated, steady, tested>>
  BY DEF Start, alertVars, channelVars, messages
<1>2. TypeOK'
  BY <1>1 DEF IInv, TypeOK, Undelivered
<1>3. /\ queue = <<>> /\ work.at = "idle" /\ \A n \in Alerts : call[n] # "stored"
      /\ \A n \in Alerts : ~Queued(n) /\ ~InHand(n)
  BY <1>1 DEF IInv, DeliveryInv, DownInv, Queued, InHand, Idle
<1>4. DownInv' /\ StoredInv' /\ WorkInv' /\ ToldInv' /\ SteadyInv' /\ ResultInv'
  BY <1>1 DEF IInv, DeliveryInv, DownInv, StoredInv, WorkInv, ToldInv, InHand, SteadyInv,
              ResultInv, On
<1>5. InOnePlace'
  <2>1. Undelivered' = Undelivered /\ \A n \in Alerts : ~Queued(n)' /\ ~InHand(n)'
    BY <1>1, <1>3 DEF Undelivered, Queued, InHand
  <2> QED BY <1>1, <1>3, <2>1 DEF InOnePlace
<1> QED BY <1>1, <1>2, <1>4, <1>5 DEF IInv, DeliveryInv, NoRepeat

LEMMA CrashInv == ASSUME IInv, Crash PROVE IInv'
<1>1. /\ phase' = "down" /\ queue' = <<>> /\ pending' = {} /\ work' = Idle /\ steady' = {}
      /\ edit' = [e \in Editors |-> NoEdit] /\ test' = NoTest
      /\ call' = [n \in Alerts |-> IF call[n] = "stored" THEN "done" ELSE call[n]]
      /\ told' = IF work.at = "idle" THEN told ELSE [told EXCEPT ![work.alert] = {}]
      /\ UNCHANGED <<stored, createdAt, delivered, errored, channel, result, clock, reached,
                     repeated, dropped, tested>>
  BY DEF Crash
<1>2. told' \in [Alerts -> SUBSET Channels]
  BY <1>1 DEF IInv, TypeOK
<1>3. TypeOK'
  <2>1. Idle \in Jobs
    BY DEF Idle, Jobs
  <2>2. /\ NoTest \in [at : {"idle", "loaded", "ok", "error"}, channel : Channels \cup {None}]
        /\ NoEdit \in Channels \cup {None}
    BY DEF NoTest, NoEdit
  <2>3. call' \in [Alerts -> {"new", "stored", "done"}]
    BY <1>1 DEF IInv, TypeOK
  <2> QED BY <1>1, <1>2, <2>1, <2>2, <2>3 DEF IInv, TypeOK
<1>4. \A n \in Alerts : call'[n] # "stored" /\ ~Queued(n)' /\ ~InHand(n)'
  BY <1>1 DEF Queued, InHand, Idle
<1>5. DownInv' /\ StoredInv' /\ WorkInv'
  BY <1>1, <1>4 DEF IInv, DeliveryInv, DownInv, StoredInv, WorkInv, Idle
<1>6. ToldInv'
  BY <1>1, <1>2 DEF IInv, TypeOK, DeliveryInv, ToldInv, InHand
<1>7. InOnePlace'
  BY <1>1, <1>4 DEF InOnePlace
<1>8. SteadyInv' /\ ResultInv'
  BY <1>1 DEF IInv, SteadyInv, ResultInv, Idle, NoTest
<1> QED BY <1>1, <1>3, <1>5, <1>6, <1>7, <1>8 DEF IInv, DeliveryInv, NoRepeat

-----------------------------------------------------------------------------
(* Deliveries *)

\* The worker takes an alert that is new to every channel.
LEMMA TakeInv == ASSUME IInv, Take PROVE IInv'
<1> DEFINE n == Head(queue)
<1>1. /\ phase # "down" /\ work.at = "idle" /\ queue # <<>> /\ queue' = Tail(queue)
      /\ steady' = On
      /\ UNCHANGED <<phase, stored, createdAt, delivered, errored, call, pending, channel, edit,
                     result, test, clock, reached, told, repeated, dropped, tested>>
  BY DEF Take, Idle, alertVars, channelVars, messages
<1>2. work' = [at |-> "taken", alert |-> n, todo |-> {}, got |-> {}, bad |-> {}, last |-> None]
  BY DEF Take, Idle
<1>3. /\ n \in Alerts /\ Queued(n)
      /\ queue' \in Seq(Alerts) /\ Distinct'
      /\ \A m \in Alerts : Queued(m)' <=> Queued(m) /\ m # n
  <2>1. queue \in Seq(Alerts) /\ Distinct
    BY DEF IInv, TypeOK, DeliveryInv, NoRepeat, InOnePlace, Distinct
  <2> QED BY <1>1, <2>1, QueueShrinks
<1> HIDE DEF n
<1>4. TypeOK'
  <2>1. work' \in Jobs
    BY <1>2, <1>3 DEF Jobs
  <2>2. steady' \subseteq Channels
    BY <1>1 DEF On
  <2> QED BY <1>1, <1>3, <2>1, <2>2 DEF IInv, TypeOK
<1>5. \A m \in Alerts : ~InHand(m) /\ (InHand(m)' <=> m = n)
  BY <1>1, <1>2 DEF InHand
<1>6. InOnePlace'
  <2>1. Undelivered' = Undelivered
    BY <1>1 DEF Undelivered
  <2>2. n \in Undelivered /\ n \notin pending /\ call[n] # "stored"
    BY <1>3 DEF IInv, DeliveryInv, NoRepeat, InOnePlace
  <2> QED BY <1>1, <1>3, <1>5, <2>1, <2>2
          DEF IInv, DeliveryInv, NoRepeat, InOnePlace, Distinct
<1>7. told[n] = {}
  <2>1. n \notin delivered \cup errored /\ ~InHand(n)
    BY <1>3 DEF IInv, DeliveryInv, NoRepeat, InOnePlace, Undelivered
  <2> QED BY <1>3, <2>1 DEF IInv, DeliveryInv, ToldInv
<1>8. DownInv' /\ StoredInv' /\ WorkInv' /\ ToldInv'
  BY <1>1, <1>2, <1>3, <1>5, <1>7 DEF IInv, DeliveryInv, DownInv, StoredInv, WorkInv, ToldInv
<1>9. SteadyInv' /\ ResultInv'
  BY <1>1, <1>2 DEF IInv, SteadyInv, ResultInv, On
<1> QED BY <1>1, <1>4, <1>6, <1>8, <1>9 DEF IInv, DeliveryInv, NoRepeat

\* The steps of a delivery that send nothing.
LEMMA WithinInv == ASSUME IInv, ListChannels \/ RecordSent \/ AllTried PROVE IInv'
<1>1. /\ work.at # "idle" /\ work'.at # "idle" /\ work'.at # "taken"
      /\ work'.alert = work.alert /\ work'.got = work.got /\ work' \in Jobs
  <2>1. work \in Jobs /\ On \subseteq Channels
    BY DEF IInv, TypeOK, On
  <2>2. CASE ListChannels
    BY <2>1, <2>2 DEF ListChannels, Jobs
  <2>3. CASE RecordSent
    BY <2>1, <2>3 DEF RecordSent, Jobs
  <2>4. CASE AllTried
    BY <2>1, <2>4 DEF AllTried, Jobs
  <2> QED BY <2>2, <2>3, <2>4
<1>2. UNCHANGED <<phase, stored, createdAt, delivered, errored, call, queue, pending, channel,
                  edit, test, clock, reached, told, repeated, dropped, steady, tested>>
  BY DEF ListChannels, RecordSent, AllTried, alertVars, channelVars, history, messages
<1>3. /\ work'.todo \cap work'.got = {}
      /\ steady \subseteq work'.todo \cup work'.got \cup work'.bad
      /\ work'.at = "tried" => work'.todo = {}
  BY DEF ListChannels, RecordSent, AllTried, IInv, TypeOK, Jobs, DeliveryInv, WorkInv, SteadyInv
<1>4. result' \in [Channels -> {"none", "ok", "error"}]
  BY DEF ListChannels, RecordSent, AllTried, channelVars, Record, IInv, TypeOK
<1>5. TypeOK'
  BY <1>1, <1>2, <1>4 DEF IInv, TypeOK
<1>6. DownInv' /\ StoredInv' /\ InOnePlace'
  BY <1>1, <1>2, WorkMoves DEF IInv
<1>7. WorkInv' /\ ToldInv'
  BY <1>1, <1>2, <1>3 DEF IInv, DeliveryInv, WorkInv, ToldInv, InHand
<1>8. SteadyInv'
  BY <1>1, <1>2, <1>3 DEF SteadyInv, On
<1>9. ResultInv'
  <2>1. CASE result' = result
    BY <1>2, <2>1 DEF IInv, ResultInv
  <2>2. CASE result' # result
    <3>1. RecordSent
      BY <2>2 DEF ListChannels, AllTried, channelVars
    <3>2. PICK outcome \in {"ok", "error"} :
            /\ result' = [result EXCEPT ![work.last] = outcome]
            /\ outcome = "ok" => work.last \in work.got
      BY <2>2, <3>1 DEF RecordSent, Record
    <3>3. outcome = "ok" => work.alert \in Alerts /\ work.last \in reached[work.alert]
      BY <1>1, <3>2 DEF IInv, DeliveryInv, WorkInv
    <3> QED BY <1>2, <3>2, <3>3 DEF IInv, TypeOK, ResultInv
  <2> QED BY <2>1, <2>2
<1> QED BY <1>2, <1>5, <1>6, <1>7, <1>8, <1>9 DEF IInv, DeliveryInv, NoRepeat

\* A channel that gets the alert is one that did not get it in this delivery.
LEMMA SendInv == ASSUME IInv, NEW c \in Channels, Send(c) PROVE IInv'
<1>1. /\ work.at = "sending" /\ c \in work.todo
      /\ UNCHANGED <<phase, stored, createdAt, delivered, errored, call, queue, pending, channel,
                     edit, result, test, clock, dropped, steady, tested>>
  BY DEF Send, alertVars, channelVars
<1>2. PICK n \in Alerts : n = work.alert
  BY <1>1 DEF IInv, DeliveryInv, WorkInv
<1>3. /\ work.got \subseteq reached[n] /\ work.todo \cap work.got = {} /\ told[n] = work.got
  BY <1>1, <1>2 DEF IInv, DeliveryInv, WorkInv
<1>4. \/ /\ work' = [work EXCEPT !.at = "sent", !.last = c, !.todo = @ \ {c}, !.got = @ \cup {c}]
         /\ reached' = [reached EXCEPT ![n] = @ \cup {c}]
         /\ told' = [told EXCEPT ![n] = @ \cup {c}]
         /\ repeated' = (repeated \/ c \in told[n])
      \/ /\ work' = [work EXCEPT !.at = "sent", !.last = c, !.todo = @ \ {c}, !.bad = @ \cup {c}]
         /\ UNCHANGED <<reached, told, repeated>>
  BY <1>2 DEF Send, Tell, messages
<1>5. /\ work'.at = "sent" /\ work'.alert = n /\ work'.todo = work.todo \ {c}
      /\ work' \in Jobs
  <2>1. work \in Jobs
    BY DEF IInv, TypeOK
  <2>2. CASE work' = [work EXCEPT !.at = "sent", !.last = c, !.todo = @ \ {c}, !.got = @ \cup {c}]
    BY <1>2, <2>1, <2>2 DEF Jobs
  <2>3. CASE work' = [work EXCEPT !.at = "sent", !.last = c, !.todo = @ \ {c}, !.bad = @ \cup {c}]
    BY <1>2, <2>1, <2>3 DEF Jobs
  <2> QED BY <1>4, <2>2, <2>3
<1>6. \/ /\ work'.got = work.got \cup {c} /\ work'.bad = work.bad
         /\ reached' = [reached EXCEPT ![n] = @ \cup {c}]
         /\ told' = [told EXCEPT ![n] = @ \cup {c}]
      \/ /\ work'.got = work.got /\ work'.bad = work.bad \cup {c}
         /\ UNCHANGED <<reached, told>>
  BY <1>4 DEF IInv, TypeOK, Jobs
<1>7. ~repeated'
  <2>1. c \notin told[n] /\ ~repeated
    BY <1>1, <1>3 DEF IInv, DeliveryInv, NoRepeat
  <2>2. repeated' = (repeated \/ c \in told[n]) \/ repeated' = repeated
    BY <1>4
  <2> QED BY <2>1, <2>2
<1>8. /\ reached' \in [Alerts -> SUBSET Channels] /\ told' \in [Alerts -> SUBSET Channels]
      /\ repeated' \in BOOLEAN
  <2>1. reached \in [Alerts -> SUBSET Channels] /\ told \in [Alerts -> SUBSET Channels]
        /\ repeated \in BOOLEAN
    BY DEF IInv, TypeOK
  <2>2. reached' \in [Alerts -> SUBSET Channels] /\ told' \in [Alerts -> SUBSET Channels]
    BY <1>6, <2>1
  <2>3. repeated' \in BOOLEAN
    BY <1>4, <2>1, Zenon
  <2> QED BY <2>2, <2>3
<1>9. TypeOK'
  BY <1>1, <1>5, <1>8 DEF IInv, TypeOK
<1>10. DownInv' /\ StoredInv' /\ InOnePlace'
  BY <1>1, <1>2, <1>5, WorkMoves DEF IInv
<1>11. WorkInv'
  <2>0. reached \in [Alerts -> SUBSET Channels] /\ told \in [Alerts -> SUBSET Channels]
    BY DEF IInv, TypeOK
  <2>1. /\ work'.got \subseteq reached'[n] /\ work'.todo \cap work'.got = {}
        /\ told'[n] = work'.got
    <3>1. CASE /\ work'.got = work.got \cup {c}
               /\ reached' = [reached EXCEPT ![n] = @ \cup {c}]
               /\ told' = [told EXCEPT ![n] = @ \cup {c}]
      <4>1. reached'[n] = reached[n] \cup {c} /\ told'[n] = told[n] \cup {c}
        BY <2>0, <3>1
      <4> QED BY <1>3, <1>5, <3>1, <4>1
    <3>2. CASE work'.got = work.got /\ UNCHANGED <<reached, told>>
      BY <1>3, <1>5, <3>2
    <3> QED BY <1>6, <3>1, <3>2
  <2> QED BY <1>5, <2>1 DEF WorkInv
<1>12. ToldInv'
  <2>1. \A m \in Alerts : m # n => told'[m] = told[m] /\ (InHand(m)' <=> InHand(m))
    BY <1>1, <1>2, <1>5, <1>6 DEF IInv, TypeOK, InHand
  <2>2. InHand(n)'
    BY <1>5 DEF InHand
  <2> QED BY <1>1, <2>1, <2>2 DEF IInv, DeliveryInv, ToldInv
<1>13. SteadyInv'
  BY <1>1, <1>5, <1>6 DEF IInv, SteadyInv
<1>14. ResultInv'
  <2>1. ASSUME NEW m \in Alerts PROVE reached[m] \subseteq reached'[m]
    <3>1. reached \in [Alerts -> SUBSET Channels]
      BY DEF IInv, TypeOK
    <3>2. reached'[m] = reached[m] \/ reached'[m] = reached[m] \cup {c}
      BY <1>6, <3>1
    <3> QED BY <3>2
  <2> QED BY <1>1, <2>1 DEF IInv, ResultInv
<1> QED BY <1>7, <1>9, <1>10, <1>11, <1>12, <1>13, <1>14 DEF IInv, DeliveryInv, NoRepeat

\* A delivery ends: with its outcome, or lost and with nothing left of it.
LEMMA EndInv ==
  ASSUME IInv, Finish \/ LoadFails \/ FinishFails
  PROVE  IInv'
<1> DEFINE n == work.alert
<1>1. /\ work.at # "idle" /\ work' = Idle /\ steady' = {}
      /\ UNCHANGED <<phase, stored, createdAt, call, queue, pending, channel, edit, result, test,
                     clock, reached, repeated, tested>>
  BY DEF Finish, LoadFails, FinishFails, Lost, alertVars, channelVars, messages
<1>2. n \in Alerts /\ n \in stored
  BY <1>1 DEF IInv, DeliveryInv, WorkInv, NoRepeat, InOnePlace, InHand, Undelivered
<1>3. \/ /\ told' = [told EXCEPT ![n] = {}]
         /\ dropped' = dropped \cup {n} /\ UNCHANGED <<delivered, errored>>
      \/ /\ n \in delivered' \cup errored'
         /\ UNCHANGED <<told, dropped>>
         /\ delivered' \subseteq delivered \cup {n} /\ delivered \subseteq delivered'
         /\ errored' \in {errored \cup {n}, errored \ {n}}
  BY DEF Finish, SetAlertDelivery, LoadFails, FinishFails, Lost, alertVars, messages
<1> HIDE DEF n
<1>4. TypeOK'
  <2>1. Idle \in Jobs
    BY DEF Idle, Jobs
  <2>2. /\ told' \in [Alerts -> SUBSET Channels] /\ dropped' \subseteq Alerts
        /\ delivered' \subseteq Alerts /\ errored' \subseteq Alerts
    BY <1>2, <1>3 DEF IInv, TypeOK
  <2> QED BY <1>1, <2>1, <2>2 DEF IInv, TypeOK
<1>5. \A m \in Alerts : /\ ~InHand(m)' /\ (InHand(m) <=> m = n)
                       /\ (Queued(m)' <=> Queued(m))
  BY <1>1 DEF InHand, Queued, Idle, n
<1>6. \A m \in Alerts : m # n =>
        /\ (m \in delivered' <=> m \in delivered) /\ (m \in errored' <=> m \in errored)
        /\ told'[m] = told[m] /\ (m \in Undelivered' <=> m \in Undelivered)
  BY <1>1, <1>2, <1>3 DEF IInv, TypeOK, Undelivered
<1>7. InOnePlace'
  <2>1. Distinct'
    BY <1>1 DEF IInv, DeliveryInv, NoRepeat, InOnePlace, Distinct
  <2>2. InHand(n)
    BY <1>2, <1>5
  <2>3. call[n] # "stored" /\ n \notin pending /\ ~Queued(n)
    BY <1>2, <2>2 DEF IInv, DeliveryInv, NoRepeat, InOnePlace
  <2> QED BY <1>1, <1>5, <1>6, <2>1, <2>3 DEF IInv, DeliveryInv, NoRepeat, InOnePlace, Distinct
<1>8. DownInv' /\ StoredInv' /\ WorkInv'
  BY <1>1, <1>2, <1>3 DEF IInv, DeliveryInv, DownInv, StoredInv, WorkInv, Idle
<1>9. ToldInv'
  <2>1. told'[n] # {} => n \in delivered' \cup errored'
    BY <1>2, <1>3 DEF IInv, TypeOK
  <2> QED BY <1>5, <1>6, <2>1 DEF IInv, DeliveryInv, ToldInv
<1>10. SteadyInv' /\ ResultInv'
  BY <1>1 DEF IInv, SteadyInv, ResultInv, Idle
<1> QED BY <1>1, <1>4, <1>7, <1>8, <1>9, <1>10 DEF IInv, DeliveryInv, NoRepeat

-----------------------------------------------------------------------------
(* Requests about channels, and the clock *)

\* A step that leaves alerts and the worker alone keeps what is said of them.
LEMMA RestInv ==
  ASSUME IInv, phase' = phase \/ (phase # "down" /\ phase' = "up"),
         UNCHANGED <<stored, createdAt, delivered, errored, call, queue, pending, work, reached,
                     told, repeated, dropped>>,
         channel' \in [Channels -> {"new", "on", "off", "gone"}],
         edit' \in [Editors -> Channels \cup {None}],
         result' \in [Channels -> {"none", "ok", "error"}],
         test' \in [at : {"idle", "loaded", "ok", "error"}, channel : Channels \cup {None}],
         clock' \in 0..MaxTime, tested' \subseteq Channels, steady' \subseteq steady,
         \A c \in steady' : channel[c] = "on" => channel'[c] = "on", ResultInv'
  PROVE  IInv'
<1>1. DeliveryInv'
  BY NoAlertMoves DEF IInv, messages
<1>2. TypeOK'
  BY DEF IInv, TypeOK
<1>3. SteadyInv'
  BY DEF IInv, SteadyInv, On
<1> QED BY <1>1, <1>2, <1>3 DEF IInv

LEMMA ClockInv == ASSUME IInv, Started \/ Tick PROVE IInv'
<1>1. clock' \in 0..MaxTime
  BY NotifyConstants DEF Started, Tick, IInv, TypeOK
<1>2. /\ phase' = phase \/ (phase # "down" /\ phase' = "up")
      /\ UNCHANGED <<stored, createdAt, delivered, errored, call, queue, pending, work, channel,
                     edit, result, test, reached, told, repeated, dropped, steady, tested>>
  BY DEF Started, Tick, alertVars, workerVars, channelVars, history, messages
<1>3. ResultInv'
  BY <1>2 DEF IInv, ResultInv
<1> QED BY <1>1, <1>2, <1>3, RestInv DEF IInv, TypeOK

LEMMA ChannelInv ==
  ASSUME IInv, NEW c \in Channels, CreateChannel(c) \/ DeleteChannel(c)
  PROVE  IInv'
<1>1. /\ steady' \subseteq steady
      /\ UNCHANGED <<phase, stored, createdAt, delivered, errored, call, queue, pending, work,
                     edit, result, test, clock, reached, told, repeated, dropped, tested>>
  BY DEF CreateChannel, DeleteChannel, alertVars, workerVars, history, messages
<1>2. /\ channel \in [Channels -> {"new", "on", "off", "gone"}]
      /\ \/ channel' = [channel EXCEPT ![c] = "on"]
         \/ channel' = [channel EXCEPT ![c] = "gone"] /\ c \notin steady'
  BY DEF CreateChannel, DeleteChannel, IInv, TypeOK
<1>3. /\ channel' \in [Channels -> {"new", "on", "off", "gone"}]
      /\ \A d \in steady' : channel[d] = "on" => channel'[d] = "on"
  BY <1>1, <1>2 DEF IInv, TypeOK
<1>4. ResultInv'
  BY <1>1 DEF IInv, ResultInv
<1> QED BY <1>1, <1>3, <1>4, RestInv DEF IInv, TypeOK

LEMMA LoadChannelInv ==
  ASSUME IInv, NEW e \in Editors, NEW c \in Channels, LoadChannel(e, c)
  PROVE  IInv'
<1>1. UNCHANGED <<phase, stored, createdAt, delivered, errored, call, queue, pending, work, channel,
                  result, test, clock, reached, told, repeated, dropped, steady, tested>>
  BY DEF LoadChannel, alertVars, workerVars, history, messages
<1>2. edit' \in [Editors -> Channels \cup {None}]
  BY DEF LoadChannel, IInv, TypeOK
<1>3. ResultInv'
  BY <1>1 DEF IInv, ResultInv
<1> QED BY <1>1, <1>2, <1>3, RestInv DEF IInv, TypeOK

LEMMA UpdateChannelInv ==
  ASSUME IInv, NEW e \in Editors, NEW enabled \in {"on", "off"}, UpdateChannel(e, enabled)
  PROVE  IInv'
<1>1. UNCHANGED <<phase, stored, createdAt, delivered, errored, call, queue, pending, work, result,
                  test, clock, reached, told, repeated, dropped, tested>>
  BY DEF UpdateChannel, alertVars, workerVars, messages
<1>2. /\ edit' \in [Editors -> Channels \cup {None}]
      /\ channel \in [Channels -> {"new", "on", "off", "gone"}]
  BY DEF UpdateChannel, NoEdit, IInv, TypeOK
<1>3. PICK c \in Channels :
        \/ UNCHANGED <<channel, steady>>
        \/ /\ channel' = [channel EXCEPT ![c] = enabled]
           /\ steady' = IF enabled = "on" THEN steady ELSE steady \ {c}
  BY DEF UpdateChannel, NoEdit, IInv, TypeOK
<1>4. /\ channel' \in [Channels -> {"new", "on", "off", "gone"}]
      /\ steady' \subseteq steady
      /\ \A d \in steady' : channel[d] = "on" => channel'[d] = "on"
  BY <1>2, <1>3 DEF IInv, TypeOK
<1>5. ResultInv'
  BY <1>1 DEF IInv, ResultInv
<1> QED BY <1>1, <1>2, <1>4, <1>5, RestInv DEF IInv, TypeOK

LEMMA TestInv ==
  ASSUME IInv, \/ \E c \in Channels : LoadTest(c)
               \/ SendTest \/ RecordTest
  PROVE  IInv'
<1>1. UNCHANGED <<phase, stored, createdAt, delivered, errored, call, queue, pending, work, channel,
                  edit, clock, reached, told, repeated, dropped, steady>>
  BY DEF LoadTest, SendTest, RecordTest, alertVars, workerVars, history, messages
<1> DEFINE Tests == [at : {"idle", "loaded", "ok", "error"}, channel : Channels \cup {None}]
<1>2. test \in Tests /\ (test.at # "idle" => test.channel \in Channels)
  BY DEF IInv, TypeOK, ResultInv
<1>3. CASE \E c \in Channels : LoadTest(c)
  <2>1. /\ test'.at = "loaded" /\ test'.channel \in Channels /\ test' \in Tests
        /\ UNCHANGED <<result, tested>>
    BY <1>3 DEF LoadTest, history
  <2>2. ResultInv'
    BY <1>1, <2>1 DEF IInv, ResultInv
  <2> QED BY <1>1, <2>1, <2>2, RestInv DEF IInv, TypeOK
<1>4. CASE SendTest
  <2>1. /\ test.at = "loaded" /\ UNCHANGED result
        /\ \/ test' = [test EXCEPT !.at = "ok"] /\ tested' = tested \cup {test.channel}
           \/ test' = [test EXCEPT !.at = "error"] /\ tested' = tested
    BY <1>4 DEF SendTest
  <2>2. /\ test' \in Tests /\ test'.channel = test.channel /\ test'.at \in {"ok", "error"}
        /\ tested \subseteq tested' /\ tested' \subseteq tested \cup {test.channel}
        /\ test'.at = "ok" => test.channel \in tested'
    BY <1>2, <2>1
  <2>3. ResultInv'
    BY <1>1, <1>2, <2>1, <2>2 DEF IInv, ResultInv
  <2>4. tested' \subseteq Channels
    BY <1>2, <2>1, <2>2 DEF IInv, TypeOK
  <2> QED BY <1>1, <2>1, <2>2, <2>3, <2>4, RestInv DEF IInv, TypeOK
<1>5. CASE RecordTest
  <2>1. /\ test.at \in {"ok", "error"} /\ test' = NoTest /\ UNCHANGED tested
        /\ result' = result \/ result' = [result EXCEPT ![test.channel] = test.at]
    BY <1>5 DEF RecordTest, Record, history
  <2>2. NoTest \in Tests /\ NoTest.at = "idle"
    BY DEF NoTest
  <2>3. result' \in [Channels -> {"none", "ok", "error"}]
    BY <2>1 DEF IInv, TypeOK
  <2>4. \A c \in Channels : result'[c] = "ok" => result[c] = "ok" \/ c \in tested
    BY <2>1 DEF IInv, TypeOK, ResultInv
  <2>5. ResultInv'
    BY <1>1, <2>1, <2>2, <2>4 DEF IInv, ResultInv
  <2> QED BY <1>1, <2>1, <2>2, <2>3, <2>5, RestInv DEF IInv, TypeOK
<1> QED BY <1>3, <1>4, <1>5

-----------------------------------------------------------------------------

LEMMA NextInv == ASSUME IInv, [Next]_vars PROVE IInv'
<1>1. ASSUME UNCHANGED vars PROVE IInv'
  <2>1. /\ UNCHANGED <<phase, stored, createdAt, delivered, errored, call, queue, pending, work,
                       channel, edit, result, test, clock, reached, told, repeated, dropped,
                       steady, tested, messages>>
    BY <1>1 DEF vars, alertVars, workerVars, channelVars, history, messages
  <2>2. DeliveryInv'
    BY <2>1, NoAlertMoves DEF IInv
  <2> QED BY <2>1, <2>2 DEF IInv, TypeOK, SteadyInv, ResultInv, On
<1>2. ASSUME NEW n \in Alerts, NotifyEnqueue(n) PROVE IInv'
  BY <1>2, EnqueueInv DEF NotifyEnqueue
<1>3. ASSUME StartEnqueue PROVE IInv'
  <2>1. PICK n \in pending : pending' = pending \ {n} /\ Enqueue(n)
    BY <1>3 DEF StartEnqueue
  <2>2. n \in Alerts
    BY DEF IInv, TypeOK
  <2>3. /\ phase # "down"
        /\ UNCHANGED <<phase, stored, createdAt, delivered, errored, call, work, channelVars, clock,
                       messages, steady, tested>>
    BY <1>3 DEF StartEnqueue, alertVars
  <2> QED BY <2>1, <2>2, <2>3, EnqueueInv
<1> QED
  BY <1>1, <1>2, <1>3, NotifyStoreInv, StartInv, CrashInv, ClockInv, TakeInv, WithinInv, SendInv,
     EndInv, ChannelInv, TestInv, LoadChannelInv, UpdateChannelInv DEF Next, Deliver

\* What the worker, the queue, the calls and the rows say of each alert is kept by
\* every step.
THEOREM Inductive == Spec => []IInv
  BY InitInv, NextInv, PTL DEF Spec

\* Type correctness of Notify.
THEOREM TypeCorrect == Spec => []TypeOK
<1>1. IInv => TypeOK
  BY DEF IInv
<1> QED BY <1>1, Inductive, PTL

\* An alert is in one place at a time, and no channel gets it again unless a
\* delivery of it was lost.
THEOREM OneDelivery == Spec => []NoRepeat
<1>1. IInv => NoRepeat
  BY DEF IInv, DeliveryInv
<1> QED BY <1>1, Inductive, PTL

\* A delivery tries every channel that stays on before its outcome is recorded,
\* and a channel that shows no error got a message.
THEOREM AllChannelsTried == Spec => []EveryChannelTried
<1>1. IInv => EveryChannelTried
  BY DEF IInv, SteadyInv, ResultInv, EveryChannelTried
<1> QED BY <1>1, Inductive, PTL
-----------------------------------------------------------------------------
(* The alert log *)

\* What the log says of each alert.
LogState == [n \in Alerts |-> CASE n \notin stored -> "none"
                                [] n \in stored \cap delivered -> "told"
                                [] n \in (stored \cap errored) \ delivered -> "untold"
                                [] OTHER -> "waiting"]

LEMMA LogStateOf ==
  ASSUME NEW n \in Alerts
  PROVE  /\ n \notin stored => LogState[n] = "none"
         /\ n \in stored /\ n \in delivered => LogState[n] = "told"
         /\ n \in stored /\ n \notin delivered /\ n \in errored => LogState[n] = "untold"
         /\ n \in Undelivered => LogState[n] = "waiting"
         /\ LogState[n] = "none" => n \notin stored
BY DEF LogState, Undelivered

\* The log changes what it says of one alert.
LEMMA LogMoves ==
  ASSUME NEW n \in Alerts,
         \A m \in Alerts : m # n => /\ m \in stored' <=> m \in stored
                                    /\ m \in delivered' <=> m \in delivered
                                    /\ m \in errored' <=> m \in errored
  PROVE  LogState' = [LogState EXCEPT ![n] = LogState'[n]]
<1>1. \A m \in Alerts : m # n => LogState'[m] = LogState[m]
  BY DEF LogState
<1>2. LogState = [m \in Alerts |-> LogState[m]] /\ LogState' = [m \in Alerts |-> LogState'[m]]
  BY DEF LogState
<1> QED BY <1>1, <1>2

LEMMA LogRaise ==
  ASSUME IInv, NEW n \in Alerts, NotifyStore(n), ~KeyTaken(n)
  PROVE  Log!Raise(n)
<1>1. /\ stored' = stored \cup {n} /\ UNCHANGED <<delivered, errored, reached>>
      /\ \A m \in Alerts : KeyOf[m] = KeyOf[n] => m \notin stored
  BY DEF NotifyStore, KeyTaken, history, messages
<1>2. n \notin delivered' \cup errored' /\ n \in Undelivered'
  BY <1>1 DEF IInv, DeliveryInv, StoredInv, Undelivered
<1>3. LogState' = [LogState EXCEPT ![n] = "waiting"]
  <2>1. LogState'[n] = "waiting"
    BY <1>1, <1>2 DEF LogState, Undelivered
  <2> QED BY <1>1, <2>1, LogMoves
<1>4. \A m \in Alerts : KeyOf[m] = KeyOf[n] => LogState[m] = "none"
  BY <1>1, LogStateOf
<1> QED BY <1>1, <1>3, <1>4 DEF Log!Raise, Log!FreshKey, LogState

LEMMA LogSend ==
  ASSUME IInv, NEW c \in Channels, Send(c)
  PROVE  UNCHANGED Log!vars \/ \E n \in Alerts : Log!Reach(n, c)
<1>1. work.at = "sending" /\ UNCHANGED <<stored, delivered, errored>>
  BY DEF Send, alertVars
<1>2. PICK n \in Alerts : n = work.alert
  BY <1>1 DEF IInv, DeliveryInv, WorkInv
<1>3. n \in Undelivered
  BY <1>1, <1>2 DEF IInv, DeliveryInv, NoRepeat, InOnePlace, InHand
<1>4. LogState[n] = "waiting" /\ LogState' = LogState
  BY <1>1, <1>3, LogStateOf DEF LogState
<1>5. reached' = [reached EXCEPT ![n] = @ \cup {c}] \/ reached' = reached
  BY <1>2 DEF Send, Tell, messages
<1> QED BY <1>4, <1>5 DEF Log!Reach, Log!vars, LogState

LEMMA LogFinish ==
  ASSUME IInv, Finish
  PROVE  \E n \in Alerts : Log!Tell(n) \/ Log!GiveUp(n)
<1>1. work.at = "tried" /\ UNCHANGED <<stored, reached>>
  BY DEF Finish, messages
<1>2. PICK n \in Alerts : n = work.alert
  BY <1>1 DEF IInv, DeliveryInv, WorkInv
<1>3. n \in Undelivered /\ work.got \subseteq reached[n]
  BY <1>1, <1>2 DEF IInv, DeliveryInv, WorkInv, NoRepeat, InOnePlace, InHand
<1>4. /\ work.got # {} => delivered' = delivered \cup {n}
      /\ work.got = {} => delivered' = delivered /\ errored' = errored \cup {n}
      /\ errored' = errored \cup {n} \/ errored' = errored \ {n}
  BY <1>2 DEF Finish, SetAlertDelivery
<1>5. LogState' = [LogState EXCEPT ![n] = LogState'[n]]
  BY <1>1, <1>4, LogMoves
<1>6. LogState[n] = "waiting"
  BY <1>3, LogStateOf
<1>7. CASE work.got # {}
  <2>1. LogState'[n] = "told"
    BY <1>1, <1>3, <1>4, <1>7 DEF LogState, Undelivered
  <2>2. Log!Tell(n)
    BY <1>1, <1>3, <1>5, <1>6, <1>7, <2>1 DEF Log!Tell, LogState
  <2> QED BY <2>2
<1>8. CASE work.got = {}
  <2>1. LogState'[n] = "untold"
    BY <1>1, <1>3, <1>4, <1>8 DEF LogState, Undelivered
  <2>2. Log!GiveUp(n)
    BY <1>1, <1>5, <1>6, <2>1 DEF Log!GiveUp, LogState
  <2> QED BY <2>2
<1> QED BY <1>7, <1>8

LEMMA LogStep == ASSUME IInv, [Next]_vars PROVE [Log!Next]_(Log!vars)
<1>1. CASE UNCHANGED <<stored, delivered, errored, reached>>
  BY <1>1 DEF Log!vars
<1>2. CASE \E n \in Alerts : NotifyStore(n) /\ ~KeyTaken(n)
  BY <1>2, LogRaise DEF Log!Next
<1>3. CASE \E c \in Channels : Send(c)
  BY <1>3, LogSend DEF Log!Next
<1>4. CASE Finish
  BY <1>4, LogFinish DEF Log!Next
<1>5. \/ UNCHANGED <<stored, delivered, errored, reached>>
      \/ \E n \in Alerts : NotifyStore(n) /\ ~KeyTaken(n)
      \/ \E c \in Channels : Send(c)
      \/ Finish
  BY DEF Next, Deliver, vars, alertVars, channelVars, history, messages, NotifyStore,
         NotifyStoreFails, NotifyEnqueue, Start, StartEnqueue, Started, Crash, Tick, Take,
         ListChannels, LoadFails, RecordSent, AllTried, FinishFails, Lost, CreateChannel,
         DeleteChannel, LoadTest, SendTest, RecordTest, LoadChannel, UpdateChannel
<1> QED BY <1>1, <1>2, <1>3, <1>4, <1>5

\* Notify keeps what AlertLog promises: one kept alert per key, one outcome of
\* each, and "told" only of an alert that reached a channel.
THEOREM Implements == Spec => KeepsLog
<1>1. Init => Log!Init
  BY DEF Init, Log!Init
<1>2. IInv /\ [Next]_vars => [Log!Next]_(Log!vars)
  BY LogStep
<1> QED BY <1>1, <1>2, Inductive, PTL DEF Spec, KeepsLog, Log!Spec
=============================================================================
