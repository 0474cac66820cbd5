------------------------------- MODULE Notify -------------------------------
(***************************************************************************)
(* The notification service: alerts kept once per key, a bounded queue and *)
(* one worker that sends each alert to the user's enabled channels, what a *)
(* start takes up again, the requests that change channels, crashes and    *)
(* failing calls.  One user; every channel and alert here is hers.         *)
(***************************************************************************)
EXTENDS Integers, Sequences, FiniteSets

CONSTANTS Alerts,     \* ids of the rows that Notify calls try to insert
          KeyOf,      \* the dedupe key of each
          Channels,   \* channel ids
          Editors,    \* concurrent UpdateChannel requests
          QueueCap,   \* capacity of Service.queue
          Window,     \* redeliverWindow, in ticks of the clock
          MaxTime     \* ticks the clock goes through

ASSUME NotifyConstants ==
  /\ DOMAIN KeyOf = Alerts
  /\ QueueCap \in Nat \ {0}
  /\ Window \in Nat
  /\ MaxTime \in Nat

VARIABLES
  phase,     \* "down", "starting" (Start runs), "up"
  stored,    \* rows of the alerts table
  createdAt, \* their created_at
  delivered, \* rows with a delivered_at
  errored,   \* rows with a delivery_error
  call,      \* how far the Notify call of each alert has come
  queue,     \* Service.queue
  pending,   \* rows Start listed and has not queued yet
  work,      \* what the worker is doing
  channel,   \* the state of each row of notification_channels
  result,    \* its last_error: "ok" when it is empty after a send
  edit,      \* UpdateChannel requests, by editor
  test,      \* the TestChannel request
  clock,
  reached,   \* history: channels that got a message of each alert
  told,      \* history: those that did since a delivery of it was lost
  repeated,  \* history: a channel got an alert again, no delivery being lost
  dropped,   \* history: stored alerts this process will not deliver
  steady,    \* history: channels on since the worker took its alert
  tested     \* history: channels that got a test message

alertVars   == <<stored, createdAt, delivered, errored, call>>
workerVars  == <<queue, pending, work>>
channelVars == <<channel, edit, result, test>>
messages    == <<reached, told, repeated>>
history     == <<messages, dropped, steady, tested>>
vars == <<phase, alertVars, workerVars, channelVars, clock, history>>

None == "none"
Idle == [at |-> "idle", alert |-> None, todo |-> {}, got |-> {}, bad |-> {},
         last |-> None]
NoEdit == None
NoTest == [at |-> "idle", channel |-> None]

Jobs == [at : {"idle", "taken", "sending", "sent", "tried"},
         alert : Alerts \cup {None}, todo : SUBSET Channels,
         got : SUBSET Channels, bad : SUBSET Channels, last : Channels \cup {None}]

TypeOK ==
  /\ phase \in {"down", "starting", "up"}
  /\ stored \subseteq Alerts
  /\ createdAt \in [Alerts -> 0..MaxTime]
  /\ delivered \subseteq Alerts
  /\ errored \subseteq Alerts
  /\ call \in [Alerts -> {"new", "stored", "done"}]
  /\ queue \in Seq(Alerts)
  /\ pending \subseteq Alerts
  /\ work \in Jobs
  /\ channel \in [Channels -> {"new", "on", "off", "gone"}]
  /\ edit \in [Editors -> Channels \cup {None}]
  /\ result \in [Channels -> {"none", "ok", "error"}]
  /\ test \in [at : {"idle", "loaded", "ok", "error"}, channel : Channels \cup {None}]
  /\ clock \in 0..MaxTime
  /\ reached \in [Alerts -> SUBSET Channels] /\ told \in [Alerts -> SUBSET Channels]
  /\ repeated \in BOOLEAN
  /\ dropped \subseteq Alerts
  /\ steady \subseteq Channels
  /\ tested \subseteq Channels

Init ==
  /\ phase = "down"
  /\ stored = {}
  /\ createdAt = [n \in Alerts |-> 0]
  /\ delivered = {}
  /\ errored = {}
  /\ call = [n \in Alerts |-> "new"]
  /\ queue = <<>>
  /\ pending = {}
  /\ work = Idle
  /\ channel = [c \in Channels |-> "new"]
  /\ edit = [e \in Editors |-> NoEdit]
  /\ result = [c \in Channels |-> "none"]
  /\ test = NoTest
  /\ clock = 0
  /\ reached = [n \in Alerts |-> {}]
  /\ told = [n \in Alerts |-> {}]
  /\ repeated = FALSE
  /\ dropped = {}
  /\ steady = {}
  /\ tested = {}

-----------------------------------------------------------------------------
(* Raising an alert *)

\* The unique index on user and key lets one row in.
KeyTaken(n) == \E m \in stored : KeyOf[m] = KeyOf[n]

\* Mutant: Notify returns when the row was created, not when it was there.
NotifyStoreOnly(n) ==
  /\ phase = "up"
  /\ call[n] = "new"
  /\ call' = [call EXCEPT ![n] = IF KeyTaken(n) THEN "stored" ELSE "done"]
  /\ stored' = IF KeyTaken(n) THEN stored ELSE stored \cup {n}
  /\ createdAt' = [createdAt EXCEPT ![n] = clock]
  /\ UNCHANGED <<phase, delivered, errored, workerVars, channelVars, clock,
                 history>>

\* Notify stores the row, or finds the key taken and returns.
NotifyStore(n) ==
  /\ phase = "up"
  /\ call[n] = "new"
  /\ IF KeyTaken(n)
       THEN /\ call' = [call EXCEPT ![n] = "done"]
            /\ UNCHANGED <<stored, createdAt>>
       ELSE /\ call' = [call EXCEPT ![n] = "stored"]
            /\ stored' = stored \cup {n}
            /\ createdAt' = [createdAt EXCEPT ![n] = clock]
  /\ UNCHANGED <<phase, delivered, errored, workerVars, channelVars, clock,
                 history>>

NotifyStoreFails(n) ==
  /\ phase = "up"
  /\ call[n] = "new"
  /\ call' = [call EXCEPT ![n] = "done"]
  /\ UNCHANGED <<phase, stored, createdAt, delivered, errored, workerVars,
                 channelVars, clock, history>>

\* A full queue leaves the alert to the next start.
Enqueue(n) ==
  IF Len(queue) < QueueCap
    THEN /\ queue' = Append(queue, n)
         /\ UNCHANGED dropped
    ELSE /\ dropped' = dropped \cup {n}
         /\ UNCHANGED queue

NotifyEnqueue(n) ==
  /\ phase # "down"
  /\ call[n] = "stored"
  /\ call' = [call EXCEPT ![n] = "done"]
  /\ Enqueue(n)
  /\ UNCHANGED <<phase, stored, createdAt, delivered, errored, pending, work,
                 channelVars, clock, messages, steady,
                 tested>>

-----------------------------------------------------------------------------
(* Start, and the process stopping *)

Undelivered == {n \in stored : n \notin delivered /\ n \notin errored}
Recent(n)   == createdAt[n] + Window >= clock

\* ListUndelivered, then the worker is launched.
Start ==
  /\ phase = "down"
  /\ phase' = "starting"
  /\ pending' = {n \in Undelivered : Recent(n)}
  /\ dropped' = {n \in Undelivered : ~Recent(n)}
  /\ UNCHANGED <<alertVars, queue, work, channelVars, clock, messages, steady,
                 tested>>

\* Oldest first.
StartEnqueue ==
  /\ phase = "starting"
  /\ \E n \in pending :
       /\ \A m \in pending : createdAt[n] <= createdAt[m]
       /\ pending' = pending \ {n}
       /\ Enqueue(n)
  /\ UNCHANGED <<phase, alertVars, work, channelVars, clock, messages, steady,
                 tested>>

Started ==
  /\ phase = "starting"
  /\ pending = {}
  /\ phase' = "up"
  /\ UNCHANGED <<alertVars, workerVars, channelVars, clock, history>>

\* A crash; or a shutdown, whose cancelled context fails what deliver still
\* does with the database.
Crash ==
  /\ phase # "down"
  /\ phase' = "down"
  /\ call' = [n \in Alerts |-> IF call[n] = "stored" THEN "done" ELSE call[n]]
  /\ queue' = <<>>
  /\ pending' = {}
  /\ work' = Idle
  /\ edit' = [e \in Editors |-> NoEdit]
  /\ told' = IF work.at = "idle" THEN told ELSE [told EXCEPT ![work.alert] = {}]
  /\ steady' = {}
  /\ test' = NoTest
  /\ UNCHANGED <<stored, createdAt, delivered, errored, channel, result, clock,
                 reached, repeated, dropped, tested>>

Tick ==
  /\ clock < MaxTime
  /\ clock' = clock + 1
  /\ UNCHANGED <<phase, alertVars, workerVars, channelVars, history>>

-----------------------------------------------------------------------------
(* deliver *)

Exists(c) == channel[c] \in {"on", "off"}

On == {c \in Channels : channel[c] = "on"}

\* The worker takes an alert and loads its row.
Take ==
  /\ phase # "down"
  /\ work = Idle
  /\ queue # <<>>
  /\ queue' = Tail(queue)
  /\ work' = [Idle EXCEPT !.at = "taken", !.alert = Head(queue)]
  /\ steady' = On
  /\ UNCHANGED <<phase, alertVars, pending, channelVars, clock, messages,
                 dropped, tested>>

\* The delivery under way ends without a recorded outcome.
Lost ==
  /\ work' = Idle
  /\ told' = [told EXCEPT ![work.alert] = {}]
  /\ dropped' = dropped \cup {work.alert}
  /\ steady' = {}
  /\ UNCHANGED <<phase, alertVars, queue, pending, channelVars, clock, reached,
                 repeated, tested>>

ListChannels ==
  /\ work.at = "taken"
  /\ work' = [work EXCEPT !.at = "sending", !.todo = On]
  /\ UNCHANGED <<phase, alertVars, queue, pending, channelVars, clock, history>>

\* GetAlert or ListChannels fails, and deliver returns.
LoadFails == work.at = "taken" /\ Lost

\* A channel gets a message of the alert in hand.
Tell(c) ==
  LET n == work.alert IN
  /\ reached' = [reached EXCEPT ![n] = @ \cup {c}]
  /\ told' = [told EXCEPT ![n] = @ \cup {c}]
  /\ repeated' = (repeated \/ c \in told[n])

\* Mutant: the first error ends the loop.
SendUntilError(c) ==
  /\ work.at = "sending"
  /\ c \in work.todo
  /\ \/ /\ work' = [work EXCEPT !.at = "sent", !.last = c,
                                !.todo = @ \ {c}, !.got = @ \cup {c}]
        /\ Tell(c)
     \/ /\ work' = [work EXCEPT !.at = "sent", !.last = c,
                                !.todo = {}, !.bad = @ \cup {c}]
        /\ UNCHANGED messages
  /\ UNCHANGED <<phase, alertVars, queue, pending, channelVars, clock, dropped, steady, tested>>

\* Mutant: a channel that got the message is not done.
SendAgain(c) ==
  /\ work.at = "sending"
  /\ c \in work.todo
  /\ \/ /\ work' = [work EXCEPT !.at = "sent", !.last = c, !.got = @ \cup {c}]
        /\ Tell(c)
     \/ /\ work' = [work EXCEPT !.at = "sent", !.last = c,
                                !.todo = @ \ {c}, !.bad = @ \cup {c}]
        /\ UNCHANGED messages
  /\ UNCHANGED <<phase, alertVars, queue, pending, channelVars, clock, dropped, steady, tested>>

\* One channel gets the message, or its sender fails; the next is tried.
Send(c) ==
  /\ work.at = "sending"
  /\ c \in work.todo
  /\ \/ /\ work' = [work EXCEPT !.at = "sent", !.last = c,
                                !.todo = @ \ {c}, !.got = @ \cup {c}]
        /\ Tell(c)
     \/ /\ work' = [work EXCEPT !.at = "sent", !.last = c,
                                !.todo = @ \ {c}, !.bad = @ \cup {c}]
        /\ UNCHANGED messages
  /\ UNCHANGED <<phase, alertVars, queue, pending, channelVars, clock, dropped, steady, tested>>

\* Mutant: a deleted channel gets a result of its own.
RecordGone(c, outcome) ==
  result' = [result EXCEPT ![c] = IF Exists(c) THEN outcome ELSE "gone"]

\* RecordChannelResult: a row deleted meanwhile is no error.
Record(c, outcome) ==
  result' = IF Exists(c) THEN [result EXCEPT ![c] = outcome] ELSE result

RecordSent ==
  /\ work.at = "sent"
  /\ work' = [work EXCEPT !.at = "sending", !.last = None]
  /\ \/ Record(work.last, IF work.last \in work.got THEN "ok" ELSE "error")
     \/ UNCHANGED result
  /\ UNCHANGED <<phase, alertVars, queue, pending, channel, edit, test, clock, history>>

AllTried ==
  /\ work.at = "sending"
  /\ work.todo = {}
  /\ work' = [work EXCEPT !.at = "tried"]
  /\ UNCHANGED <<phase, alertVars, queue, pending, channelVars, clock, history>>

\* Mutant: the alert counts as delivered once it was tried.
DeliveredAnyway ==
  /\ delivered' = delivered \cup {work.alert}
  /\ errored' = IF work.bad # {} THEN errored \cup {work.alert}
                                 ELSE errored \ {work.alert}

\* SetAlertDelivery with the last success, if any, and the errors: those of
\* the channels, or that there was none to try.
SetAlertDelivery ==
  /\ delivered' = IF work.got # {} THEN delivered \cup {work.alert} ELSE delivered
  /\ errored' = IF work.bad # {} \/ work.got = {} THEN errored \cup {work.alert}
                                                  ELSE errored \ {work.alert}

Finish ==
  /\ work.at = "tried"
  /\ SetAlertDelivery
  /\ work' = Idle
  /\ steady' = {}
  /\ UNCHANGED <<phase, stored, createdAt, call, queue, pending, channelVars,
                 clock, messages, dropped, tested>>

FinishFails == work.at = "tried" /\ Lost

Deliver ==
  \/ Take \/ ListChannels \/ LoadFails \/ RecordSent \/ AllTried \/ Finish \/ FinishFails
  \/ \E c \in Channels : Send(c)

-----------------------------------------------------------------------------
(* Requests about channels *)

\* A new channel is enabled.
CreateChannel(c) ==
  /\ phase = "up"
  /\ channel[c] = "new"
  /\ channel' = [channel EXCEPT ![c] = "on"]
  /\ UNCHANGED <<phase, alertVars, workerVars, edit, result, test, clock, history>>

\* UpdateNotificationChannel loads the row first.
LoadChannel(e, c) ==
  /\ phase = "up"
  /\ edit[e] = NoEdit
  /\ Exists(c)
  /\ edit' = [edit EXCEPT ![e] = c]
  /\ UNCHANGED <<phase, alertVars, workerVars, channel, result, test, clock, history>>

\* Then it writes the row back, with the enabled flag asked for.
UpdateChannel(e, enabled) ==
  LET c == edit[e] IN
  /\ phase = "up"
  /\ c # NoEdit
  /\ edit' = [edit EXCEPT ![e] = NoEdit]
  /\ IF Exists(c)
       THEN /\ channel' = [channel EXCEPT ![c] = enabled]
            /\ steady' = IF enabled = "on" THEN steady ELSE steady \ {c}
       ELSE UNCHANGED <<channel, steady>>
  /\ UNCHANGED <<phase, alertVars, workerVars, result, test, clock, messages, dropped,
                 tested>>

DeleteChannel(c) ==
  /\ phase = "up"
  /\ Exists(c)
  /\ channel' = [channel EXCEPT ![c] = "gone"]
  /\ steady' = steady \ {c}
  /\ UNCHANGED <<phase, alertVars, workerVars, edit, result, test, clock,
                 messages, dropped, tested>>

\* TestChannel: the row is loaded, a message sent to it, the result recorded.
LoadTest(c) ==
  /\ phase = "up"
  /\ test = NoTest
  /\ Exists(c)
  /\ test' = [at |-> "loaded", channel |-> c]
  /\ UNCHANGED <<phase, alertVars, workerVars, channel, edit, result, clock, history>>

SendTest ==
  /\ test.at = "loaded"
  /\ \/ /\ test' = [test EXCEPT !.at = "ok"]
        /\ tested' = tested \cup {test.channel}
     \/ /\ test' = [test EXCEPT !.at = "error"]
        /\ UNCHANGED tested
  /\ UNCHANGED <<phase, alertVars, workerVars, channel, edit, result, clock,
                 messages, dropped, steady>>

RecordTest ==
  /\ test.at \in {"ok", "error"}
  /\ test' = NoTest
  /\ Record(test.channel, test.at) \/ UNCHANGED result
  /\ UNCHANGED <<phase, alertVars, workerVars, channel, edit, clock, history>>

-----------------------------------------------------------------------------
Next ==
  \/ \E n \in Alerts : NotifyStore(n) \/ NotifyStoreFails(n) \/ NotifyEnqueue(n)
  \/ Start \/ StartEnqueue \/ Started \/ Crash \/ Tick
  \/ Deliver
  \/ \E c \in Channels : CreateChannel(c) \/ DeleteChannel(c) \/ LoadTest(c)
  \/ SendTest \/ RecordTest
  \/ \E e \in Editors, c \in Channels : LoadChannel(e, c)
  \/ \E e \in Editors, enabled \in {"on", "off"} : UpdateChannel(e, enabled)

\* The worker and Start's loop are goroutines that never wait for a person;
\* a stopped process is started again.
Fairness ==
  /\ WF_vars(Deliver)
  /\ WF_vars(Start \/ StartEnqueue \/ Started)
  /\ \A n \in Alerts : WF_vars(NotifyEnqueue(n))

Spec == Init /\ [][Next]_vars /\ Fairness
-----------------------------------------------------------------------------
(* Properties *)

InHand(n) == work.at # "idle" /\ work.alert = n
Queued(n) == \E i \in 1..Len(queue) : queue[i] = n

\* An alert is in one place only: with the call that raised it, listed by Start,
\* queued once, or with the worker, and only until it has an outcome.
InOnePlace ==
  /\ \A i, j \in 1..Len(queue) : queue[i] = queue[j] => i = j
  /\ \A n \in Alerts :
       /\ call[n] = "stored" => n \notin pending /\ ~Queued(n) /\ ~InHand(n)
       /\ n \in pending => ~Queued(n) /\ ~InHand(n)
       /\ Queued(n) => ~InHand(n)
       /\ call[n] = "stored" \/ n \in pending \/ Queued(n) \/ InHand(n)
            => n \in Undelivered

\* A channel gets an alert once, and once more for each delivery of it whose
\* outcome was not recorded (a crash, or SetAlertDelivery failed); so an alert
\* must not be in two places at once.
NoRepeat == InOnePlace /\ ~repeated

\* Every channel that is on all through a delivery is tried before its outcome
\* is recorded, whatever the others answer; and one that shows no error after
\* that did get a message.
EveryChannelTried ==
  /\ work.at = "tried" => steady \subseteq work.got \cup work.bad
  /\ \A c \in Channels :
       result[c] = "ok" => c \in tested \/ \E n \in Alerts : c \in reached[n]

\* What the alert log promises, seen through the rows and the messages sent.
Log == INSTANCE AlertLog WITH
  state   <- [n \in Alerts |-> CASE n \notin stored -> "none"
                                 [] n \in stored \cap delivered -> "told"
                                 [] n \in (stored \cap errored) \ delivered -> "untold"
                                 [] OTHER -> "waiting"]
KeepsLog == Log!Spec

\* Once the process stays up, a kept alert gets its outcome, or waits for the
\* next start because the queue was full, it was too old or a call failed.
EventuallyDecided ==
  <>[](phase # "down") =>
    \A n \in Alerts : n \in stored ~> n \in delivered \cup errored \cup dropped

=============================================================================
