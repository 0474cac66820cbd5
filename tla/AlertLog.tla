------------------------------ MODULE AlertLog ------------------------------
(***************************************************************************)
(* What the notification service promises about alerts, whatever crashes,  *)
(* full queues and failing calls do to the delivery of them: an alert is   *)
(* kept once per key, it waits, it may reach channels, and one outcome is  *)
(* recorded - "told" only of an alert that did reach a channel.            *)
(***************************************************************************)
CONSTANTS Alerts,   \* alert ids
          Channels, \* notification channels of the user
          KeyOf     \* the dedupe key of each alert

VARIABLES state,   \* what the alert log says of each alert
          reached  \* channels that got a message of each alert

vars == <<state, reached>>

States == {"none", "waiting", "told", "untold"}

Init ==
  /\ state = [n \in Alerts |-> "none"]
  /\ reached = [n \in Alerts |-> {}]

\* No alert with the key of n is kept.
FreshKey(n) == \A m \in Alerts : KeyOf[m] = KeyOf[n] => state[m] = "none"

Raise(n) ==
  /\ FreshKey(n)
  /\ state' = [state EXCEPT ![n] = "waiting"]
  /\ UNCHANGED reached

Reach(n, c) ==
  /\ state[n] = "waiting"
  /\ reached' = [reached EXCEPT ![n] = @ \cup {c}]
  /\ UNCHANGED state

Tell(n) ==
  /\ state[n] = "waiting"
  /\ reached[n] # {}
  /\ state' = [state EXCEPT ![n] = "told"]
  /\ UNCHANGED reached

GiveUp(n) ==
  /\ state[n] = "waiting"
  /\ state' = [state EXCEPT ![n] = "untold"]
  /\ UNCHANGED reached

Next ==
  \E n \in Alerts :
    \/ Raise(n) \/ Tell(n) \/ GiveUp(n)
    \/ \E c \in Channels : Reach(n, c)

Spec == Init /\ [][Next]_vars
=============================================================================
