----------------------------- MODULE RouteTable -----------------------------
(***************************************************************************)
(* What a Tunnel's public hostnames promise: a table of routes that only   *)
(* changes one route at a time, and keeps the settings of what it changes. *)
(***************************************************************************)
CONSTANTS Keys,    \* pairs of hostname and path
          Services

VARIABLES table    \* what each key routes to, if anything

NoRoute == [service |-> "none", settings |-> "none"]

Routed(k) == table[k] # NoRoute

Add(k, service) ==
  /\ ~Routed(k)
  /\ table' = [table EXCEPT ![k] = [service |-> service, settings |-> "none"]]

\* The service changes, and perhaps the path with it.
Change(k, to, service) ==
  /\ Routed(k)
  /\ to = k \/ ~Routed(to)
  /\ table' = [j \in Keys |->
       IF j = to THEN [service |-> service, settings |-> table[k].settings]
       ELSE IF j = k THEN NoRoute ELSE table[j]]

Remove(k) ==
  /\ Routed(k)
  /\ table' = [table EXCEPT ![k] = NoRoute]

Next ==
  \E k \in Keys :
    \/ Remove(k)
    \/ \E s \in Services : Add(k, s) \/ \E to \in Keys : Change(k, to, s)

Spec == table \in [Keys -> [service : Services \cup {"none"}, settings : {"none", "some"}]]
        /\ [][Next]_table
=============================================================================
