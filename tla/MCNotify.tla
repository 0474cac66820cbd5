------------------------------ MODULE MCNotify ------------------------------
(***************************************************************************)
(* Small instances of Notify.  A behaviour stresses one side of it: alerts *)
(* raised again and again with one channel nobody edits, or one alert with *)
(* channels that are edited, deleted and tested meanwhile.                 *)
(***************************************************************************)
EXTENDS Notify, TLC

CONSTANTS Sides, n1, n2, n3, c1, c2, e1

VARIABLE side

ASSUME NotifySides == Sides \subseteq {"alerts", "channels"}

\* Two alerts about one problem and one about another.
MCKeyOf == (n1 :> "k1") @@ (n2 :> "k1") @@ (n3 :> "k2")

\* What a behaviour leaves alone.
Quiet ==
  IF side = "alerts"
    THEN /\ edit' = edit /\ test' = test
         /\ channel'[c1] \in {"new", "on"} /\ channel'[c2] = "new"
    ELSE /\ clock' = 0
         /\ \A n \in Alerts \ {n1} : call'[n] = "new"
         /\ \A e \in Editors : edit'[e] # c2
         /\ test'.channel # c2

NotifyInit == side \in Sides /\ Init
NotifyNext == Next /\ Quiet /\ UNCHANGED side
NotifySpec == NotifyInit /\ [][NotifyNext]_<<side, vars>> /\ Fairness
=============================================================================
