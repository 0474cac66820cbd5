---------------------------- MODULE MCWasabiSync ----------------------------
(***************************************************************************)
(* Small instances of WasabiSync.  A behaviour lets the days of one        *)
(* connection pass, or has two connections share the queue on one day.     *)
(***************************************************************************)
EXTENDS WasabiSync, TLC

CONSTANTS Sides, a, b

VARIABLE side

ASSUME SyncSides == Sides \subseteq {"days", "queue"}

\* What a behaviour leaves alone; the syncs of b fail.
Quiet ==
  IF side = "days"
    THEN conn'[b] = "none" /\ deleting' = deleting
    ELSE UNCHANGED time /\ usage'[b] = {} /\ state'[b] = NoState

SyncInit == side \in Sides /\ Init
SyncNext == Next /\ Quiet /\ UNCHANGED side
SyncSpec == SyncInit /\ [][SyncNext]_<<side, vars>>
=============================================================================
