----------------------------- MODULE MCAccount -----------------------------
(***************************************************************************)
(* Small instances of what one Cloudflare account is changed through: the  *)
(* log of operations, and the requests on Zone Rules, on a Tunnel and on   *)
(* Email Routing. They work on different resources under different locks   *)
(* and share no state, so a behaviour moves one part and leaves the others *)
(* as they began.                                                          *)
(***************************************************************************)
EXTENDS OperationLog, Sequences, TLC

CONSTANTS
  Parts,                                         \* the parts that may move
  o1, o2, q1, q2, q3, t1, t2, z1, z2, a1, a2, d1,
  Rules,                                         \* of ZoneRules
  TunnelEditors, Hosts, Paths, Services, Configured, MaxDNS,
  Requests, Zones, Addresses, Dests, MaxLate     \* of EmailRouting

VARIABLES
  part,
  live, zoneEdit, zoneHolder, ids, lost, stale,
  ingress, tunnel, dns, tunnelEdit, tunnelHolder, changes,
  rules, catchAll, dest, request, emailHolder, late, arrived, removed

Zone == INSTANCE ZoneRules WITH
  Editors <- Requests, edit <- zoneEdit, holder <- zoneHolder

Tunnel == INSTANCE Tunnels WITH
  Editors <- TunnelEditors, edit <- tunnelEdit, holder <- tunnelHolder

Email == INSTANCE EmailRouting WITH holder <- emailHolder

ASSUME AccountConstants ==
  /\ Parts \subseteq {"log", "zone", "tunnel", "email"}
  /\ Zone!RuleConstants
  /\ Tunnel!TunnelConstants
  /\ Email!EmailConstants

zoneVars   == <<live, zoneEdit, zoneHolder, ids, lost, stale>>
tunnelVars == <<ingress, tunnel, dns, tunnelEdit, tunnelHolder, changes>>
emailVars  == <<rules, catchAll, dest, request, emailHolder, late, arrived, removed>>
allVars    == <<part, vars, zoneVars, tunnelVars, emailVars>>

\* Where a part that does not move stands: nothing is configured.
AccountInit ==
  /\ part \in Parts
  /\ Init /\ Zone!Init /\ Tunnel!Init /\ Email!Init
  /\ part # "zone" => live = Zone!Missing
  /\ part # "tunnel" => ingress = <<>> /\ \A h \in Hosts : dns[h] = "none"
  /\ part # "email" => \A d \in Dests : dest[d] = Email!NoDest

AccountNext ==
  \/ part = "log" /\ Next /\ UNCHANGED <<part, zoneVars, tunnelVars, emailVars>>
  \/ part = "zone" /\ Zone!Next /\ UNCHANGED <<part, vars, tunnelVars, emailVars>>
  \/ part = "tunnel" /\ Tunnel!Next /\ UNCHANGED <<part, vars, zoneVars, emailVars>>
  \/ part = "email" /\ Email!Next /\ UNCHANGED <<part, vars, zoneVars, tunnelVars>>

AccountSpec == AccountInit /\ [][AccountNext]_allVars

\* Requests of a kind, and the things they ask about, are interchangeable.
Symmetry ==
  Permutations(Requests) \cup Permutations(TunnelEditors) \cup Permutations(Zones)
    \cup Permutations(Addresses)

-----------------------------------------------------------------------------
(* Properties, of all parts or of one *)

\* Every variable of every part has its type.
TypesOK == TypeOK /\ Zone!TypeOK /\ Tunnel!TypeOK /\ Email!TypeOK

\* A change of Zone Rules undoes only what came up after its handler read them.
LosesOnlyUnseen == Zone!LosesOnlyUnseen

\* A public hostname of the Tunnel changes alone, with its own record.
HostnameAlone == Tunnel!HostnameAlone

\* An address of a Zone has one rule, and what forwards is verified, as the
\* handlers looked up before they changed it.
RulesHold == Email!RulesHold
=============================================================================
