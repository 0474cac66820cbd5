------------------------------ MODULE Ingress ------------------------------
(***************************************************************************)
(* The ingress of a Cloudflare Tunnel: an ordered list of rules, of which  *)
(* the last catches what no route matches. The operators are the edits of  *)
(* it, as functions on sequences of rules.                                 *)
(***************************************************************************)
EXTENDS Naturals, Sequences

\* A rule's settings stand for everything Neo Box does not edit.
Rule(host, path, service, settings) ==
  [host |-> host, path |-> path, service |-> service, settings |-> settings]

NoHost == ""
NoPath == ""
NotFound == "http_status:404"

IsCatchAll(r) == r.host = NoHost /\ r.path = NoPath
DefaultCatchAll == Rule(NoHost, NoPath, NotFound, "none")

Routing(ingress, host, path) ==
  {i \in DOMAIN ingress :
     ~IsCatchAll(ingress[i]) /\ ingress[i].host = host /\ ingress[i].path = path}

Has(ingress, host, path) == Routing(ingress, host, path) # {}

\* The first rule for the hostname and path.
Index(ingress, host, path) ==
  CHOOSE i \in Routing(ingress, host, path) :
    \A j \in Routing(ingress, host, path) : i <= j

EndsWithCatchAll(ingress) ==
  ingress # <<>> /\ IsCatchAll(ingress[Len(ingress)])

\* The route goes before the catch-all, which is added if it is missing.
WithRoute(ingress, r) ==
  IF EndsWithCatchAll(ingress)
  THEN SubSeq(ingress, 1, Len(ingress) - 1) \o <<r, ingress[Len(ingress)]>>
  ELSE ingress \o <<r, DefaultCatchAll>>

\* Mutant of WithRouteChanged: the rule is written anew.
WithRouteRewritten(ingress, host, path, newPath, service) ==
  [ingress EXCEPT ![Index(ingress, host, path)] = Rule(host, newPath, service, "none")]

WithRouteChanged(ingress, host, path, newPath, service) ==
  LET i == Index(ingress, host, path)
  IN  [ingress EXCEPT ![i].path = newPath, ![i].service = service]

WithoutRoute(ingress, host, path) ==
  LET i == Index(ingress, host, path)
  IN  SubSeq(ingress, 1, i - 1) \o SubSeq(ingress, i + 1, Len(ingress))

=============================================================================
