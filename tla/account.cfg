\* Two writes of the log, a DNS record's and another's; three requests on the
\* two Zone Rules of a phase, or none; two on a Tunnel of two hostnames and
\* paths; three on the Email Routing of two Zones.
CONSTANTS
  o1 = o1
  o2 = o2
  t1 = t1
  t2 = t2
  q1 = q1
  q2 = q2
  q3 = q3
  z1 = z1
  z2 = z2
  a1 = a1
  a2 = a2
  d1 = d1
  Parts = {"log", "zone", "tunnel", "email"}
  Provider = "cloudflare"
  Ops = {o1, o2}
  DNS = {o1}
  MaxRetries = 2
  Rules = 2
  TunnelEditors = {t1, t2}
  Hosts = {"h1"}
  Paths = {"", "p"}
  Services = {"s1"}
  Configured = "s0"
  MaxDNS = 1
  Requests = {q1, q2, q3}
  Zones = {z1, z2}
  Addresses = {a1, a2}
  Dests = {d1}
  MaxLate = 1
SPECIFICATION AccountSpec
SYMMETRY Symmetry
INVARIANTS TypesOK NeverTwice ToldTrue  RulesHold
 
CHECK_DEADLOCK FALSE
