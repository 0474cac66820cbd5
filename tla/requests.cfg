\* Three OAuth flows over two states and two accounts of one name, a password
\* login and a request; two updates, a test, a deletion and one run that
\* reports on a connection; two saves of two schedules and a cleanup.
CONSTANTS
  f1 = f1
  f2 = f2
  f3 = f3
  l1 = l1
  r1 = r1
  s1 = s1
  s2 = s2
  a1 = a1
  a2 = a2
  n1 = n1
  e1 = e1
  e2 = e2
  t1 = t1
  w1 = w1
  k1 = k1
  k2 = k2
  p1 = p1
  p2 = p2
  c1 = c1
  b1 = b1
  b2 = b2
  Parts = {"session", "connection", "schedule"}
  Flows = {f1, f2, f3}
  Logins = {l1}
  Requests = {r1}
  States = {s1, s2}
  Accounts = {a1, a2}
  Names = {n1}
  NameOf <- OneName
  MaxUsers = 3
  MaxSwitch = 1
  Editors = {e1, e2}
  Testers = {t1}
  Reporters = {w1}
  Configs = {k1, k2}
  MaxSecrets = 2
  Savers = {p1, p2}
  Cleaners = {c1}
  Bases = {b1, b2}
SPECIFICATION RequestsSpec
SYMMETRY Symmetry
INVARIANTS TypesOK OneFlowOneUser BarredStaysOut PairVerified  SettledSchedules
CHECK_DEADLOCK FALSE
