\* The links of one relation are among those of the other; NocoDB refuses nothing.
CONSTANTS
  f1 = f1
  f2 = f2
  f3 = f3
  gone = gone
  rel1 = rel1
  rel2 = rel2
  r1 = r1
  r2 = r2
  Parts = {"links"}
  Fields = {f1, f2, f3}
  Gone = gone
  Relations = {rel1, rel2}
  Records = {r1, r2}
  MaxLinks = 2
  MaxRefused = 0
SPECIFICATION RestoreBaseSpec
SYMMETRY Symmetry
INVARIANTS MirrorWins
CHECK_DEADLOCK FALSE
