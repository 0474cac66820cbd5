\* Two relations of up to two links among two records of each table; three
\* computed fields that name each other in every way.
CONSTANTS
  f1 = f1
  f2 = f2
  f3 = f3
  gone = gone
  rel1 = rel1
  rel2 = rel2
  r1 = r1
  r2 = r2
  Parts = {"links", "computed"}
  Fields = {f1, f2, f3}
  Gone = gone
  Relations = {rel1, rel2}
  Records = {r1, r2}
  MaxLinks = 2
  MaxRefused = 2
SPECIFICATION RestoreBaseSpec
SYMMETRY Symmetry
INVARIANTS TypesOK 
PROPERTIES CreatesAllItCan
CHECK_DEADLOCK FALSE
