SPECIFICATION Spec
CONSTANTS
  Snaps = {s1, s2}
  Files = {f1, f2}
  Sources = {x, y}
  Stores = {g1, g2}
  MaxFaults = 1
  MaxCrashes = 1
INVARIANTS
  TypeOK
  DocumentHeld
  HeldIsStored
  NoGarbage
  FailedKeepsNoFiles
SYMMETRY Symmetry
CHECK_DEADLOCK FALSE
