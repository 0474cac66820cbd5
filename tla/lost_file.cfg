SPECIFICATION Spec
CONSTANTS
  Snaps = {s1, s2}
  Files = {f1, f2}
  Sources = {x}
  Stores = {g1}
  MaxFaults = 1
  MaxCrashes = 0
INVARIANTS
  SucceededIsComplete
CHECK_DEADLOCK FALSE
