SPECIFICATION Spec
CONSTANTS
  baseA = baseA
  baseB = baseB
  Snaps = {1}
  Bases = {baseA}
  BaseOf <- RestoresBaseOf
  Scheduled = {1}
  Workers = {w1}
  Handlers = {h1}
  Restores = {1, 2}
  QueueSize = 1
  Retention = 1
  MaxFaults = 1
  MaxCrashes = 1
  Deletable = TRUE
INVARIANTS
  CleanupMissesOnlyLate
PROPERTIES
  WorkSettles
  BaseFreed
CHECK_DEADLOCK FALSE
