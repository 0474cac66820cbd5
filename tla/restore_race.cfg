SPECIFICATION Spec
CONSTANTS
  baseA = baseA
  baseB = baseB
  Snaps = {1}
  Bases = {baseA}
  BaseOf <- RestoresBaseOf
  Scheduled = {}
  Workers = {w1}
  Handlers = {h1}
  Restores = {1}
  QueueSize = 1
  Retention = 0
  MaxFaults = 0
  MaxCrashes = 0
  Deletable = FALSE
PROPERTIES
  NotDeletedUnderRestore
CHECK_DEADLOCK FALSE
