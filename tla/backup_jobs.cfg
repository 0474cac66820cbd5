SPECIFICATION Spec
CONSTANTS
  baseA = baseA
  baseB = baseB
  Snaps = {1, 2, 3}
  Bases = {baseA, baseB}
  BaseOf <- JobsBaseOf
  Scheduled = {1, 2}
  Workers = {w1, w2}
  Handlers = {h1}
  Restores = {1}
  QueueSize = 1
  Retention = 1
  MaxFaults = 1
  MaxCrashes = 1
  Deletable = FALSE
INVARIANTS
  TypeOK
  
  JobOwnsRow
  SucceededHasContent
  NothingStranded
  RetentionHolds
  RetentionSparesNewest
PROPERTIES
  TerminalIsFinal
SYMMETRY WorkerSymmetry
CHECK_DEADLOCK FALSE
