\* Backfills by chunks, pulls and refreshes over some days; or two connections
\* and a queue of one. One connection may be deleted; crashes without number.
CONSTANTS
  a = a
  b = b
  Sides = {"days", "queue"}
  Conns = {a, b}
  BackfillDays = 3
  RefreshDays = 2
  ChunkDays = 2
  QueueCap = 1
  MaxDay = 7
  Deletable = {a}
SPECIFICATION SyncSpec
INVARIANTS TypeOK  PendingExact NoOrphans
CHECK_DEADLOCK FALSE
