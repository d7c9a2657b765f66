SPECIFICATION BsyncSpec
CONSTANTS
  ItemLimit = 3
  RelationLimit = 1
  Names = {"a", "b", "note"}
  RelationIds = {"r"}
  Absent = Absent
  Batches <- MCBatches
  Payloads <- MCPayloads
  PageLimit = 2
  MaxOps = 4
  MaxOpen = 2
  MaxFailures = 2
  MaxRestarts = 1
INVARIANTS
  BsyncTypeOK
  CaughtUpIsCurrent
  SkippedOnlyByOverlap
  NoSleepOnWork
  ItemsDistinct
PROPERTY
  EventuallyProcessed
CHECK_DEADLOCK FALSE
