SPECIFICATION BsyncSpec
CONSTANTS
  ItemLimit = 3
  RelationLimit = 1
  Names = {"a", "b", "note"}
  RelationIds = {"r"}
  Absent = Absent
  Batches <- MCBatches
  Payloads <- MCPayloads
  PageLimit = 2
  MaxOps = 4
  MaxOpen = 2
  MaxFailures = 1
  MaxRestarts = 1
INVARIANT
  ReplayChangesNothing
CHECK_DEADLOCK FALSE
