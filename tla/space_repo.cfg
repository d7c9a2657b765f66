SPECIFICATION SpaceSpec
CONSTANTS
  Paths = {1, 2, 3}
  a = a
  b = b
  Cids = {a, b}
  NoCid = NoCid
  Batches <- MCBatches
  PageSize = 1
  OpsLimit = 2
  MaxCommits = 4
  MaxAborts = 1
  MaxDeletes = 1
INVARIANTS
  SpaceTypeOK
  HashIsRecords
  OplogReplays
  AcceptedHasValues
PROPERTIES
  ReadsCommitted
  CatchesUp
CHECK_DEADLOCK FALSE
