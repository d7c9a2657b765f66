CONSTANTS
  Dids = {alice, bob}
  MaxSeq = 2
  Concurrency = 2
  HasStartCursor = TRUE
  MaxDrops = 0
  MaxRestarts = 0
SPECIFICATION RunnerSpec
PROPERTY DestroyResolves
CHECK_DEADLOCK FALSE
