SPECIFICATION RunnerSpec
CONSTANTS
  Dids = {alice, bob}
  MaxSeq = 3
  Concurrency = 2
  HasStartCursor = TRUE
  MaxDrops = 1
  MaxRestarts = 1
INVARIANTS RunnerTypeOK NoneDropped InOrderPerRepo
PROPERTIES ConvergesOnline
CHECK_DEADLOCK FALSE
