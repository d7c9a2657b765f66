CONSTANTS
  Dids = {alice}
  Clients = {c1}
  MaxSeq = 3
  PollLimit = 2
  PageSize = 2
  MaxBuffer = 2
  MaxHorizon = 1
  MaxDrops = 1
SPECIFICATION Spec
INVARIANTS TypeOK NoGap NoGapInv
PROPERTIES KeepsPromise OrderedWithinConnection
CHECK_DEADLOCK FALSE
