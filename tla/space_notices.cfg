SPECIFICATION NoticesSpec
CONSTANTS
  Services = {s1, s2}
  Processes = {p1, p2}
  NoOwner = NoOwner
  BatchSize = 2
  LeaseTime = 1
  MaxDelay = 1
  MaxTime = 2
  Expiries = {2}
  MaxRegistrations = 2
  MaxDeletes = 2
  MaxFaults = 1
INVARIANTS
  NoticesTypeOK
  NoticeKept
  OneSender
PROPERTIES
  RetriesEnd
CHECK_DEADLOCK FALSE
