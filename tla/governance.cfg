SPECIFICATION GovernanceSpec
CONSTANTS
  c1 = c1
  c2 = c2
  v1 = v1
  v2 = v2
  r1 = r1
  r2 = r2
  Communities = {c1, c2}
  Voters = {v1, v2}
  Members = 2
  Quorum = 50
  Threshold = 50
  Postgres = FALSE
  Streams <- MCStreams
  Runs = {r1, r2}
  HeldUp <- MCHeldUp
  MaxProposals = 2
  MaxFaults = 1
INVARIANTS
  GovernanceTypeOK
  OneVotingPerRun
  OneVoteEach
  CountedInTime
  DecisionUnlessRaced
  CrashLosesOneCommit
PROPERTIES
  EventuallyDecided
CHECK_DEADLOCK FALSE
