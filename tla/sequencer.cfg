CONSTANTS
  Dids = {alice, bob}
  MaxSeq = 5
  PollLimit = 2
SPECIFICATION SequencerSpec
INVARIANTS ForgottenOnlyByOverlap DeletionComesFirst
CHECK_DEADLOCK FALSE
