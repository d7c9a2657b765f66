SPECIFICATION RepoSpec
CONSTANTS
  Keys = {k1, k2}
  Values = {a}
  Links = {a}
  Gone = Gone
  NotGiven = NotGiven
  Writers = {w1, w2}
  NoRequest = NoRequest
  AcceptingImports = FALSE
  MaxRequests = 2
  MaxFaults = 1
  MaxCrashes = 1
  MaxActivations = 1
SYMMETRY Symmetric
INVARIANTS RepoTypeOK NoLostUpdate AnnouncedInOrder SinceUnlessCrashed
CHECK_DEADLOCK FALSE
