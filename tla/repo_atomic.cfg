SPECIFICATION RepoSpec
CONSTANTS
  Keys = {k1}
  Values = {a}
  Links = {a}
  Gone = Gone
  NotGiven = NotGiven
  Writers = {w1, w2}
  NoRequest = NoRequest
  AcceptingImports = TRUE
  MaxRequests = 2
  MaxFaults = 1
  MaxCrashes = 1
  MaxActivations = 0
PROPERTIES TakesEffectAtOnce RequestsAnswered
CHECK_DEADLOCK FALSE
