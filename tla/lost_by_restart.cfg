\* Expected to fail: a restart while an event is being delivered.
SPECIFICATION Spec
CONSTANTS
  EndpointIds = {ep1}
  Keys = {k1}
  None = None
  MaxEvents = 1
  MaxFaults = 2
  FailureThreshold = 2
  CountLimit = 4
  Workers = {w1}
  MaxAttempts = 1
  Replayers = {r1}
  MaxReplays = 0
  Ingesters = {i1}
  Defects = {}
  MaxCrashes = 1
INVARIANT NothingLost
