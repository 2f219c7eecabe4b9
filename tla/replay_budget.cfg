\* Expected to fail: the worker counts attempts before the replay clears them.
SPECIFICATION Spec
CONSTANTS
  EndpointIds = {ep1}
  Keys = {k1}
  None = None
  MaxEvents = 1
  MaxFaults = 0
  FailureThreshold = 2
  CountLimit = 4
  Workers = {w1}
  MaxAttempts = 2
  Replayers = {r1}
  MaxReplays = 1
  Ingesters = {i1}
  Defects = {}
  MaxCrashes = 0
INVARIANTS
  ReplayRestoresBudget
