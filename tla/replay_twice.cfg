\* Expected to fail: two replays of one dead letter.
SPECIFICATION FairSpec
CONSTANTS
  EndpointIds = {ep1}
  Keys = {k1}
  None = None
  MaxEvents = 1
  MaxFaults = 0
  FailureThreshold = 2
  CountLimit = 4
  Workers = {w1}
  MaxAttempts = 1
  Replayers = {r1, r2}
  MaxReplays = 2
  Ingesters = {i1}
  Defects = {}
  MaxCrashes = 0
PROPERTIES
  ReplayIsAtomic
