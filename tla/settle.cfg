\* Liveness of the queue behind a breaker, across one failed database call.
SPECIFICATION FairSpec
CONSTANTS
  EndpointIds = {ep1, ep2}
  Keys = {k1}
  None = None
  MaxEvents = 2
  MaxFaults = 1
  FailureThreshold = 1
  CountLimit = 2
  Workers = {w1}
  MaxAttempts = 2
  Replayers = {r1}
  MaxReplays = 0
  Ingesters = {i1}
  Defects = {}
  MaxCrashes = 0
PROPERTIES
  QueueSettles
