\* Expected to fail: a failed attempt is retried without a sleep.
SPECIFICATION FairSpec
CONSTANTS
  EndpointIds = {ep1}
  Keys = {k1}
  None = None
  MaxEvents = 1
  MaxFaults = 0
  FailureThreshold = 2
  CountLimit = 4
  Workers = {w1}
  MaxAttempts = 2
  Replayers = {r1}
  MaxReplays = 0
  Ingesters = {i1}
  Defects = {}
  MaxCrashes = 0
PROPERTIES
  RetriesAreSpaced
