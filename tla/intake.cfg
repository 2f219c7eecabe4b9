\* Two concurrent ingest requests, one defect found before the endpoint is
\* looked up and one found after, racing an endpoint delete, the deliveries of
\* two workers, a failing database call and a restart.
SPECIFICATION Spec
CONSTANTS
  EndpointIds = {ep1}
  Keys = {k1}
  None = None
  MaxEvents = 2
  MaxFaults = 1
  FailureThreshold = 1
  CountLimit = 2
  Workers = {w1, w2}
  MaxAttempts = 1
  Replayers = {r1}
  MaxReplays = 0
  Ingesters = {i1, i2}
  Defects = {"api_key", "signature"}
  MaxCrashes = 1
SYMMETRY HandlerSymmetry
INVARIANTS
  AcceptedOnce
  AnswerIsHonest
  BoundedSends
  ClaimedByOne
