\* One worker and one replay, two events of one endpoint, a database call
\* that may fail anywhere and a restart at any point.
SPECIFICATION Spec
CONSTANTS
  EndpointIds = {ep1}
  Keys = {k1, k2}
  None = None
  MaxEvents = 2
  MaxFaults = 1
  FailureThreshold = 2
  CountLimit = 4
  Workers = {w1}
  MaxAttempts = 2
  Replayers = {r1}
  MaxReplays = 1
  Ingesters = {i1}
  Defects = {}
  MaxCrashes = 1
SYMMETRY KeySymmetry
INVARIANTS
  NoStrandedEvent
  FailedIsReplayable
  DeliveryKeepsTarget
  FullBudgetUsed
  SettledInOrder
  ProbeIsOwned
  LossIsBounded
PROPERTY
  ImplementsLossyQueue
