\* The deployed shape, nothing failing but the targets: one worker, one
\* replay at a time, an event for each of two endpoints.
SPECIFICATION Spec
CONSTANTS
  EndpointIds = {ep1, ep2}
  Keys = {k1}
  None = None
  MaxEvents = 2
  MaxFaults = 0
  FailureThreshold = 2
  CountLimit = 4
  Workers = {w1}
  MaxAttempts = 2
  Replayers = {r1}
  MaxReplays = 2
  Ingesters = {i1}
  Defects = {}
  MaxCrashes = 0
SYMMETRY EndpointSymmetry
INVARIANTS
  TypeOK
  WithheldWhileOpen
  TripsOnTime
  DeadLetterMeansFailed
  ReplaysAreCharged
PROPERTIES
  DeliveredIsFinal
  ImplementsQueue
