\* A tolerance of 2 with clocks up to 3 apart reaches both of its edges.
SPECIFICATION VerificationSpec
CONSTANTS
  Tolerance = 2
  PublicKeys <- MCSecrets
  ProviderTexts = {"GitHub", "stripe", "midtrans", "discord", "generic", "paypal"}
  Secrets <- MCSecrets
  Targets <- MCTargets
  Hosts <- MCHosts
  Bodies <- MCBodies
  StampText <- MCStampText
  MaxTime = 3
  MaxSkew = 3
INVARIANTS
  GenuineIsAccepted
  AcceptedIsGenuine
  PartsAreKept
  RangesAreExact
CHECK_DEADLOCK FALSE
