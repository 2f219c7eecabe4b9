\* A discord endpoint whose secret is not a public key: it is registered.
SPECIFICATION VerificationSpec
CONSTANTS
  Tolerance = 2
  PublicKeys <- MCOneKey
  ProviderTexts = {"discord", "generic"}
  Secrets <- MCSecrets
  Targets <- MCTargets
  Hosts = {}
  Bodies <- MCBodies
  StampText <- MCStampText
  MaxTime = 0
  MaxSkew = 0
INVARIANT RegisteredCanVerify
CHECK_DEADLOCK FALSE
