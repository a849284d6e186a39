\* The default ladder: three tiers that fail alike, then the principal.
SPECIFICATION Spec
CONSTANTS
  NumTiers = 4
  Principals = {4}
  Agents = {1}
  FailureAction <- DefaultActions
  MaxRetries = 1
  VerifyEnabled = FALSE
  VerifyMax = 0
  QAEnabled = FALSE
  Files = {}
  Clears <- NoClears
  Critiques = {"truncation", "unknown"}
  OpenBreakers = {}
  EnvFailUp = FALSE
  MaxSignals = 0
  MaxCrashes = 0
INVARIANT PrincipalGetsContext
