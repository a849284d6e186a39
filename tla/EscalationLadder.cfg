\* The default ladder L0, L1, L2, Principal: every way of leaving a tier.
SPECIFICATION FairSpec
CONSTANTS
  NumTiers = 4
  Principals = {4}
  Agents = {1, 2}
  FailureAction <- DefaultActions
  MaxRetries = 2
  VerifyEnabled = FALSE
  VerifyMax = 0
  QAEnabled = TRUE
  Files = {}
  Clears <- NoClears
  Critiques = {"truncation", "unknown"}
  OpenBreakers = {2}
  EnvFailUp = FALSE
  MaxSignals = 1
  MaxCrashes = 0
INVARIANTS PathIsTiersLeft CallBudget 
PROPERTIES CallReturns ImplementsContract
