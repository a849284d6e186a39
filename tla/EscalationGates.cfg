\* Two tiers with every gate on; files the coder writes are protected and released.
SPECIFICATION FairSpec
CONSTANTS
  NumTiers = 2
  Principals = {}
  Agents = {1}
  FailureAction <- PairActions
  MaxRetries = 2
  VerifyEnabled = TRUE
  VerifyMax = 4
  QAEnabled = FALSE
  Files = {"a", "ma"}
  Clears <- SuffixClears
  Critiques = {"unknown"}
  OpenBreakers = {}
  EnvFailUp = FALSE
  MaxSignals = 1
  MaxCrashes = 1
INVARIANTS NoStaleApproval CheckpointFollowsVerdict
