\* The configuration of one machine without API keys.
SPECIFICATION ConfigSpec
CONSTANTS
  Runs = {1}
  Chain <- LocalChain
  Contents <- LocalContents
  Fallback <- LocalFallback
  JudgeKey = "judge"
  MaxEdits = 0
INVARIANT DeliveredIsJudged
