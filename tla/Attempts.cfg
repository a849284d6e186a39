\* Four callers of a breaker with a sample of two, two half-open slots, three
\* outages; two calls over two tiers of two attempts; programs of two files, five
\* audits that show two findings of a category; two tasks and two edits of the
\* configuration; two runs of one task with two dumps each; three runs of a coder
\* over two files, below three kinds of project_root.
SPECIFICATION MCSpec
CONSTANTS
  Callers = {c1, c2, c3, c4}
  RateNum = 1
  RateDen = 2
  SampleSize = 2
  HalfOpenMax = 2
  MaxTotal = 5
  MaxEpoch = 3
  WindowSize = 8
  Truncations = 3
  LowScores = 3
  EmptyOutputs = 2
  MaxRetries = 2
  VerifyMax = 3
  Threshold = 7
  SpecSize = 8
  FixSize = 4
  CritiqueSize = 4
  Cap = 24
  MaxCalls = 2
  MaxPerCategory = 2
  MaxRounds = 5
  Runs = {1, 2}
  JudgeKey = "judge"
  MaxEdits = 2
  Orchestrators = {1, 2}
  Levels = {"L0-Coder", "L1-Coder"}
  Passing = 7
  MinOccurrences = 2
  MinPercent = 40
  MaxPatterns = 1
  Enabled = {TRUE, FALSE}
  MaxDumps = 2
  MaxRuns = 3
  Tiers <- MCTiers
  BackendOf <- MCBackendOf
  Replies <- MCReplies
  Program <- MCProgram
  Specs <- MCSpecs
  Extends <- MCExtends
  StubNames <- MCStubNames
  Builtins <- MCBuiltins
  Stdlib <- MCStdlib
  Chain <- MCChain
  Fallback <- MCFallback
  Contents <- MCContents
  TaskOf <- MCTaskOf
  Dumps <- MCDumps
  Files <- MCFiles
  There <- MCThere
  Blocked <- MCBlocked
  Hidden <- MCHidden
  Roots <- MCRoots
  Unreadable <- MCUnreadable
  Clears <- MCClears
  Backends <- MCBackends
INVARIANTS ClosedOnGoodSample NoPhantomSlot ProbesBounded FixesSuffice OldFixesOnlyAfterResult LowScoresReported ConfigurationKept FilesAccounted LostByAccidentOnly
