\* Five files, relative paths: passes of 2, 3, 4 or 5 files, one lost run per child.
\* Two loop objects over one library file, one of which learns, up to three attempts.
SPECIFICATION MCSpec
CONSTANTS
  Refs <- FiveRefs
  Dir <- FiveDirs
  OutTokens <- FiveOutputs
  Windows = {0, 16384, 35000, 40000, 50000}
  InputTokens = 20000
  PlanFirst = TRUE
  Backend = "pi"
  ProjectRoot = FALSE
  MaxRuns = 1
  Loops = {l1, l2}
  Projects <- MCProjects
  Assigned <- MCAssigned
  Paths = {"a.py", "b.html", "c.py"}
  FilesOf <- MCFilesOf
  Frontend = {"b.html"}
  FileCount <- MCFileCount
  Answers <- MCAnswers
  Conditions = {"big", "limited"}
  Holds <- MCHolds
  LimitConditions <- MCLimitConditions
  InitialRules <- MCInitialRules
  Lessons <- MCLessons
  Capacity = 2
  MAX_FILES_PER_CHUNK = 2
  MAX_RECHUNK_ATTEMPTS = 3
  MaxExecutes = 1
INVARIANTS EveryFileOnce SuccessLeavesNothingOut AcceptedFilesExist AttemptsDiffer
PROPERTY WorkEnds
