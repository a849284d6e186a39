\* Two tasks, one of them in the main thread and checked twice; two callers of
\* the router.  A provider answers within 4 of the 6 seconds of a call.
SPECIFICATION MCSpec
CONSTANTS
  Tasks = {1, 2}
  Projects <- SomeProjects
  HealthPorts = {5000, 8000}
  BasePort = 5000
  Produced <- TwiceAndOnce
  Callers = {1, 2}
  MainTask = 1
  MaxRetries = 3
  TimeLimit = 6
  LongestCall = 4
  BaseDelay = 2
  MaxDelay = 3
  Lines = {12, 21}
  MaxCalls = 2
  Providers <- CheapAndDear
  Price <- TwoPrices
  Routers = {1, 2}
  Budgets = {1, 2}
  Strategies = {"smart", "round_robin"}
  FailureThreshold = 2
  SuccessThreshold = 2
  MaxRequests = 5
INVARIANTS  RetriesBounded LateRequestsBounded
PROPERTIES ClosesOnStreak ChecksEnd TasksEnd
