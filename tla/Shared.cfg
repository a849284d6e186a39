\* Three calls, one slot, one change of the limit; two calls of one task, two
\* tiers that ask, one operator, one request of a kind.
SPECIFICATION MCSpec
CONSTANTS
  Calls = {c1, c2, c3}
  Limit = 1
  NewLimits = {1, 2}
  MaxChanges = 1
  Threads = {t1, t2}
  Task = k1
  Tasks <- MCTasks
  TaskOf <- MCTaskOf
  NumTiers = 2
  WaitTiers = {1, 2}
  Operators = {o1}
  MaxRetries = 2
  MaxRequests = 1
INVARIANTS  BumpsBounded
PROPERTIES DecisionFollowsQuestion 
