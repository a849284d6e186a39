SPECIFICATION FairSpec
CONSTANTS
  t1 = t1  t2 = t2  t3 = t3  d1 = d1  c1 = c1  c2 = c2
  NoTask = NoTask
  Max = 2
  WorkerCap = 2
  Tasks = {t1, t2, t3}
  Ids = {"x", "y"}
  IdOf <- SharedIds
  Dispatchers = {d1}
  Batch <- BatchOfThree
  Closers = {c1, c2}
  Waits = {c1}
INVARIANTS SlotsConserved ShutdownIsFinal
PROPERTIES EveryFutureResolves ShutdownReturns
