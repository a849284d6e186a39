SPECIFICATION FairSpec
CONSTANTS
  a1 = a1  a2 = a2  a3 = a3
  Asks = {a1, a2, a3}
  ModesOf <- MixedModes
  Tiers = 2
  Costs = {1, 8}
  Limit = 20
  TaskLimit = 8
  Levels = {50, 75, 90}
  WarnAt = 80
  MaxDay = 1
  MaxCalls = 1
INVARIANTS ReservationsOwned OverrunBounded SpendingBooked
PROPERTIES WarnedOnceToday AsksReturn
