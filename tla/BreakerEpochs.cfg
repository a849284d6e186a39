\* Late results of calls from before an outage.
SPECIFICATION Spec
CONSTANTS
  Callers = {c1, c2, c3, c4}
  RateNum = 1
  RateDen = 2
  SampleSize = 2
  HalfOpenMax = 2
  MaxTotal = 5
  MaxEpoch = 3
PROPERTY StaleResultsDiscarded
